SPECIFICATION Spec
CONSTANTS
  Strings <- MCStrings
  Numerals <- MCNumerals
  Nums <- MCNums
  Int32 = 4
  Width = 2
  Requested <- MCRequested
INVARIANTS SizeArrives
CHECK_DEADLOCK FALSE
