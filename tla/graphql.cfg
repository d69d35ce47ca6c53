SPECIFICATION FairSpec
CONSTANTS
  Strings <- MCStrings
  Numerals <- MCNumerals
  Nums <- MCNums
  Int32 = 4
  Width = 2
  Requested <- MCRequested
INVARIANTS TypeOK OwnResults
PROPERTIES ImplementsRemoteCall RequestsAnswered GoroutinesEnd
CHECK_DEADLOCK FALSE
