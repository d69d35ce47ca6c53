SPECIFICATION FairSpec
CONSTANTS
  r1 = r1  r2 = r2
  Strings <- MCStrings
  Numerals <- MCNumerals
  Nums <- MCNums
  Int32 = 4
  Clients = {r1, r2}
  Incoming <- MCIncoming
  MaxRows = 2
INVARIANTS TypeOK ListsWhole UrlDecides
PROPERTIES ImplementsRemoteCall RequestsAnswered
CHECK_DEADLOCK FALSE
