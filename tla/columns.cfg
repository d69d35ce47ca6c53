SPECIFICATION ColumnsSpec
CONSTANTS
  Creates = {c1, c2}
  Hosts = {p1, p2}
  Asked <- MCAsked
  NoTime = NoTime
  Column32 = 8
  Varchar = 2
  Second = 4
  MaxClock = 6
INVARIANTS KeptIfItFits CreatedInOrder
CHECK_DEADLOCK FALSE
