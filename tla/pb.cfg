SPECIFICATION FairSpec
CONSTANTS
  Word = 32768
  TagWord = 256
  Times <- MCTimes
  Inputs <- MCInputs
INVARIANTS TypeOK NeverPanics ReadsAsMerged CutIsNoOther EqualIsSameBytes
PROPERTY Ends
CHECK_DEADLOCK FALSE
