SPECIFICATION Spec
CONSTANTS
  r1 = r1
  Readers = {r1}
  Values = {0, 1, 2}
  Zero = 0
  Documents <- SomeDocuments
  MaxChanges = 3
INVARIANT WordsInForce
