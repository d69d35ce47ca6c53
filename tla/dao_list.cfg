SPECIFICATION Spec
CONSTANTS
  c1 = c1  c2 = c2  p1 = p1  p2 = p2  i1 = i1  i2 = i2
  Calls = {c1, c2}
  Pods = {p1}
  PodOf <- OnePod
  IDs = {i1, i2}
  GetKeys <- KeyOnly
  Opts <- SamePage
INVARIANTS CachesCoherent
PROPERTY ImplementsService
SYMMETRY Alike
