SPECIFICATION Spec
CONSTANTS
  c1 = c1  c2 = c2  p1 = p1  p2 = p2  i1 = i1  i2 = i2
  Calls = {c1, c2}
  Pods = {p1, p2}
  PodOf <- TwoPods
  IDs = {i1}
  GetKeys <- IDAndKey
  Opts <- AllOnly
INVARIANTS AbsentIsNotFound
