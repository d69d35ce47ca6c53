SPECIFICATION Spec
CONSTANTS
  c1 = c1  c2 = c2  p1 = p1  p2 = p2
  Calls = {c1, c2}
  Pods = {p1, p2}
  PodOf <- TwoPods
  SharedTTL = 3
  LocalTTL = 2
  MaxLag = 1
  Horizon = 9
INVARIANT VisibleInTime
