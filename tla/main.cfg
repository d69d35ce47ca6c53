SPECIFICATION FairSpec
CONSTANTS
  p1 = p1  p2 = p2
  Pods = {p1, p2}
INVARIANT ServesMigrated
PROPERTIES EventuallyServes NoHalfPod
\* Once calm in development, two serving pods have nothing left to do.
CHECK_DEADLOCK FALSE
