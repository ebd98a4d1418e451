CONSTANTS
  Requests = {r1, r2}
  Keys = {k1, k2}
  Cancels = {s1}
SPECIFICATION FairSpec
INVARIANT StopUnblocks
PROPERTIES  EveryCallSettles
CHECK_DEADLOCK FALSE
