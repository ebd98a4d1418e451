CONSTANTS
  Keys = {u1, u2, u3}
  Calls = {c1, c2, c3, c4}
  Slots = 1
SPECIFICATION MCFairSpec
INVARIANT BypassBounded
PROPERTIES PoolSpec EveryWaiterServed
