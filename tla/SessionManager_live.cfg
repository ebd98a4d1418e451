CONSTANTS
  Submits = {h1, h2}
  Stops = {}
  Resets = {x1}
  Evicts = {}
  Rotates = {r1}
  MaxQueued = 1
  None = None
SPECIFICATION FairSpec
PROPERTY CallsSettle
CHECK_DEADLOCK FALSE
