CONSTANTS
  Submits = {h1, h2, h3}
  Stops = {s1}
  Resets = {x1}
  Evicts = {e1}
  Rotates = {}
  MaxQueued = 2
  None = None
SPECIFICATION Spec
SYMMETRY Symmetry
INVARIANTS OneClient PromptsKept
PROPERTY PromptsInOrder
CHECK_DEADLOCK FALSE
