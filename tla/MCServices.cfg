SPECIFICATION MCSpec
CONSTANTS
  MaxUpdates = 2
  MaxParts = 2
  MaxDrafts = 1
  Key = {k1, k2}
  Uid = {u1, u2}
  MaxName = 2
  MaxAdmin = 2
  Half = 3
  Hour = 2
  Week = 3
  Horizon = 24
  Changes = {0, 6, 8}
  MaxFaults = 1
  MaxCrashes = 1
  DirCrashes = 2
  Kinds = {"prose", "blank", "heading", "row", "sep", "ticks", "lang", "info", "tildes", "token"}
  MaxLines = 4
  Limit = 9
  None = None
INVARIANTS CodeStaysCode UpdatesKept UidsDistinct ConversationsKept
PROPERTIES  RunsWhenDue
CHECK_DEADLOCK FALSE
