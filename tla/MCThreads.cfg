SPECIFICATION MCSpec
CONSTANTS
  Thread = {t1, t2}
  Shell = {s1}
  Cap = 1
  MaxSubmits = 2
  MaxSweeps = 1
  MaxUpdates = 1
  MaxAdmin = 1
  Shutdown = TRUE
  Msg = {m1, m2}
  Tap = {u1}
  Sweeper = sweeper
  Scheduler = scheduler
  MaxKey = 4
  SessionCap = 2
  IdleReset = TRUE
  MaxTime = 2
  MaxEvents = 3
  Album = {1, 2, 3}
  Single = {4}
  Text = {5, 6}
  Voice = {7, 8}
  MaxParts = 2
  ShortCap = 1
  WeekCap = 2
  MaxSent = 3
  MaxAsks = 2
  MaxClock = 3
  MaxDeletes = 1
  None = None
INVARIANTS
  ShellHasOneOwner TurnKeepsClient ClosedIsClosed
   CapHoldsUnlessRaced OccurrenceFiredOnce
  HeldOnce
 
CHECK_DEADLOCK FALSE
