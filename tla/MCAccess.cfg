SPECIFICATION MCSpec
CONSTANTS
  Msg = {m1, m2}
  Tap = {t1}
  MaxFaults = 1
  MaxEdits = 1
  Tools = {"Read", "Bash", "Web"}
  Notes = {n1, n2, n3}
  NotesCap = 2
  MaxChanges = 4
  All = All
  Turn = {u1}
  Window = {five, seven}
  Five = five
  Used = {50, 100}
  MaxReadings = 3
  MaxRestarts = 1
  MaxPosts = 2
  None = None
SYMMETRY Alike
INVARIANTS
  RightsKept 
    
CHECK_DEADLOCK FALSE
