SPECIFICATION Spec
CONSTANTS
  p1 = p1
  p2 = p2
  Procs <- TwoProcs
  Goals <- UsualGoals
  MaxCommands = 4
  MaxCrashes = 1
  Overlap = FALSE
INVARIANTS
  RestoreFirst
CHECK_DEADLOCK FALSE
