SPECIFICATION Spec
CONSTANTS
  p1 = p1
  p2 = p2
  Procs <- TwoProcs
  Goals <- AllGoals
  MaxCommands = 4
  MaxCrashes = 0
  Overlap = FALSE
INVARIANTS
  DangerousWaits
CHECK_DEADLOCK FALSE
