SPECIFICATION Spec
CONSTANTS
  p1 = p1
  p2 = p2
  Procs <- TwoProcs
  Goals <- AllGoals
  MaxCommands = 3
  MaxCrashes = 1
  Overlap = TRUE
INVARIANTS
  GateHolds
CHECK_DEADLOCK FALSE
