SPECIFICATION Spec
CONSTANTS
  p1 = p1
  p2 = p2
  auth_guard = auth_guard
  retry_helper = retry_helper
  Procs <- TwoProcs
  Tools <- TwoTools
  Kind <- OneOfEach
  SameId <- TwoTools
  NChecks = 11
  Overlaps <- AllModes
  Bounds <- SmallBounds
INVARIANTS
  TypeOK
  EarnedTrust
  HistoryReplays
  QuarantineTraced
PROPERTIES
  RollbackStands
CHECK_DEADLOCK FALSE
