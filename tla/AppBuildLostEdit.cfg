SPECIFICATION Spec
CONSTANTS
  Plan <- AFileOfEachKind
  Critical = {"guard"}
  SpecDependent = {"router"}
  Required = {"readiness", "states"}
  LaneExists = {"readiness", "guard"}
  LaneMarked = {"router"}
  LaneKinds <- BothKinds
  Specs = {"v1", "v2"}
  MaxCommands = 2
  MaxEdits = 1
  MaxCrashes = 0
PROPERTIES
  MergedBeforeOverwrite
CHECK_DEADLOCK FALSE
