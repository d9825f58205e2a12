SPECIFICATION FairSpec
CONSTANTS
  p1 = p1
  p2 = p2
  Procs <- TwoProcs
  Goals <- AllGoals
  MaxCommands = 4
  MaxCrashes = 2
  Overlap = FALSE
INVARIANTS
  TypeOK
  DeniedNeverRuns
  WorkRepeatedOnlyByCrash
  WritesInOrder
PROPERTIES
  RestoreKept
  DoneMeansDone
  DecisionIsFinal
  KeepsPromise
  CommandsEnd
  ApprovedRunCompletes
CHECK_DEADLOCK FALSE
