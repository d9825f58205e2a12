SPECIFICATION Spec
CONSTANTS
  Plan <- AFileOfEachKind
  Critical = {"guard"}
  SpecDependent = {"router"}
  Required = {"readiness", "states"}
  LaneExists = {"readiness", "guard"}
  LaneMarked = {"router"}
  LaneKinds <- BothKinds
  Specs = {"v1", "v2"}
  MaxCommands = 3
  MaxEdits = 2
  MaxCrashes = 1
INVARIANTS
  TypeOK
  CertificateHonest
  VerifiedByBuild
  DivergedIsBuilt
PROPERTIES
  CriticalKept
  ReadyIsCertified
  CertificateNotOutlived
CHECK_DEADLOCK FALSE
