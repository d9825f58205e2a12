SPECIFICATION ServicesSpec
CONSTANTS
  Approvers = {alice, bob}
  Unnamed = unnamed
  MaxHistory = 5
  Touched <- MCTouched
  Limits = {0, 1, 2, 30}
  MaxMeddling = 2
  Users = {p, q}
  Names = {x, y}
  Features = {"deploy", "support"}
  Nothing = nothing
  MaxOrders = 4
  MaxDeaths = 1
  MaxMutations = 2
INVARIANTS
  ServicesTypeOK
  AuditTrailStands
  RepairHelps
  LastOrderStands
  GatesHold
CHECK_DEADLOCK FALSE
