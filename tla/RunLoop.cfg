SPECIFICATION FairSpec
CONSTANTS
  t1 = t1
  t2 = t2
  t3 = t3
  Tasks <- MCTasks
  FirstTask = t1
  MaxRepairs = 1
  OperatorMarks = {"pending"}
INVARIANTS
  TypeOK
  RepairBudget
  VerdictSound
PROPERTIES
  SettledRunAsksNothing
  FollowsOutcome
  CommandsEnd
CHECK_DEADLOCK FALSE
