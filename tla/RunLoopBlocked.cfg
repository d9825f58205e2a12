SPECIFICATION FairSpec
CONSTANTS
  t1 = t1
  t2 = t2
  t3 = t3
  Tasks <- MCTasks
  FirstTask = t1
  MaxRepairs = 1
  OperatorMarks = {"blocked"}
PROPERTY CommandsEnd
CHECK_DEADLOCK FALSE
