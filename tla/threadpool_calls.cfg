SPECIFICATION FairSpec
CONSTANTS
  Worker = {w1, w2}
  Client = {owner, user}
  Owner = owner
  Task = {t1, t2}
  NoTask = NoTask
  Free = Free
  CallBound = 4
  SpuriousBound = 1
INVARIANTS
  TypeOK
  TasksAccounted
PROPERTIES
  ReturnsWithWorkDone
  ImplementsTaskPool
  NoWakeupLost
CHECK_DEADLOCK FALSE
