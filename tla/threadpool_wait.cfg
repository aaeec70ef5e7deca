SPECIFICATION FairSpec
CONSTANTS
  Worker = {w1, w2}
  Client = {owner, user}
  Owner = owner
  Task = {t1, t2}
  NoTask = NoTask
  Free = Free
  CallBound = 2
  SpuriousBound = 0
PROPERTY
  WaitEnds
CHECK_DEADLOCK FALSE
