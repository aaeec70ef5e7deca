SPECIFICATION Spec
CONSTANTS
  Thread = {t1, t2}
  CallBound = 4
INVARIANTS
  OneTransaction
  NothingLeftOpen
  CommitPersists
  RollbackDiscards
CHECK_DEADLOCK FALSE
