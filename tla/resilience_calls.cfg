SPECIFICATION FairSpec
CONSTANTS
  Caller = {c1, c2}
  Retrier = {c2}
  failure_threshold_ = 2
  success_threshold_ = 2
  recovery_timeout = 2
  PolicyName = {"aggressive", "moderate", "conservative"}
INVARIANT
  AtRest
PROPERTIES
  RetryHonest
  FailsFastIfSerial
  ImplementsBreaker
  Recovers
CHECK_DEADLOCK FALSE
