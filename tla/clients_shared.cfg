SPECIFICATION FairSpec
CONSTANTS
  Thread = {t1, t2}
  Free = Free
  Providers = {"ollama", "claude", "google-agy"}
  Endpoints = 2
  IntLimit = 3
  CallBound = 5
INVARIANTS
  OwnRequest
  EvenLoad
PROPERTIES
  ErrorsTold
  CallEnds
CHECK_DEADLOCK FALSE
