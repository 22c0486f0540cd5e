SPECIFICATION FairSpec
CONSTANTS
  Nothing = Nothing
  Requests <- MCRequests
  Providers = {"openai", "ollama", "absent"}
  Configured = {"openai", "ollama"}
  Contents = {"advice"}
  Threshold = 2
  ResetTimeout = 2
  TTL = 2
  CacheLimit = 1
  MaxAge = 3
INVARIANTS
  RouterTypes
  BreakerSound
PROPERTIES
  RestRespected
  FailureDeserved
  PromiseKept
  ProbedAgain
