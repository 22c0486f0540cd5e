SPECIFICATION Spec
CONSTANTS
  p1 = p1
  p2 = p2
  d1 = d1
  d2 = d2
  none = none
  NoTarget = none
  MaxInt = 15
  Policies = {p1}
  Deployments = {d1}
  Workload <- OneWorkload
  Specs <- CoreSpecs
  InitSpecs <- CoreInitSpecs
  InitReplicas = {1}
  Signals <- QuietSignals
  LLMAnswers <- CoreAnswers
  Costs = {2}
  Subsystems = {"coordination", "cost"}
  MaxConcurrent = 1
  ClusterMaxHourly = 0
  Window = 2
  DetectorSize = 3
  AuditSize = 2
  Interval = 1
  Delay = 1
  MaxAge = 1
  UserReplicas = {0, 4}
  Freezes = {1}
  MaxEdits = 1
  MaxFaults = 1
INVARIANTS
  CooldownHolds
  PolicyExists
  SlotsReleased
PROPERTIES
  PatchesConform
  UserWritesSurvive
