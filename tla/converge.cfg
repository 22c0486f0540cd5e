SPECIFICATION FairSpec
CONSTANTS
  p1 = p1
  p2 = p2
  d1 = d1
  d2 = d2
  none = none
  NoTarget = none
  MaxInt = 15
  Policies = {p1}
  Deployments = {d1}
  Workload <- OneWorkload
  Specs <- ConvergeSpecs
  InitSpecs <- ConvergeInitSpecs
  InitReplicas = {0, 6}
  Signals <- QuietSignals
  LLMAnswers <- ConvergeAnswers
  Costs = {}
  Subsystems = {"audit"}
  MaxConcurrent = 0
  ClusterMaxHourly = 0
  Window = 2
  DetectorSize = 3
  AuditSize = 1
  Interval = 1
  Delay = 1
  MaxAge = 2
  UserReplicas = {}
  Freezes = {}
  MaxEdits = 0
  MaxFaults = 0
PROPERTIES
  Converges
