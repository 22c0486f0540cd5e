SPECIFICATION Spec
CONSTANTS
  p1 = p1
  p2 = p2
  d1 = d1
  d2 = d2
  none = none
  NoTarget = none
  MaxInt = 15
  Policies = {p1}
  Deployments = {d1}
  Workload <- OneWorkload
  Specs <- LayerSpecs
  InitSpecs <- LayerInitSpecs
  InitReplicas = {2}
  Signals <- LayerSignals
  LLMAnswers <- LayerAnswers
  Costs = {}
  Subsystems = {"approval"}
  MaxConcurrent = 0
  ClusterMaxHourly = 0
  Window = 2
  DetectorSize = 3
  AuditSize = 2
  Interval = 1
  Delay = 1
  MaxAge = 1
  UserReplicas = {}
  Freezes = {}
  MaxEdits = 0
  MaxFaults = 0
INVARIANTS
  ApprovalBlocksTheChange
