----------------------------- MODULE MCResources -----------------------------
(* One container, whose CPU has a limit; policies in the live mode (with    *)
(* bounds that differ for CPU and memory), in a dry run, recommending only, *)
(* and without vertical scaling.                                            *)
EXTENDS ResourcesProperties

Amount(cpu, memory, cpuMax, memoryMax) ==
  [cpuRequest |-> cpu, memoryRequest |-> memory,
   cpuLimit |-> cpuMax, memoryLimit |-> memoryMax]

Bound(cpu, memory) == [cpuRequest |-> cpu, memoryRequest |-> memory]

Policy(on, dry, m, low, high) ==
  [enabled |-> on, dryRun |-> dry, mode |-> m, min |-> low, max |-> high]

MCConfigs ==
  {Policy(TRUE, FALSE, "InPlace", Bound(0, 1), Bound(2, 1)),
   Policy(TRUE, TRUE, "InPlace", Bound(0, 0), Bound(0, 0)),
   Policy(TRUE, FALSE, "RecommendOnly", Bound(0, 0), Bound(0, 0)),
   Policy(FALSE, FALSE, "InPlace", Bound(0, 0), Bound(0, 0))}

(* Complete and roomy; without limits; out of bounds; not a quantity.       *)
MCProposals ==
  {Amount(2, 1, 2, 1), Amount(2, 1, Blank, Blank), Amount(1, 2, Blank, 0),
   Amount(1, 1, Garbage, Blank)}

MCFirst == {Amount(1, 1, 1, 0)}
=============================================================================
