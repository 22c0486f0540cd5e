---------------------------- MODULE MCReconciler ----------------------------
(***************************************************************************)
(* Instances of the reconcile loop for TLC.  Each configuration picks its  *)
(* specs, signals and answers from the definitions below.                  *)
(***************************************************************************)
EXTENDS ReconcilerProperties, TLC

CONSTANTS p1, p2, d1, d2, none

OneWorkload == (d1 :> "w1")
TwoWorkloads == (d1 :> "w1") @@ (d2 :> "w2")

Plain ==
  [target |-> d1, min |-> 1, max |-> 2, step |-> 1, minConf |-> 5,
   cooldown |-> 1, dryRun |-> FALSE, metrics |-> "required",
   annotations |-> "absent", up |-> NoPolicy, down |-> NoPolicy,
   rollback |-> {}, slos |-> FALSE, keda |-> FALSE,
   prec |-> [set |-> FALSE, flags |-> DefaultFlags],
   requireApproval |-> FALSE, approveWhen |-> {}, hard |-> FALSE,
   maxHourly |-> 0, maxMonthly |-> 0, deps |-> {}]

DryRun == [Plain EXCEPT !.dryRun = TRUE]
Invalid == [Plain EXCEPT !.min = 3]
Quick == [Plain EXCEPT !.cooldown = 0]

QuietSignals == {NoSignals}
Answer(n, c) == [target |-> n, conf |-> c]


(* A world that holds still while the worker runs, for the runs that look  *)
(* at decisions and not at interleavings.                                  *)
Serial == Worker \/ (pc = "idle" /\ Next)
SerialSpec == Init /\ [][Serial]_vars

(* The same, with timers and informers of policies and Deployments that    *)
(* are not late, and failures of the audit store and restarts only.  The   *)
(* informer of ConfigMaps may be late over any number of cycles, and       *)
(* catches up between two: a cycle reads its copy once and writes once,    *)
(* and nothing between depends on it.                                      *)
Prompt ==
  LET late == \/ \E p \in Policies : ~synced[p] \/ timer[p] = 0
              \/ seen # dep
  IN  IF pc = "idle" /\ late
      THEN \/ \E p \in Policies : SyncPolicy(p) \/ TimerFires(p)
           \/ \E d \in Deployments : SyncDeployment(d)
      ELSE Serial /\ (faults' # faults => pc \in {"checkRollback", "recordAudit", "idle"})

(* core: one policy that users make invalid, repair, pause and delete,     *)
(* while others scale and freeze its Deployment                            *)
Annotated == [Plain EXCEPT !.annotations = "optional"]
CoreInitSpecs == {p1 :> Annotated, p1 :> DryRun, p1 :> Invalid}
CoreSpecs == {Annotated, DryRun, Invalid}
CoreAnswers == {Answer(2, 9), Answer(1, 9)}
OneAnswer == {Answer(2, 9)}

(* live: one policy that users repair and delete *)
Watched == [Plain EXCEPT !.rollback = {"errorRateIncrease"}]
LiveInitSpecs == {p1 :> Watched, p1 :> Invalid}
LiveSpecs == {Watched, Invalid}

(* cooldown_lost: one policy whose owner edits it while it is evaluated    *)
EditedInitSpecs == {p1 :> Plain}
EditedSpecs == {Plain, Watched}

(* layers: every layer of the precedence, under several policies *)
Layered == [Plain EXCEPT !.max = 3, !.cooldown = 0, !.annotations = "optional",
                         !.keda = TRUE, !.slos = TRUE]
Ordered == [Layered EXCEPT
  !.prec = [set |-> TRUE,
            flags |-> [schedule |-> TRUE, slo |-> TRUE, reactive |-> FALSE]]]
Reordered == [Layered EXCEPT
  !.prec = [set |-> TRUE,
            flags |-> [schedule |-> TRUE, slo |-> FALSE, reactive |-> FALSE]]]
Asked == [Ordered EXCEPT !.approveWhen =
  {[type |-> "ReplicaChangeExceeds", threshold |-> 0]}]
Asking == [Ordered EXCEPT !.requireApproval = TRUE]
Unsure == [Ordered EXCEPT !.approveWhen =
  {[type |-> "ConfidenceBelow", threshold |-> 9]}]
Costly == [Ordered EXCEPT !.approveWhen =
  {[type |-> "CostIncreaseExceeds", threshold |-> 1]}]
Directed == [Ordered EXCEPT !.up = [set |-> TRUE, step |-> 1, conf |-> 9]]
Budgeted == [Layered EXCEPT !.hard = TRUE, !.maxHourly = 4, !.step = 2]
Monthly == [Budgeted EXCEPT !.maxHourly = 6, !.maxMonthly = 2880]

LayerInitSpecs ==
  {p1 :> s : s \in {Layered, Ordered, Reordered, Asked, Asking, Unsure, Directed}}
LayerSpecs == {s[p1] : s \in LayerInitSpecs}
Rule(action, amount) == [action |-> action, amount |-> amount]
LayerSignals ==
  {[NoSignals EXCEPT !.sloMet = met, !.keda = k, !.rule = r] :
     met \in BOOLEAN, k \in {0, 3}, r \in {NoSignals.rule, Rule("scale_down", 1)}}
LayerAnswers == {Answer(1, 9), Answer(3, 3)}

(* decisions: those, and limits, ceilings and approvals that depend on cost *)
BudgetInitSpecs == {p1 :> s : s \in {Costly, Budgeted, Monthly}}
DecisionInitSpecs == LayerInitSpecs \cup BudgetInitSpecs
DecisionSpecs == {s[p1] : s \in DecisionInitSpecs}

(* memory: the oscillation detector, the audit records and rollbacks *)
Undoing == [Quick EXCEPT !.rollback = {"errorRateIncrease"}, !.max = 3, !.step = 2]
MemoryAnswers == {Answer(3, 9)}
MemoryInitSpecs == {p1 :> Undoing}
MemorySpecs == {Undoing}
MemorySignals == {NoSignals, [NoSignals EXCEPT !.err = 20]}

(* pair: two policies, one depending on the other's workload *)
Other == [Quick EXCEPT !.target = d2, !.deps = {"w1"}]
PairInitSpecs == {(p1 :> Quick) @@ (p2 :> Other)}
PairSpecs == {Quick, Other}

(* converge: nobody interferes and every answer is the same *)
Wide == [Watched EXCEPT !.max = 4]
ConvergeAnswers == {Answer(3, 9)}
ConvergeInitSpecs == {p1 :> Wide}
ConvergeSpecs == {Wide}
=============================================================================
