------------------------ MODULE ReconcilerProperties ------------------------
(***************************************************************************)
(* What the reconcile loop must guarantee, whatever the interleaving of    *)
(* users, rollouts, informers, failures and restarts.                      *)
(***************************************************************************)
EXTENDS Reconciler

WorkloadStates == [spec : Nat, status : Nat, freeze : Ages]

Events == [dir : {"up", "down"}, age : Ages]

Records == [prev : Nat, new : Nat, dry : BOOLEAN, sig : SignalType]

CandidateType == Decisions \cup {NoDecision}

Cycles ==
  [current : Nat, sig : SignalType, slosKnown : BOOLEAN,
   cand : [Layers -> CandidateType], dec : CandidateType,
   wc : Optional(Nat), est : Optional(Int), ceiling : Optional(Int),
   validated : Optional(Nat), held : BOOLEAN,
   exit : {"none", "ready", "result", "error"}, after : Ages \cup {NoTimer},
   wasSynced : BOOLEAN]

StoreTypes ==
  /\ api \in [Policies -> Objects] /\ cache \in [Policies -> Objects]
  /\ synced \in [Policies -> BOOLEAN]

WorldTypes ==
  /\ dep \in [Deployments -> WorkloadStates]
  /\ seen \in [Deployments -> WorkloadStates]
  /\ queue \subseteq Policies
  /\ timer \in [Policies -> Ages \cup {NoTimer}]
  /\ edits \in 0..MaxEdits /\ faults \in 0..MaxFaults

CycleTypes ==
  /\ pc \in Steps /\ cur \in Policies /\ obj \in Objects
  /\ fresh \in BOOLEAN /\ cyc \in Cycles

MemoryTypes ==
  /\ events \in Seq(Events) /\ Len(events) <= DetectorSize
  /\ audit \in [Workloads -> Seq(Records)]
  /\ auditSeen \in [Workloads -> Seq(Records)]
  /\ auditSynced \in [Workloads -> BOOLEAN]
  /\ \A w \in Workloads : Len(audit[w]) <= AuditSize
  /\ active \subseteq Workloads

GhostTypes ==
  since \in [Policies -> Ages] /\ stamped \in [Policies -> BOOLEAN]

(* Every variable keeps its type; the event ring and the audit records     *)
(* keep their limits.                                                      *)
TypeOK == StoreTypes /\ WorldTypes /\ CycleTypes /\ MemoryTypes /\ GhostTypes

(* The next step of the worker changes a Deployment, as far as the         *)
(* informer can tell.                                                      *)
AboutToPatch == pc = "actuate" /\ Scales /\ ~obj.spec.dryRun

-----------------------------------------------------------------------------
(* Safety.                                                                 *)

(* Cooldown: a cycle that began with the newest version of the policy does *)
(* not scale within the cooldown of the policy's last change, provided a   *)
(* LastScaleTime of that change was stored.  (checkCooldown reads a copy   *)
(* that users, informers and persistStatus's conflicts may have made old.) *)
CooldownHolds ==
  AboutToPatch /\ cyc.wasSynced /\ stamped[cur]
    => since[cur] >= obj.spec.cooldown

(* Finalizer: a Deployment is never scaled for a policy that no longer     *)
(* exists, however old the informer's copy is.                             *)
PolicyExists == AboutToPatch => api[cur].life # "gone"

(* Slots: a coordination slot belongs to the reconcile in progress and     *)
(* never outlives it, on whatever path it returns.                         *)
SlotsReleased ==
  /\ active = IF cyc.held THEN {Workload[obj.spec.target]} ELSE {}
  /\ pc = "idle" => active = {}

InBounds(n) == obj.spec.min <= n /\ n <= obj.spec.max

Decided == pc \in {"checkCoordination", "actuate"}

(* Step limit: where the symmetric validator runs and the workload is      *)
(* within its bounds, no layer, rollbacks included, moves it further than  *)
(* maxScaleStep from the reported count.                                   *)
StepBound ==
  Decided /\ ~UsesAsymmetric(obj.spec) /\ InBounds(cyc.current)
    => Abs(cyc.validated - cyc.current) <= obj.spec.step

(* Approval: a change that needs a human is held at the reported count,    *)
(* whatever SLOs, rules, LLM and KEDA want, unless safety or the budget    *)
(* objects.                                                                *)
ApprovalHeld ==
  /\ Decided /\ cyc.cand["human"] # NoDecision
  /\ cyc.cand["safety"] = NoDecision /\ cyc.ceiling = NoTarget
  /\ InBounds(cyc.current)
  => cyc.validated = cyc.current

(* What the audit store lists for the workload.                            *)
ListedRecords == auditSeen[Workload[obj.spec.target]]

(* A listed record of a scaling, no dry run, from n to the present count.  *)
LedFrom(n) ==
  \E i \in DOMAIN ListedRecords :
    LET r == ListedRecords[i]
    IN  r.prev = n /\ r.new = cyc.current /\ ~r.dry

Between(x, a, b) == (a <= x /\ x <= b) \/ (b <= x /\ x <= a)

(* Oscillation: when the detector's events show thrashing at the time of   *)
(* the patch, safety has spoken, and nobody else moves the count: it stays *)
(* the reported one or goes towards the one safety asks for, and that      *)
(* differs from the reported one only to undo a listed scaling.  (Only the *)
(* budget may override safety.)                                            *)
ThrashingHeld ==
  /\ Decided /\ Has("oscillation") /\ IsOscillating(events, Window)
  /\ cyc.ceiling = NoTarget /\ InBounds(cyc.current)
  => LET asked == cyc.cand["safety"]
     IN  /\ asked # NoDecision
         /\ Between(cyc.validated, cyc.current, asked.target)
         /\ asked.target # cyc.current => LedFrom(asked.target)

(* SLO protection: while an objective is known to be breached, and the SLO *)
(* layer has its default rank, the workload is not scaled down by rules,   *)
(* LLM or KEDA.                                                            *)
SLOProtected ==
  /\ Decided /\ SLOBreached /\ FlagsOf(obj.spec).slo
  /\ cyc.cand["safety"] = NoDecision /\ cyc.cand["human"] = NoDecision
  /\ cyc.ceiling = NoTarget /\ InBounds(cyc.current)
  => cyc.validated >= cyc.current

(* Budget: under hard enforcement, scaling up beyond minReplicas never     *)
(* brings the projected cost over a limit, although the ceiling was        *)
(* computed from the tentative decision and not from the final one.        *)
HardBudget ==
  /\ Decided /\ obj.spec.hard /\ cyc.est # NoTarget
  /\ cyc.validated > cyc.current /\ cyc.validated > obj.spec.min
  => ~OverBudget(obj.spec, cyc.wc, cyc.current, cyc.validated)

(* Writes: what the operator writes to a Deployment is its target's count, *)
(* within the bounds it read, never in a dry run, and never outside a      *)
(* finished decision.                                                      *)
PatchesConform ==
  [][\A d \in Deployments :
       pc = "actuate" /\ pc' # pc /\ dep'[d].spec # dep[d].spec
         => /\ d = obj.spec.target /\ ~obj.spec.dryRun
            /\ obj.spec.min <= dep'[d].spec /\ dep'[d].spec <= obj.spec.max
            /\ ValidSpec(obj.spec)]_vars

(* Status writes never overwrite what a user wrote since the copy was      *)
(* made: spec and deletion mark of the stored policy survive every step of *)
(* the worker but the release of the finalizer; and the LastScaleTime that *)
(* is stored is never replaced by an earlier one.                          *)
UserWritesSurvive ==
  [][\A p \in Policies :
       /\ api'[p].spec # api[p].spec => pc' = pc /\ edits' = edits + 1
       /\ api[p].life # "live" => api'[p].life # "live"
       /\ api'[p].life = "gone" /\ api[p].life = "deleting"
            => pc = "ensureFinalizer" /\ pc' \in {"idle", "persistStatus"}
       /\ api'[p].last <= Older(api[p].last)]_vars

-----------------------------------------------------------------------------
(* The contract: a policy is what the API server holds of it, and may be   *)
(* read from there, from the informer, or from the cycle in progress.      *)

Version(o) == [spec |-> o.spec, life |-> o.life, fin |-> o.fin, last |-> o.last]

Readable(p) ==
  {Version(o) : o \in {api[p], cache[p]} \cup IF pc # "idle" /\ p = cur THEN {obj} ELSE {}}

Contract == INSTANCE ScalingContract WITH
  policy <- [p \in Policies |-> Version(api[p])],
  readable <- [p \in Policies |-> Readable(p)],
  count <- [d \in Deployments |-> dep[d].spec]

(* The loop implements the contract: whatever is stale, conflicts, is lost *)
(* or restarts, a Deployment is scaled only by a version of a policy that  *)
(* was stored, has cooled down and may still be read, and what users wrote *)
(* is neither undone nor read again after something newer.                 *)
ImplementsContract == Contract!Spec

-----------------------------------------------------------------------------
(* Liveness, under Fairness.                                               *)

(* A deleted policy is let go in the end, although its release may meet    *)
(* conflicts, failures and restarts.                                       *)
DeletionCompletes ==
  \A p \in Policies : api[p].life = "deleting" ~> api[p].life = "gone"

(* No policy is forgotten: a live one with a valid spec is evaluated again *)
(* and again, whatever cycle failed before.                                *)
NeverForgotten ==
  \A p \in Policies :
    []<>(\/ api[p].life # "live" \/ ~ValidSpec(api[p].spec)
         \/ cur = p /\ pc = "checkCooldown")

(* Convergence: when every answer asks for the same count, the Deployment  *)
(* gets there and stays, within bounds.                                    *)
Converges ==
  \A p \in Policies : \A answer \in LLMAnswers :
    <>[](dep[api[p].spec.target].spec
           = Clamp(answer.target, api[p].spec.min, api[p].spec.max))

-----------------------------------------------------------------------------
(* What the documentation says and the code does not do.                   *)

(* "checkCooldown - enforce cooldown period between scaling events", of a  *)
(* cycle that read the newest version of the policy.                       *)
CooldownBetweenScalings ==
  AboutToPatch /\ dep[obj.spec.target].spec # cyc.validated /\ cyc.wasSynced
    => since[cur] >= obj.spec.cooldown

(* "SLO breach prevents scale-down while objectives are violated", ranked  *)
(* above the reactive rules.                                               *)
SLOBreachPreventsScaleDown ==
  /\ Decided /\ obj.spec.slos /\ ~cyc.sig.sloMet /\ FlagsOf(obj.spec).slo
  /\ cyc.cand["safety"] = NoDecision /\ cyc.cand["human"] = NoDecision
  /\ cyc.ceiling = NoTarget /\ InBounds(cyc.current)
  => cyc.validated >= cyc.current

(* "Human approval hold, when approval policy blocks the proposed change"  *)
ApprovalBlocksTheChange ==
  AboutToPatch /\ cyc.cand["safety"] = NoDecision /\ InBounds(cyc.current)
    => cyc.cand["human"] = NoDecision
=============================================================================
