----------------------------- MODULE Reconciler -----------------------------
(***************************************************************************)
(* The reconcile loop of internal/controller/aiscaler_controller.go.       *)
(*                                                                         *)
(* One worker takes a policy from the work queue, reads it from the        *)
(* informer cache and runs the chain of steps on its private copy.  Around *)
(* it the world moves on: users edit and delete policies and scale         *)
(* Deployments, the Deployment controller rolls out, the informers lag,    *)
(* calls fail and time passes.  A write of a policy succeeds only when the *)
(* copy it came from is still the newest version (resourceVersion).        *)
(*                                                                         *)
(* Timestamps are ages: an age counts the ticks since the event and stops  *)
(* at MaxAge, which also stands for "never" (a nil LastScaleTime).         *)
(***************************************************************************)
EXTENDS Guardrails

LOCAL F == INSTANCE FiniteSetsExt

CONSTANTS
  Policies,        \* the AIScaler objects
  Deployments,     \* the workloads they scale
  Workload,        \* Workload[d]: the name of d without its namespace
  Specs,           \* the specs a user may give a policy
  InitSpecs,       \* the specs the policies may be created with
  InitReplicas,    \* the replica counts a Deployment may start with
  Signals,         \* what the signal plugins may report
  LLMAnswers,      \* the decisions a provider may return
  Costs,           \* the hourly costs OpenCost may report
  Subsystems,      \* the optional subsystems the operator is started with
  MaxConcurrent,   \* the coordinator's limit of live scalings (0: none)
  ClusterMaxHourly,\* the cluster's hourly budget (0: none)
  Window,          \* the oscillation detector's window, in ticks
  DetectorSize,    \* the events the oscillation detector keeps
  AuditSize,       \* the records an audit ConfigMap keeps
  Interval,        \* evaluationInterval, in ticks
  Delay,           \* the coordinator's requeue delay, in ticks
  MaxAge,          \* bound: ages and timers stop here
  UserReplicas,    \* bound: the replica counts users scale to
  Freezes,         \* bound: the durations users freeze a Deployment for
  MaxEdits,        \* bound: interventions of users
  MaxFaults        \* bound: failing calls

(* The names coordination and audit know the workloads by.                 *)
Workloads == {Workload[d] : d \in Deployments}

ScalingSubsystems == {"oscillation", "rollback", "audit", "cost", "approval",
                      "coordination"}

DirPolicies == [set : BOOLEAN, step : Nat, conf : 0..MaxConf]

Triggers == [type : {"ReplicaChangeExceeds", "CostIncreaseExceeds",
                     "ConfidenceBelow", "Always"}, threshold : Nat]

(* Admission by the CRD schema makes min, max and step positive; whether   *)
(* they fit together is left to ValidSpec.  metrics and annotations say    *)
(* whether that signal plugin is listed, and as required or not.           *)
SpecType ==
  [target : Deployments, min : Nat \ {0}, max : Nat \ {0}, step : Nat \ {0},
   minConf : 0..MaxConf, cooldown : 0..MaxAge, dryRun : BOOLEAN,
   metrics : {"required", "optional", "absent"},
   annotations : {"required", "optional", "absent"},
   up : DirPolicies, down : DirPolicies,
   rollback : SUBSET {"sloViolationWithin", "errorRateIncrease",
                      "latencyIncrease"},
   slos : BOOLEAN, keda : BOOLEAN,
   prec : [set : BOOLEAN, flags : Flags],
   requireApproval : BOOLEAN, approveWhen : SUBSET Triggers,
   hard : BOOLEAN, maxHourly : Nat, maxMonthly : Nat,
   deps : SUBSET Workloads]

Rules == [action : {"none", "scale_up", "scale_down", "set"}, amount : Int]

(* What one collection sees besides the Deployment: whether the objectives *)
(* are met, error rate and latency, KEDA's advice, and the reactive rule   *)
(* whose condition holds ("none" when no rule fires).                      *)
SignalType == [sloMet : BOOLEAN, err : Nat, lat : Nat, keda : Nat, rule : Rules]

Decisions == [target : Int, conf : 0..MaxConf]

ASSUME ReconcilerAssumption ==
  /\ Specs \subseteq SpecType /\ Specs # {}
  /\ Policies # {}
  /\ InitSpecs \subseteq [Policies -> Specs]
  /\ InitReplicas \subseteq Nat /\ UserReplicas \subseteq Nat
  /\ Signals \subseteq SignalType
  /\ LLMAnswers \subseteq Decisions
  /\ Costs \subseteq Nat
  /\ Subsystems \subseteq ScalingSubsystems
  /\ MaxConcurrent \in Nat /\ ClusterMaxHourly \in Nat
  /\ Window \in Nat /\ DetectorSize \in Nat \ {0} /\ AuditSize \in Nat \ {0}
  /\ MaxAge \in Nat /\ Interval \in 1..MaxAge /\ Delay \in 1..MaxAge
  /\ Freezes \subseteq 1..MaxAge /\ MaxEdits \in Nat /\ MaxFaults \in Nat

VARIABLES
  \* the API server and the informers
  api,       \* api[p]: the stored AIScaler object
  cache,     \* cache[p]: the informer's copy of it
  synced,    \* synced[p]: the copy is the newest version
  dep,       \* dep[d]: the Deployment
  seen,      \* seen[d]: the informer's copy of it
  \* controller-runtime
  queue,     \* the policies waiting for the worker
  timer,     \* timer[p]: ticks until p is queued again, or NoTimer
  \* the reconcile in progress
  pc,        \* the step the worker is about to run
  cur,       \* the policy it works on
  obj,       \* its copy of the object
  fresh,     \* nobody has written the object since the copy was made
  cyc,       \* the rest of reconcileState
  \* process-wide memory and the audit store
  events,    \* the oscillation detector's events
  audit,     \* audit[w]: the records of workload w, newest first
  auditSeen, \* auditSeen[w]: the informer's copy of them
  auditSynced, \* auditSynced[w]: the copy is the newest version
  active,    \* the coordinator's active operations
  \* what the environment may still do, and history kept for the properties
  edits, faults,
  since,     \* since[p]: age of the last replica change made for p
  stamped    \* stamped[p]: a LastScaleTime stored later covers that change

apiVars == <<api, cache, synced>>
auditVars == <<audit, auditSeen, auditSynced>>
memVars == <<events, auditVars, active>>
cycVars == <<pc, cur, obj, fresh, cyc>>
ctlVars == <<queue, timer>>
envVars == <<dep, seen, edits, faults>>
ghostVars == <<since, stamped>>
vars == <<apiVars, memVars, cycVars, ctlVars, envVars, ghostVars>>

-----------------------------------------------------------------------------
Ages == 0..MaxAge
Older(age) == IF age < MaxAge THEN age + 1 ELSE MaxAge
NoTimer == -1
Sooner(t) == IF t > 0 THEN t - 1 ELSE t

(* rejected: the Ready condition says InvalidSpec of the present spec.  The *)
(* rest of the status is for the eyes of users; the loop does not read it. *)
Objects ==
  [spec : Specs, life : {"live", "deleting", "gone"}, fin : BOOLEAN,
   last : Ages, rejected : BOOLEAN, cost : Nat]

Steps == {"idle", "ensureFinalizer", "checkCooldown", "collectSignals",
          "fetchDecision", "checkOscillation", "checkRollback",
          "resolveTentative", "estimateCost", "checkApproval",
          "resolveFinal", "validateDecision", "checkCoordination", "actuate",
          "recordAudit", "persistStatus"}

NoDecision == [target |-> NoTarget, conf |-> 0]

NoCandidates == [l \in Layers |-> NoDecision]

NoSignals == [sloMet |-> TRUE, err |-> 0, lat |-> 0, keda |-> 0,
              rule |-> [action |-> "none", amount |-> 0]]

(* reconcileState as Reconcile creates it.  exit says why the status is    *)
(* being written, after is the RequeueAfter of that exit; wasSynced        *)
(* remembers for the properties whether the copy was current when read.    *)
NewCycle ==
  [current |-> 0, sig |-> NoSignals, slosKnown |-> FALSE,
   cand |-> NoCandidates, dec |-> NoDecision, wc |-> NoTarget,
   est |-> NoTarget, ceiling |-> NoTarget, validated |-> NoTarget,
   held |-> FALSE, exit |-> "none",
   after |-> NoTimer, wasSynced |-> TRUE]

Blank == [spec |-> CHOOSE s \in Specs : TRUE, life |-> "gone", fin |-> FALSE,
          last |-> MaxAge, rejected |-> FALSE, cost |-> 0]

Has(subsystem) == subsystem \in Subsystems

(* The targets the layers ask for, as the resolver gets them.              *)
Wants(cand) == [l \in Layers |-> cand[l].target]

SLOBreached == cyc.slosKnown /\ ~cyc.sig.sloMet

-----------------------------------------------------------------------------
Init ==
  /\ api \in {[p \in Policies |-> [Blank EXCEPT !.spec = s[p], !.life = "live"]] :
                s \in InitSpecs}
  /\ cache = api
  /\ synced = [p \in Policies |-> TRUE]
  /\ dep \in [Deployments ->
                {[spec |-> n, status |-> n, freeze |-> 0] : n \in InitReplicas}]
  /\ seen = dep
  /\ queue = Policies
  /\ timer = [p \in Policies |-> NoTimer]
  /\ pc = "idle"
  /\ cur = CHOOSE p \in Policies : TRUE
  /\ obj = Blank
  /\ fresh = TRUE
  /\ cyc = NewCycle
  /\ events = <<>>
  /\ audit = [w \in Workloads |-> <<>>]
  /\ auditSeen = audit
  /\ auditSynced = [w \in Workloads |-> TRUE]
  /\ active = {}
  /\ edits = 0
  /\ faults = 0
  /\ since = [p \in Policies |-> MaxAge]
  /\ stamped = [p \in Policies |-> TRUE]

-----------------------------------------------------------------------------
(* How a step ends.                                                        *)

(* A fault variant: the slot is forgotten.                                 *)
ReturnHoldingSlot(delay) ==
  /\ pc' = "idle"
  /\ obj' = Blank
  /\ fresh' = TRUE
  /\ cyc' = NewCycle
  /\ timer' = IF delay = NoTimer THEN timer
              ELSE [timer EXCEPT ![cur] = IF @ = NoTimer \/ delay < @
                                          THEN delay ELSE @]
  /\ UNCHANGED <<cur, queue, memVars>>

(* releaseCoordination: a cycle that holds its workload's slot frees it.   *)
ReleaseCoordination ==
  active' = IF cyc.held THEN active \ {Workload[obj.spec.target]} ELSE active

(* Reconcile returns: releaseCoordination runs, reconcileState is dropped, *)
(* and the policy is queued again after the given delay, or not at all.    *)
(* A rate-limited retry has delay 0: its timer may fire at any time.       *)
Return(delay) ==
  /\ pc' = "idle"
  /\ obj' = Blank
  /\ fresh' = TRUE
  /\ cyc' = NewCycle
  /\ timer' = IF delay = NoTimer THEN timer
              ELSE [timer EXCEPT ![cur] = IF @ = NoTimer \/ delay < @
                                          THEN delay ELSE @]
  /\ ReleaseCoordination
  /\ UNCHANGED <<cur, queue, events, auditVars>>

Goto(step) == pc' = step /\ UNCHANGED <<cur, obj, fresh>>

(* A fault variant: a failed step is dropped, without status or retry.     *)
FailDropped == Return(NoTimer)

(* The error branch of Reconcile's loop.                                   *)
Fail ==
  /\ Goto("persistStatus")
  /\ cyc' = [cyc EXCEPT !.exit = "error"]

(* The branch for a step that returns a Result.                            *)
ShortCircuit(delay) ==
  /\ Goto("persistStatus")
  /\ cyc' = [cyc EXCEPT !.exit = "result", !.after = delay]

Proceed(step, cycle) == Goto(step) /\ cyc' = cycle

(* One of the calls the operator makes fails.                              *)
CallFails == faults < MaxFaults /\ faults' = faults + 1

(* A fault variant: the resourceVersion is ignored.                        *)
StoredBlindly(o) ==
  /\ api' = [api EXCEPT ![cur] = o]
  /\ synced' = [synced EXCEPT ![cur] = FALSE]
  /\ UNCHANGED cache

(* Writes to the API server: Stored succeeds, Refused is the conflict (or  *)
(* NotFound) of a copy that is no longer the newest version.               *)
Stored(o) ==
  /\ fresh
  /\ api' = [api EXCEPT ![cur] = o]
  /\ synced' = [synced EXCEPT ![cur] = FALSE]
  /\ UNCHANGED cache

Refused == ~fresh /\ UNCHANGED apiVars

(* A write that happens although its answer is lost: the cycle fails, and  *)
(* its copy is no longer the newest version.                               *)
FailUnanswered(o) ==
  /\ Stored(o)
  /\ pc' = "persistStatus"
  /\ fresh' = FALSE
  /\ cyc' = [cyc EXCEPT !.exit = "error"]
  /\ UNCHANGED <<cur, obj>>

OnlyCycle == UNCHANGED <<apiVars, memVars, ctlVars, envVars, ghostVars>>

-----------------------------------------------------------------------------
(* The steps of Reconcile.                                                 *)

(* The worker takes p and reads it from the cache; a policy that is gone   *)
(* needs no work.                                                          *)
Dequeue(p) ==
  /\ pc = "idle" /\ p \in queue
  /\ queue' = queue \ {p}
  /\ cur' = p
  /\ IF cache[p].life = "gone"
     THEN UNCHANGED <<pc, obj, fresh, cyc>>
     ELSE /\ pc' = "ensureFinalizer"
          /\ obj' = cache[p]
          /\ fresh' = synced[p]
          /\ cyc' = [NewCycle EXCEPT !.wasSynced = synced[p]]
  /\ UNCHANGED <<apiVars, memVars, timer, envVars, ghostVars>>

(* A fault variant: an error of the update is swallowed.                   *)
ReleaseFinalizerOnce ==
  /\ pc = "ensureFinalizer" /\ obj.life = "deleting"
  /\ \/ /\ Stored([obj EXCEPT !.life = "gone", !.fin = FALSE])
        /\ Return(NoTimer)
        /\ UNCHANGED <<envVars, ghostVars>>
     \/ /\ CallFails
        /\ Return(NoTimer)
        /\ UNCHANGED <<apiVars, dep, seen, edits, ghostVars>>

(* ensureFinalizer for a policy being deleted: let it go.                  *)
ReleaseFinalizer ==
  LET released == [obj EXCEPT !.life = "gone", !.fin = FALSE]
  IN  /\ pc = "ensureFinalizer" /\ obj.life = "deleting"
      /\ \/ /\ Stored(released)
            /\ Return(NoTimer)
            /\ UNCHANGED <<envVars, ghostVars>>
         \/ /\ Refused
            /\ Fail
            /\ UNCHANGED <<memVars, ctlVars, envVars, ghostVars>>
         \/ /\ CallFails
            /\ (Fail /\ UNCHANGED apiVars) \/ FailUnanswered(released)
            /\ UNCHANGED <<memVars, ctlVars, dep, seen, edits, ghostVars>>

(* ensureFinalizer for a spec ValidateSpec rejects: record it and wait for *)
(* an edit.  Storing the condition it already has creates no new version.  *)
RejectSpec ==
  LET rejected == [obj EXCEPT !.rejected = TRUE]
  IN  /\ pc = "ensureFinalizer" /\ obj.life = "live" /\ ~ValidSpec(obj.spec)
      /\ \/ /\ IF obj.rejected
               THEN fresh /\ UNCHANGED apiVars
               ELSE Stored(rejected)
            /\ Return(NoTimer)
            /\ UNCHANGED <<envVars, ghostVars>>
         \/ /\ Refused
            /\ Fail
            /\ UNCHANGED <<memVars, ctlVars, envVars, ghostVars>>
         \/ /\ CallFails
            /\ \/ Fail /\ UNCHANGED apiVars
               \/ ~obj.rejected /\ FailUnanswered(rejected)
            /\ UNCHANGED <<memVars, ctlVars, dep, seen, edits, ghostVars>>

(* A fault variant: a policy without finalizer is scaled all the same.     *)
AddFinalizerSkipped ==
  /\ pc = "ensureFinalizer" /\ obj.life = "live" /\ ValidSpec(obj.spec)
  /\ Proceed("checkCooldown", cyc)
  /\ OnlyCycle

(* ensureFinalizer otherwise: add the finalizer if it is missing.          *)
AddFinalizer ==
  LET kept == [obj EXCEPT !.fin = TRUE]
  IN  /\ pc = "ensureFinalizer" /\ obj.life = "live" /\ ValidSpec(obj.spec)
      /\ \/ /\ obj.fin
            /\ Proceed("checkCooldown", cyc)
            /\ OnlyCycle
         \/ /\ ~obj.fin
            /\ Stored(kept)
            /\ obj' = kept
            /\ pc' = "checkCooldown"
            /\ UNCHANGED <<cur, fresh, cyc, memVars, ctlVars, envVars, ghostVars>>
         \/ /\ ~obj.fin
            /\ Refused
            /\ Fail
            /\ UNCHANGED <<memVars, ctlVars, envVars, ghostVars>>
         \/ /\ ~obj.fin
            /\ CallFails
            /\ (Fail /\ UNCHANGED apiVars) \/ FailUnanswered(kept)
            /\ UNCHANGED <<memVars, ctlVars, dep, seen, edits, ghostVars>>

(* A fault variant: a cycle goes on in the last unit of the cooldown.      *)
CheckCooldownOffByOne ==
  /\ pc = "checkCooldown"
  /\ IF obj.last + 1 < obj.spec.cooldown
     THEN ShortCircuit(obj.spec.cooldown - obj.last)
     ELSE Proceed("collectSignals", cyc)
  /\ OnlyCycle

(* checkCooldown: too early a cycle waits for the rest of the cooldown.    *)
CheckCooldown ==
  /\ pc = "checkCooldown"
  /\ IF obj.last < obj.spec.cooldown
     THEN ShortCircuit(obj.spec.cooldown - obj.last)
     ELSE Proceed("collectSignals", cyc)
  /\ OnlyCycle

(* The signal plugins the spec lists.                                      *)
Plugins == {n \in {"metrics", "annotations"} : obj.spec[n] # "absent"}

(* The metrics plugin reports the count in the Deployment's status.        *)
ReportedReplicas(ok) ==
  IF "metrics" \in ok THEN seen[obj.spec.target].status ELSE 0

(* The annotations plugin reads a freeze, then the reactive rules; rules   *)
(* that do not parse fail it, and the freeze it read before stays.         *)
AnnotatedSignals(sig, ok) ==
  IF "annotations" \in ok THEN sig ELSE [sig EXCEPT !.rule = NoSignals.rule]

Frozen(read) == "annotations" \in read /\ seen[obj.spec.target].freeze > 0

(* collectSignals: a failing required plugin fails the cycle, a failing    *)
(* optional one leaves its part of the bundle empty, but for what those in *)
(* late had read before they failed.  A freeze read from the annotations   *)
(* ends the cycle.  (enrichContext, next in the chain, only gathers text   *)
(* for the prompt.)                                                        *)
CollectSignals ==
  /\ pc = "collectSignals"
  /\ \E sig \in Signals, failing \in SUBSET Plugins :
     \E late \in SUBSET failing :
       LET ok == Plugins \ failing
           bundle == [cyc EXCEPT !.current = ReportedReplicas(ok),
                                 !.sig = AnnotatedSignals(sig, ok)]
       IN  /\ failing # {} => faults < MaxFaults
           /\ faults' = IF failing = {} THEN faults ELSE faults + 1
           /\ IF \E n \in failing : obj.spec[n] = "required"
              THEN Fail
              ELSE IF Frozen(ok \cup late)
              THEN /\ Goto("persistStatus")
                   /\ cyc' = [bundle EXCEPT !.exit = "result",
                                            !.after = seen[obj.spec.target].freeze]
              ELSE Proceed("fetchDecision", bundle)
  /\ UNCHANGED <<apiVars, memVars, ctlVars, dep, seen, edits, ghostVars>>

Hold(conf) == [target |-> cyc.current, conf |-> conf]

Sure(target) == [target |-> target, conf |-> MaxConf]

(* The candidates before the LLM is asked: KEDA's advice, and the reactive *)
(* rule that fired.                                                        *)
AdvisedCandidates ==
  [cyc.cand EXCEPT
    !["deterministic"] = IF obj.spec.keda /\ cyc.sig.keda > 0
                         THEN Sure(cyc.sig.keda) ELSE @,
    !["reactive"] = IF cyc.sig.rule.action # "none"
                    THEN Sure(ReactiveReplicas(cyc.sig.rule, cyc.current))
                    ELSE @]

(* What the LLM's answer adds: an answer below minConfidence becomes a     *)
(* hold, unless a rule or KEDA already wants something.                    *)
WithAnswer(cand, answer) ==
  IF answer.conf >= obj.spec.minConf
  THEN [cand EXCEPT !["llm"] = answer]
  ELSE IF cand["reactive"] = NoDecision /\ cand["deterministic"] = NoDecision
  THEN [cand EXCEPT !["llm"] = Hold(answer.conf)]
  ELSE cand

(* fetchDecision: a rule that outranks the LLM returns at once, before the *)
(* objectives are looked at; a failing LLM ends the cycle only when nobody *)
(* else has an opinion.                                                    *)
FetchDecision ==
  LET cand == AdvisedCandidates
      rules == [cyc EXCEPT !.cand = cand]
      judged == [rules EXCEPT !.slosKnown = obj.spec.slos]
      skipLLM == /\ cand["reactive"] # NoDecision
                 /\ SkipLLMForReactiveRules(obj.spec)
  IN  /\ pc = "fetchDecision"
      /\ \/ /\ skipLLM
            /\ Proceed("checkOscillation", rules)
            /\ OnlyCycle
         \/ /\ ~skipLLM
            /\ \E answer \in LLMAnswers :
                 Proceed("checkOscillation",
                         [judged EXCEPT !.cand = WithAnswer(cand, answer)])
            /\ OnlyCycle
         \/ /\ ~skipLLM
            /\ CallFails
            /\ IF cand["reactive"] = NoDecision
                  /\ cand["deterministic"] = NoDecision
               THEN /\ Goto("persistStatus")
                    /\ cyc' = [judged EXCEPT !.exit = "error"]
               ELSE Proceed("checkOscillation", judged)
            /\ UNCHANGED <<apiVars, memVars, ctlVars, dep, seen, edits,
                           ghostVars>>

(* A fault variant: the hold is advice, the weakest layer.                 *)
CheckOscillationAdvice ==
  /\ pc = "checkOscillation"
  /\ Proceed("checkRollback",
             IF Has("oscillation") /\ IsOscillating(events, Window)
             THEN [cyc EXCEPT !.cand["deterministic"] = Hold(MaxConf)] ELSE cyc)
  /\ OnlyCycle

(* checkOscillation: after rapid changes safety asks for the present count.*)
CheckOscillation ==
  /\ pc = "checkOscillation"
  /\ Proceed("checkRollback",
             IF Has("oscillation") /\ IsOscillating(events, Window)
             THEN [cyc EXCEPT !.cand["safety"] = Hold(MaxConf)] ELSE cyc)
  /\ OnlyCycle

ListLimit == 5      \* the records checkRollback asks the audit store for

(* ConfigMapStore.List: the newest records in the informer's copy.         *)
List(w) ==
  LET a == auditSeen[w]
  IN  SubSeq(a, 1, IF Len(a) < ListLimit THEN Len(a) ELSE ListLimit)

(* checkRollback: if, in the informer's copy, the newest record that led   *)
(* to the present count looks better than the present signals, safety asks *)
(* for the count before it.                                                *)
CheckRollback ==
  LET records == List(Workload[obj.spec.target])
      found == RollbackCandidates(records, cyc.current)
      record == records[CHOOSE i \in found : \A j \in found : i <= j]
      wanted == Has("rollback") /\ Has("audit") /\ obj.spec.rollback # {}
  IN  /\ pc = "checkRollback"
      /\ \/ /\ Proceed("resolveTentative",
                 IF /\ wanted /\ found # {}
                    /\ RollbackRecommended(obj.spec.rollback, record.sig,
                         cyc.sig, obj.spec.slos => record.sig.sloMet,
                         obj.spec.slos => cyc.sig.sloMet)
                 THEN [cyc EXCEPT !.cand["safety"] = Sure(record.prev)]
                 ELSE cyc)
            /\ OnlyCycle
         \/ /\ wanted
            /\ CallFails
            /\ Proceed("resolveTentative", cyc)
            /\ UNCHANGED <<apiVars, memVars, ctlVars, dep, seen, edits,
                           ghostVars>>

-----------------------------------------------------------------------------
(* Resolution.                                                             *)

Raise(target, decision) ==
  IF decision.target # NoTarget THEN Larger(target, decision.target) ELSE target

(* buildSLODecision: a breach keeps the highest of the present count and   *)
(* what rules, LLM and KEDA want.                                          *)
SLODecision ==
  IF SLOBreached
  THEN Sure(Raise(Raise(Raise(cyc.current, cyc.cand["reactive"]),
                        cyc.cand["llm"]), cyc.cand["deterministic"]))
  ELSE NoDecision

(* buildPrecedenceInputs: the layers resolution sees.                      *)
Inputs(includeHuman) ==
  [cyc.cand EXCEPT !["slo"] = SLODecision,
                   !["human"] = IF includeHuman THEN @ ELSE NoDecision]

(* resolveDecisionState with materializeResolvedDecision: the decision     *)
(* takes the resolved count and the confidence of the winning layer.       *)
Resolved(includeHuman, includeCost) ==
  LET inputs == Inputs(includeHuman)
      wants == Wants(inputs)
      flags == FlagsOf(obj.spec)
  IN  IF Present(wants) = {} /\ cyc.cand["human"] = NoDecision
      THEN Hold(MaxConf)
      ELSE [target |-> Resolve(wants,
                               IF includeCost THEN cyc.ceiling ELSE NoTarget,
                               obj.spec.min, obj.spec.max, flags),
            conf |-> IF Present(wants) = {} THEN MaxConf
                     ELSE inputs[Winner(wants, flags)].conf]

ResolveTentative ==
  /\ pc = "resolveTentative"
  /\ Proceed("estimateCost", [cyc EXCEPT !.dec = Resolved(FALSE, FALSE)])
  /\ OnlyCycle

(* estimateCost: without an answer from OpenCost, or with no replica to    *)
(* divide by, the cycle goes on without estimate and without ceiling.      *)
EstimateCost ==
  /\ pc = "estimateCost"
  /\ \/ /\ ~Has("cost")
        /\ Proceed("checkApproval", cyc)
        /\ OnlyCycle
     \/ /\ Has("cost")
        /\ \E c \in Costs :
             LET over == /\ obj.spec.hard
                         /\ OverBudget(obj.spec, c, cyc.current, cyc.dec.target)
                 cap == CostCeiling(obj.spec, c, cyc.current)
             IN  Proceed("checkApproval",
                   IF cyc.current <= 0 THEN [cyc EXCEPT !.wc = c]
                   ELSE [cyc EXCEPT
                          !.wc = c,
                          !.est = cyc.dec.target,
                          !.ceiling = IF ~over THEN NoTarget
                                      ELSE IF cap = NoTarget THEN cyc.current
                                      ELSE cap])
        /\ OnlyCycle
     \/ /\ Has("cost")
        /\ CallFails
        /\ Proceed("checkApproval", cyc)
        /\ UNCHANGED <<apiVars, memVars, ctlVars, dep, seen, edits, ghostVars>>

(* DeltaHourlyCost, times the present count.                               *)
CostDelta ==
  IF cyc.est = NoTarget THEN 0 ELSE cyc.wc * (cyc.est - cyc.current)

(* checkApproval: nobody can grant an approval; while one is needed the    *)
(* human layer asks for the present count.                                 *)
CheckApproval ==
  /\ pc = "checkApproval"
  /\ Proceed("resolveFinal",
             IF Has("approval")
                /\ NeedsApproval(obj.spec, cyc.dec, cyc.current, CostDelta)
             THEN [cyc EXCEPT !.cand["human"] = Hold(cyc.dec.conf)] ELSE cyc)
  /\ OnlyCycle

(* resolveFinalDecision estimates again, and this time an estimate that    *)
(* cannot be made fails the cycle.                                         *)
ResolveFinal ==
  LET dec == Resolved(TRUE, TRUE)
  IN  /\ pc = "resolveFinal"
      /\ IF cyc.wc # NoTarget /\ cyc.current <= 0
         THEN /\ Goto("persistStatus")
              /\ cyc' = [cyc EXCEPT !.dec = dec, !.exit = "error"]
         ELSE Proceed("validateDecision",
                      [cyc EXCEPT !.dec = dec,
                                  !.est = IF cyc.wc = NoTarget THEN @
                                          ELSE dec.target])
      /\ OnlyCycle

ValidateDecision ==
  /\ pc = "validateDecision"
  /\ Proceed("checkCoordination",
             [cyc EXCEPT !.validated =
                ValidatedReplicas(cyc.dec, cyc.current, obj.spec)])
  /\ OnlyCycle


-----------------------------------------------------------------------------
(* Coordination and actuation.                                             *)

(* BuildFromPolicies: of several policies listed for one workload the      *)
(* graph keeps the last, and the informer lists in any order.              *)
ListedDependencies ==
  LET same == {q \in Policies : /\ cache[q].life # "gone"
                                /\ Workload[cache[q].spec.target]
                                     = Workload[obj.spec.target]}
  IN  IF same = {} THEN {{}} ELSE {cache[q].spec.deps : q \in same}

(* ShouldDefer, against ActiveWorkloads without the policy's own.          *)
DependencyScaling(deps) ==
  deps \cap (active \ {Workload[obj.spec.target]}) # {}

(* exceedsClusterBudget: the last recorded cost of the other workloads,    *)
(* and this one's present cost and increase, in units of 1/current.        *)
ExceedsClusterBudget ==
  LET others == {q \in Policies :
                   /\ cache[q].life # "gone"
                   /\ Workload[cache[q].spec.target]
                        # Workload[obj.spec.target]}
      total == F!MapThenSumSet(LAMBDA q : cache[q].cost, others) + cyc.wc
  IN  /\ ClusterMaxHourly > 0 /\ cyc.est # NoTarget /\ CostDelta > 0
      /\ total * cyc.current + CostDelta > ClusterMaxHourly * cyc.current

NoFreeSlot ==
  /\ Workload[obj.spec.target] \notin active
  /\ MaxConcurrent > 0 /\ Cardinality(active) >= MaxConcurrent

NeedsLiveCoordination ==
  Has("coordination") /\ ~obj.spec.dryRun /\ cyc.validated # cyc.current

(* checkCoordination: a live change waits for dependencies, budget and a   *)
(* slot; the slot is given back when Reconcile returns.                    *)
CheckCoordination ==
  /\ pc = "checkCoordination"
  /\ \E deps \in ListedDependencies :
       IF ~NeedsLiveCoordination
       THEN Proceed("actuate", cyc) /\ UNCHANGED active
       ELSE IF DependencyScaling(deps) \/ ExceedsClusterBudget \/ NoFreeSlot
       THEN ShortCircuit(Delay) /\ UNCHANGED active
       ELSE /\ Proceed("actuate", [cyc EXCEPT !.held = TRUE])
            /\ active' = active \cup {Workload[obj.spec.target]}
  /\ UNCHANGED <<apiVars, events, auditVars, ctlVars, envVars, ghostVars>>

(* The Deployment takes the validated count; a change starts the policy's  *)
(* cooldown anew.                                                          *)
Patched ==
  LET d == obj.spec.target
      changes == dep[d].spec # cyc.validated
  IN  /\ dep' = [dep EXCEPT ![d].spec = cyc.validated]
      /\ since' = IF changes THEN [since EXCEPT ![cur] = 0] ELSE since
      /\ stamped' = IF changes THEN [stamped EXCEPT ![cur] = FALSE]
                               ELSE stamped

Scales == cyc.validated # seen[obj.spec.target].spec

Direction ==
  IF cyc.validated > seen[obj.spec.target].spec THEN "up" ELSE "down"

(* actuate with Actuator.Apply: patch the Deployment unless the informer's *)
(* copy has the count already; a dry run patches nothing, yet both are     *)
(* scaling events to the oscillation detector.  When the answer to the     *)
(* patch is lost the cycle fails although the count may have changed.      *)
Actuate ==
  /\ pc = "actuate"
  /\ \/ /\ Goto("recordAudit")
        /\ IF Scales /\ ~obj.spec.dryRun
           THEN Patched
           ELSE UNCHANGED <<dep, ghostVars>>
        /\ events' = IF Scales /\ Has("oscillation")
                     THEN RecordEvent(events, [dir |-> Direction, age |-> 0],
                                      DetectorSize)
                     ELSE events
        /\ UNCHANGED <<cyc, faults>>
     \/ /\ CallFails
        /\ Fail
        /\ \/ Scales /\ ~obj.spec.dryRun /\ Patched
           \/ UNCHANGED <<dep, ghostVars>>
        /\ UNCHANGED events
  /\ UNCHANGED <<apiVars, auditVars, active, ctlVars, seen, edits>>

(* A fault variant: the newest record makes room, not the oldest.          *)
UnprunedOldest(w) ==
  SubSeq(audit[w], IF Len(audit[w]) < AuditSize THEN 1 ELSE 2, Len(audit[w]))

(* pruneOldest: the newest records, with room for one more.                *)
Unpruned(w) ==
  SubSeq(audit[w], 1, IF Len(audit[w]) < AuditSize
                      THEN Len(audit[w]) ELSE AuditSize - 1)

(* ConfigMapStore.Store: an update that starts from an old copy of the     *)
(* ConfigMap conflicts, and the record is lost.                            *)
Store(w, record) ==
  IF Has("audit") /\ auditSynced[w]
  THEN /\ audit' = [audit EXCEPT ![w] = <<record>> \o Unpruned(w)]
       /\ auditSynced' = [auditSynced EXCEPT ![w] = FALSE]
  ELSE UNCHANGED <<audit, auditSynced>>

(* A fault variant: the record tells the scaling the wrong way round.      *)
RecordAuditSwapped ==
  LET w == Workload[obj.spec.target]
      record == [prev |-> cyc.validated, new |-> cyc.current,
                 dry |-> obj.spec.dryRun, sig |-> cyc.sig]
  IN  /\ pc = "recordAudit"
      /\ Proceed("persistStatus", [cyc EXCEPT !.exit = "ready"])
      /\ \/ Store(w, record) /\ UNCHANGED faults
         \/ /\ Has("audit")
            /\ CallFails
            /\ UNCHANGED <<audit, auditSynced>>
      /\ UNCHANGED <<apiVars, events, auditSeen, active, ctlVars, dep, seen,
                     edits, ghostVars>>

(* recordAudit: a store that fails is only logged.  (evaluateAlerts,       *)
(* before it, only notifies.)                                              *)
RecordAudit ==
  LET w == Workload[obj.spec.target]
      record == [prev |-> cyc.current, new |-> cyc.validated,
                 dry |-> obj.spec.dryRun, sig |-> cyc.sig]
  IN  /\ pc = "recordAudit"
      /\ Proceed("persistStatus", [cyc EXCEPT !.exit = "ready"])
      /\ \/ Store(w, record) /\ UNCHANGED faults
         \/ /\ Has("audit")
            /\ CallFails
            /\ UNCHANGED <<audit, auditSynced>>
      /\ UNCHANGED <<apiVars, events, auditSeen, active, ctlVars, dep, seen,
                     edits, ghostVars>>

(* The change persistStatus takes for a scaling: the validated count is    *)
(* not the reported one.  Whether actuate ran is not asked.                *)
CountsAsScaling ==
  /\ cyc.validated # NoTarget /\ cyc.validated # cyc.current
  /\ ~obj.spec.dryRun

(* A fault variant: the time of the scaling is not recorded.               *)
StatusUpdateNoStamp ==
  [obj EXCEPT !.rejected = @ /\ cyc.exit = "result",
              !.cost = IF cyc.est = NoTarget THEN @ ELSE cyc.wc]

(* The object persistStatus sends.                                         *)
StatusUpdate ==
  [obj EXCEPT !.last = IF CountsAsScaling THEN 0 ELSE @,
              !.rejected = @ /\ cyc.exit = "result",
              !.cost = IF cyc.est = NoTarget THEN @ ELSE cyc.wc]

StatusStored ==
  /\ Stored(StatusUpdate)
  /\ stamped' = IF CountsAsScaling THEN [stamped EXCEPT ![cur] = TRUE]
                                   ELSE stamped

(* persistStatus and the return of Reconcile.  A conflict requeues; a      *)
(* failure at the end of a complete cycle is handled as a failed step,     *)
(* which persists the status once more.                                    *)
PersistStatus ==
  /\ pc = "persistStatus"
  /\ \/ /\ StatusStored
        /\ Return(CASE cyc.exit = "ready" -> Interval
                    [] cyc.exit = "result" -> cyc.after
                    [] OTHER -> 0)
        /\ UNCHANGED faults
     \/ /\ Refused
        /\ Return(IF cyc.exit = "result" /\ api[cur].life # "gone"
                  THEN cyc.after ELSE 0)
        /\ UNCHANGED <<faults, stamped>>
     \/ /\ CallFails
        /\ cyc.exit = "ready"
        /\ pc' = "persistStatus"
        /\ cyc' = [cyc EXCEPT !.exit = "error"]
        /\ \/ StatusStored /\ fresh' = FALSE
           \/ UNCHANGED <<apiVars, stamped, fresh>>
        /\ UNCHANGED <<cur, obj, ctlVars, memVars>>
     \/ /\ CallFails
        /\ cyc.exit # "ready"
        /\ StatusStored \/ UNCHANGED <<apiVars, stamped>>
        /\ Return(0)
  /\ UNCHANGED <<dep, seen, edits, since>>

Worker ==
  \/ ReleaseFinalizer \/ RejectSpec \/ AddFinalizer \/ CheckCooldown
  \/ CollectSignals \/ FetchDecision \/ CheckOscillation \/ CheckRollback
  \/ ResolveTentative \/ EstimateCost \/ CheckApproval \/ ResolveFinal
  \/ ValidateDecision \/ CheckCoordination \/ Actuate \/ RecordAudit
  \/ PersistStatus

-----------------------------------------------------------------------------
(* The environment.                                                        *)

(* A watch event brings the newest version and queues the policy.          *)
SyncPolicy(p) ==
  /\ ~synced[p]
  /\ cache' = [cache EXCEPT ![p] = api[p]]
  /\ synced' = [synced EXCEPT ![p] = TRUE]
  /\ queue' = queue \cup {p}
  /\ UNCHANGED <<api, memVars, cycVars, timer, envVars, ghostVars>>

(* No policy owns a Deployment: its events only refresh the informer.      *)
SyncDeployment(d) ==
  /\ seen[d] # dep[d]
  /\ seen' = [seen EXCEPT ![d] = dep[d]]
  /\ UNCHANGED <<apiVars, memVars, cycVars, ctlVars, dep, edits, faults,
                 ghostVars>>

(* The informer of ConfigMaps catches up.                                  *)
SyncAudit(w) ==
  /\ ~auditSynced[w]
  /\ auditSeen' = [auditSeen EXCEPT ![w] = audit[w]]
  /\ auditSynced' = [auditSynced EXCEPT ![w] = TRUE]
  /\ UNCHANGED <<apiVars, events, audit, active, cycVars, ctlVars, envVars,
                 ghostVars>>

(* The Deployment controller starts or stops a pod.                        *)
Rollout(d) ==
  /\ dep[d].status # dep[d].spec
  /\ dep' = [dep EXCEPT ![d].status =
               IF dep[d].spec > @ THEN @ + 1 ELSE @ - 1]
  /\ UNCHANGED <<apiVars, memVars, cycVars, ctlVars, seen, edits, faults,
                 ghostVars>>

TimerFires(p) ==
  /\ timer[p] = 0
  /\ timer' = [timer EXCEPT ![p] = NoTimer]
  /\ queue' = queue \cup {p}
  /\ UNCHANGED <<apiVars, memVars, cycVars, envVars, ghostVars>>

Aged(o) == [o EXCEPT !.last = Older(@)]

Thawed(w) == [w EXCEPT !.freeze = Sooner(@)]

(* Time passes.                                                            *)
Tick ==
  /\ api' = [p \in Policies |-> Aged(api[p])]
  /\ cache' = [p \in Policies |-> Aged(cache[p])]
  /\ obj' = Aged(obj)
  /\ since' = [p \in Policies |-> Older(since[p])]
  /\ timer' = [p \in Policies |-> Sooner(timer[p])]
  /\ dep' = [d \in Deployments |-> Thawed(dep[d])]
  /\ seen' = [d \in Deployments |-> Thawed(seen[d])]
  /\ events' = [i \in DOMAIN events |-> [events[i] EXCEPT !.age = Older(@)]]
  /\ UNCHANGED <<synced, queue, pc, cur, fresh, cyc, auditVars, active,
                 edits, faults, stamped>>

(* Somebody other than the reconcile in progress writes the policy.        *)
WrittenByUser(p, o) ==
  /\ edits < MaxEdits /\ edits' = edits + 1
  /\ api' = [api EXCEPT ![p] = o]
  /\ synced' = [synced EXCEPT ![p] = FALSE]
  /\ fresh' = (fresh /\ (pc = "idle" \/ p # cur))
  /\ UNCHANGED <<cache, memVars, ctlVars, pc, cur, obj, cyc, dep, seen,
                 faults, ghostVars>>

EditSpec(p) ==
  /\ api[p].life = "live"
  /\ \E s \in Specs \ {api[p].spec} :
       WrittenByUser(p, [api[p] EXCEPT !.spec = s, !.rejected = FALSE])

(* A deleted object with a finalizer stays until it is released.           *)
DeletePolicy(p) ==
  /\ api[p].life = "live"
  /\ WrittenByUser(p, [api[p] EXCEPT !.life = IF api[p].fin THEN "deleting"
                                                            ELSE "gone"])

DeploymentWritten(d, w) ==
  /\ edits < MaxEdits /\ edits' = edits + 1
  /\ dep' = [dep EXCEPT ![d] = w]
  /\ UNCHANGED <<apiVars, memVars, cycVars, ctlVars, seen, faults, ghostVars>>

(* Somebody else, a user or an HPA, scales the Deployment.                 *)
ScaleExternally(d) ==
  \E n \in UserReplicas \ {dep[d].spec} :
    DeploymentWritten(d, [dep[d] EXCEPT !.spec = n])

(* A user sets the freeze-until annotation.                                *)
Freeze(d) ==
  \E n \in Freezes :
    n > dep[d].freeze /\ DeploymentWritten(d, [dep[d] EXCEPT !.freeze = n])

(* The operator dies and comes back: what it remembered is lost, the       *)
(* informers list the objects anew and queue each policy.                  *)
Restart ==
  /\ CallFails
  /\ cache' = api
  /\ synced' = [p \in Policies |-> TRUE]
  /\ seen' = dep
  /\ queue' = {p \in Policies : api[p].life # "gone"}
  /\ timer' = [p \in Policies |-> NoTimer]
  /\ pc' = "idle"
  /\ obj' = Blank
  /\ fresh' = TRUE
  /\ cyc' = NewCycle
  /\ events' = <<>>
  /\ active' = {}
  /\ auditSeen' = audit
  /\ auditSynced' = [w \in Workloads |-> TRUE]
  /\ UNCHANGED <<api, cur, audit, dep, edits, ghostVars>>

Environment ==
  \/ \E p \in Policies : SyncPolicy(p) \/ TimerFires(p)
  \/ \E d \in Deployments : SyncDeployment(d) \/ Rollout(d)
  \/ \E w \in Workloads : SyncAudit(w)
  \/ Tick

User ==
  \/ \E p \in Policies : EditSpec(p) \/ DeletePolicy(p)
  \/ \E d \in Deployments : ScaleExternally(d) \/ Freeze(d)

Next ==
  \/ \E p \in Policies : Dequeue(p)
  \/ Worker
  \/ Environment
  \/ User
  \/ Restart

Spec == Init /\ [][Next]_vars

(* The process runs, the queue serves every policy in turn, informers and  *)
(* the Deployment controller deliver, timers fire and time passes.         *)
Fairness ==
  /\ WF_vars(Worker)
  /\ \A p \in Policies : /\ SF_vars(Dequeue(p))
                         /\ WF_vars(SyncPolicy(p))
                         /\ WF_vars(TimerFires(p))
  /\ \A d \in Deployments : WF_vars(SyncDeployment(d)) /\ WF_vars(Rollout(d))
  /\ \A w \in Workloads : WF_vars(SyncAudit(w))
  /\ WF_vars(Tick)

FairSpec == Spec /\ Fairness
=============================================================================
