--------------------------- MODULE ReconcilerProofs ---------------------------
(***************************************************************************)
(* What holds of the reconcile loop for every set of policies, Deployments *)
(* and specs, and for any number of edits and failures.                    *)
(***************************************************************************)
EXTENDS ReconcilerProperties, GuardrailProofs, SequenceTheorems

(* What the types do not say: a decision and a validated count exist once  *)
(* the steps that make them have run, and an estimate comes with a cost.   *)
Progress ==
  /\ pc \in {"estimateCost", "checkApproval", "resolveFinal",
             "validateDecision"} => cyc.dec.target \in Int
  /\ pc \in {"checkCoordination", "actuate", "recordAudit"}
       => cyc.validated \in Nat
  /\ cyc.est # NoTarget => cyc.wc # NoTarget

TypeInv == TypeOK /\ Progress

-----------------------------------------------------------------------------
(* Types of the values the steps compute.                                  *)

LEMMA NewCycleType == NewCycle \in Cycles
BY DEF NewCycle, Cycles, NoSignals, SignalType, Rules, NoCandidates,
       CandidateType, NoDecision, Optional, NoTimer

LEMMA BlankType == Blank \in Objects
BY ReconcilerAssumption DEF Blank, Objects, Ages

LEMMA SpecFields ==
  ASSUME NEW s \in Specs
  PROVE  /\ s \in SpecType /\ s.target \in Deployments
         /\ s.cooldown \in 0..MaxAge /\ Bounded(s)
BY ReconcilerAssumption DEF SpecType, Bounded, DirPolicies

LEMMA LimitsAreNat == /\ MaxAge \in Nat /\ MaxEdits \in Nat /\ MaxFaults \in Nat
                      /\ DetectorSize \in Nat \ {0} /\ AuditSize \in Nat \ {0}
BY ReconcilerAssumption

LEMMA AgesType == /\ 0 \in Ages /\ Interval \in Ages /\ Delay \in Ages
                  /\ \A a \in Ages : Older(a) \in Ages /\ Sooner(a) \in Ages
                  /\ Sooner(NoTimer) = NoTimer
BY ReconcilerAssumption DEF Ages, Older, Sooner, NoTimer

LEMMA CycleExits ==
  ASSUME NEW c \in Cycles, NEW a \in Ages \cup {NoTimer}
  PROVE  /\ [c EXCEPT !.exit = "error"] \in Cycles
         /\ [c EXCEPT !.exit = "ready"] \in Cycles
         /\ [c EXCEPT !.exit = "result", !.after = a] \in Cycles
BY DEF Cycles

LEMMA CandidateTypes ==
  /\ NoDecision \in CandidateType
  /\ \A d \in Decisions : d \in CandidateType
  /\ \A d \in CandidateType : d.target \in Optional(Int) /\ d.conf \in 0..MaxConf
BY DEF CandidateType, Decisions, NoDecision, Optional, MaxConf

LEMMA HoldTypes ==
  ASSUME cyc \in Cycles
  PROVE  /\ \A c \in 0..MaxConf : Hold(c) \in Decisions
         /\ \A t \in Int : Sure(t) \in Decisions
         /\ MaxConf \in 0..MaxConf
BY DEF Cycles, Hold, Sure, Decisions, MaxConf

LEMMA StatusUpdateType ==
  ASSUME obj \in Objects, cyc \in Cycles,
         cyc.est # NoTarget => cyc.wc # NoTarget
  PROVE  StatusUpdate \in Objects
<1>1. /\ obj.spec \in Specs /\ obj.life \in {"live", "deleting", "gone"}
      /\ obj.fin \in BOOLEAN /\ obj.last \in Ages /\ obj.rejected \in BOOLEAN
      /\ obj.cost \in Nat
  BY DEF Objects
<1> DEFINE last == IF CountsAsScaling THEN 0 ELSE obj.last
           rejected == obj.rejected /\ cyc.exit = "result"
           cost == IF cyc.est = NoTarget THEN obj.cost ELSE cyc.wc
<1>2. last \in Ages
  BY <1>1, AgesType
<1>3. rejected \in BOOLEAN
  OBVIOUS
<1>4. cost \in Nat
  BY <1>1 DEF Cycles, Optional
<1>5. StatusUpdate
        = [obj EXCEPT !.last = last, !.rejected = rejected, !.cost = cost]
  BY DEF StatusUpdate
<1> HIDE DEF last, rejected, cost
<1> QED BY <1>2, <1>3, <1>4, <1>5 DEF Objects

LEMMA AdvisedType ==
  ASSUME cyc \in Cycles
  PROVE  AdvisedCandidates \in [Layers -> CandidateType]
<1>1. cyc.sig.keda \in Nat /\ cyc.sig.rule.amount \in Int /\ cyc.current \in Nat
  BY DEF Cycles, SignalType, Rules
<1>2. /\ Sure(cyc.sig.keda) \in CandidateType
      /\ Sure(ReactiveReplicas(cyc.sig.rule, cyc.current)) \in CandidateType
  BY <1>1, HoldTypes, ReactiveReplicasIsInt, CandidateTypes
<1>3. cyc.cand \in [Layers -> CandidateType]
  BY DEF Cycles
<1> QED BY <1>2, <1>3 DEF AdvisedCandidates

LEMMA AnswerType ==
  ASSUME cyc \in Cycles, NEW cand \in [Layers -> CandidateType],
         NEW answer \in LLMAnswers
  PROVE  WithAnswer(cand, answer) \in [Layers -> CandidateType]
<1>1. answer \in CandidateType /\ answer.conf \in 0..MaxConf
  BY ReconcilerAssumption, CandidateTypes DEF Decisions
<1>2. Hold(answer.conf) \in CandidateType
  BY <1>1, HoldTypes, CandidateTypes
<1> QED BY <1>1, <1>2 DEF WithAnswer

LEMMA SLODecisionType ==
  ASSUME cyc \in Cycles
  PROVE  SLODecision \in CandidateType
<1>1. \A t \in Int, d \in CandidateType : Raise(t, d) \in Int
  BY CandidateTypes DEF Raise, Larger, Optional
<1>2. /\ cyc.current \in Int
      /\ cyc.cand["reactive"] \in CandidateType
      /\ cyc.cand["llm"] \in CandidateType
      /\ cyc.cand["deterministic"] \in CandidateType
  BY DEF Cycles, Layers
<1> QED BY <1>1, <1>2, HoldTypes, CandidateTypes DEF SLODecision

LEMMA ResolvedType ==
  ASSUME cyc \in Cycles, obj \in Objects,
         NEW human \in BOOLEAN, NEW cost \in BOOLEAN
  PROVE  Resolved(human, cost) \in Decisions
<1> DEFINE inputs == Inputs(human)
           wants == Wants(inputs)
           flags == FlagsOf(obj.spec)
           ceiling == IF cost THEN cyc.ceiling ELSE NoTarget
           target == Resolve(wants, ceiling, obj.spec.min, obj.spec.max, flags)
           conf == IF Present(wants) = {} THEN MaxConf
                   ELSE inputs[Winner(wants, flags)].conf
<1>1. inputs \in [Layers -> CandidateType]
  BY SLODecisionType, CandidateTypes DEF Inputs, Cycles
<1>2. wants \in [Layers -> Optional(Int)]
  BY <1>1, CandidateTypes DEF Wants
<1>3. obj.spec \in Specs
  BY DEF Objects
<1>4. flags \in Flags
  BY <1>3, SpecFields DEF FlagsOf, SpecType, Flags, DefaultFlags
<1>5. ceiling \in Optional(Int)
  BY DEF Cycles, Optional
<1>6. obj.spec.min \in Int /\ obj.spec.max \in Int
  BY <1>3, SpecFields DEF Bounded
<1> HIDE DEF inputs, wants, flags, ceiling
<1>7. target \in Int
  BY <1>2, <1>4, <1>5, <1>6, ResolveIsInt
<1>8. conf \in 0..MaxConf
  <2>1. CASE Present(wants) = {}
    BY <2>1 DEF MaxConf
  <2>2. CASE Present(wants) # {}
    <3>1. Winner(wants, flags) \in Layers
      BY <2>2, <1>4, WinnerSpeaks DEF Present
    <3> QED BY <2>2, <3>1, <1>1, CandidateTypes
  <2> QED BY <2>1, <2>2
<1>9. Resolved(human, cost)
        = IF Present(wants) = {} /\ cyc.cand["human"] = NoDecision
          THEN Hold(MaxConf) ELSE [target |-> target, conf |-> conf]
  BY DEF Resolved, inputs, wants, flags, ceiling
<1> HIDE DEF target, conf
<1> QED BY <1>7, <1>8, <1>9, HoldTypes DEF Decisions

-----------------------------------------------------------------------------
(* Every step keeps the types.                                             *)

(* The steps that only work on reconcileState.                             *)
LEMMA CycleStepTypes ==
  ASSUME TypeInv, UNCHANGED <<apiVars, memVars, ctlVars, ghostVars>>,
         UNCHANGED <<dep, seen, edits>>, UNCHANGED <<cur, obj, fresh>>,
         faults' \in 0..MaxFaults, pc' \in Steps, cyc' \in Cycles, Progress'
  PROVE  TypeInv'
BY DEF TypeInv, TypeOK, StoreTypes, WorldTypes, CycleTypes, MemoryTypes,
       GhostTypes, apiVars, memVars, auditVars, ctlVars, ghostVars

LEMMA FailingType == WorldTypes /\ CallFails => faults' \in 0..MaxFaults
BY ReconcilerAssumption DEF WorldTypes, CallFails

LEMMA InitTypes == Init => TypeInv
<1> SUFFICES ASSUME Init PROVE TypeInv
  OBVIOUS
<1>1. StoreTypes
  <2>1. PICK s \in InitSpecs :
          api = [p \in Policies |-> [Blank EXCEPT !.spec = s[p], !.life = "live"]]
    BY DEF Init
  <2>2. s \in [Policies -> Specs]
    BY <2>1, ReconcilerAssumption
  <2>3. \A p \in Policies :
          [Blank EXCEPT !.spec = s[p], !.life = "live"] \in Objects
    BY <2>2, BlankType DEF Objects
  <2> QED BY <2>1, <2>3 DEF Init, StoreTypes
<1>2. WorldTypes
  <2>1. \A n \in InitReplicas :
          [spec |-> n, status |-> n, freeze |-> 0] \in WorkloadStates
    BY ReconcilerAssumption, AgesType DEF WorkloadStates
  <2>2. dep \in [Deployments -> WorkloadStates]
    <3>1. dep \in [Deployments ->
                     {[spec |-> n, status |-> n, freeze |-> 0] : n \in InitReplicas}]
      BY DEF Init
    <3>2. {[spec |-> n, status |-> n, freeze |-> 0] : n \in InitReplicas}
            \subseteq WorkloadStates
      BY <2>1
    <3> QED BY <3>1, <3>2
  <2>3. /\ seen = dep /\ queue = Policies /\ edits = 0 /\ faults = 0
        /\ timer = [p \in Policies |-> NoTimer]
    BY DEF Init
  <2> QED BY <2>2, <2>3, LimitsAreNat DEF WorldTypes
<1>3. CycleTypes
  BY ReconcilerAssumption, BlankType, NewCycleType DEF Init, CycleTypes, Steps
<1>4. MemoryTypes
  <2>1. <<>> \in Seq(Events) /\ <<>> \in Seq(Records) /\ Len(<<>>) = 0
    OBVIOUS
  <2>2. /\ audit = [w \in Workloads |-> <<>>] /\ auditSeen = audit
        /\ auditSynced = [w \in Workloads |-> TRUE]
        /\ events = <<>> /\ active = {}
    BY DEF Init
  <2> QED BY <2>1, <2>2, ReconcilerAssumption DEF MemoryTypes
<1>5. GhostTypes
  <2>1. /\ since = [p \in Policies |-> MaxAge]
        /\ stamped = [p \in Policies |-> TRUE]
    BY DEF Init
  <2> QED BY <2>1, LimitsAreNat DEF GhostTypes, Ages
<1>6. Progress
  BY DEF Init, Progress, NewCycle
<1> QED BY <1>1, <1>2, <1>3, <1>4, <1>5, <1>6 DEF TypeInv, TypeOK

LEMMA DequeueTypes ==
  ASSUME TypeInv, NEW p \in Policies, Dequeue(p)
  PROVE  TypeInv'
<1>1. StoreTypes' /\ WorldTypes' /\ MemoryTypes' /\ GhostTypes'
  BY DEF TypeInv, TypeOK, Dequeue, StoreTypes, WorldTypes, MemoryTypes,
         GhostTypes, apiVars, memVars, auditVars, envVars, ghostVars
<1>2. [NewCycle EXCEPT !.wasSynced = synced[p]] \in Cycles
  BY NewCycleType DEF Cycles, TypeInv, TypeOK, StoreTypes
<1>3. CycleTypes'
  BY <1>2 DEF TypeInv, TypeOK, Dequeue, StoreTypes, CycleTypes, Steps
<1>4. Progress'
  BY DEF TypeInv, Dequeue, Progress, NewCycle
<1> QED BY <1>1, <1>3, <1>4 DEF TypeInv, TypeOK

LEMMA ReleaseFinalizerTypes == TypeInv /\ ReleaseFinalizer => TypeInv'
<1> SUFFICES ASSUME TypeInv, ReleaseFinalizer PROVE TypeInv'
  OBVIOUS
<1> USE DEF TypeInv, TypeOK, ReleaseFinalizer, FailUnanswered, Stored, Refused,
            Fail, Goto, Return, ReleaseCoordination, apiVars, memVars, auditVars, ctlVars,
            envVars, ghostVars
<1>1. StoreTypes'
  <2>1. [obj EXCEPT !.life = "gone", !.fin = FALSE] \in Objects
    BY DEF CycleTypes, Objects
  <2> QED BY <2>1 DEF StoreTypes
<1>2. WorldTypes' BY FailingType DEF WorldTypes
<1>3. CycleTypes'
  BY CycleExits, AgesType, NewCycleType, BlankType DEF CycleTypes, Steps
<1>4. MemoryTypes' BY DEF MemoryTypes
<1>5. GhostTypes' BY DEF GhostTypes
<1>6. Progress' BY DEF Progress, CycleTypes, Cycles, NewCycle
<1> QED BY <1>1, <1>2, <1>3, <1>4, <1>5, <1>6

LEMMA RejectSpecTypes == TypeInv /\ RejectSpec => TypeInv'
<1> SUFFICES ASSUME TypeInv, RejectSpec PROVE TypeInv'
  OBVIOUS
<1> USE DEF TypeInv, TypeOK, RejectSpec, FailUnanswered, Stored, Refused,
            Fail, Goto, Return, ReleaseCoordination, apiVars, memVars, auditVars, ctlVars,
            envVars, ghostVars
<1>1. StoreTypes'
  <2>1. [obj EXCEPT !.rejected = TRUE] \in Objects
    BY DEF CycleTypes, Objects
  <2> QED BY <2>1 DEF StoreTypes
<1>2. WorldTypes' BY FailingType DEF WorldTypes
<1>3. CycleTypes'
  BY CycleExits, AgesType, NewCycleType, BlankType DEF CycleTypes, Steps
<1>4. MemoryTypes' BY DEF MemoryTypes
<1>5. GhostTypes' BY DEF GhostTypes
<1>6. Progress' BY DEF Progress, CycleTypes, Cycles, NewCycle
<1> QED BY <1>1, <1>2, <1>3, <1>4, <1>5, <1>6

LEMMA AddFinalizerTypes == TypeInv /\ AddFinalizer => TypeInv'
<1> SUFFICES ASSUME TypeInv, AddFinalizer PROVE TypeInv'
  OBVIOUS
<1> USE DEF TypeInv, TypeOK, AddFinalizer, FailUnanswered, Stored, Refused,
            Fail, Goto, Proceed, OnlyCycle, apiVars, memVars, auditVars, ctlVars, envVars, ghostVars
<1>0. [obj EXCEPT !.fin = TRUE] \in Objects
  BY DEF CycleTypes, Objects
<1>1. StoreTypes' BY <1>0 DEF StoreTypes
<1>2. WorldTypes' BY FailingType DEF WorldTypes
<1>3. CycleTypes' BY <1>0, CycleExits, AgesType DEF CycleTypes, Steps
<1>4. MemoryTypes' BY DEF MemoryTypes
<1>5. GhostTypes' BY DEF GhostTypes
<1>6. Progress' BY DEF Progress, CycleTypes, Cycles
<1> QED BY <1>1, <1>2, <1>3, <1>4, <1>5, <1>6

LEMMA CheckCooldownTypes == TypeInv /\ CheckCooldown => TypeInv'
<1> SUFFICES ASSUME TypeInv, CheckCooldown PROVE TypeInv'
  OBVIOUS
<1>1. obj.spec \in Specs /\ obj.last \in Ages
  BY DEF TypeInv, TypeOK, CycleTypes, Objects
<1>2. obj.last < obj.spec.cooldown => obj.spec.cooldown - obj.last \in Ages
  BY <1>1, SpecFields, LimitsAreNat DEF Ages
<1>3. cyc' \in Cycles
  BY <1>2, CycleExits DEF TypeInv, TypeOK, CycleTypes, CheckCooldown,
                          ShortCircuit, Proceed
<1>4. Progress'
  BY DEF TypeInv, TypeOK, CycleTypes, Cycles, Progress, CheckCooldown,
         ShortCircuit, Proceed, Goto
<1> QED
  BY <1>3, <1>4, CycleStepTypes
  DEF TypeInv, TypeOK, WorldTypes, CheckCooldown, ShortCircuit, Proceed, Goto,
      OnlyCycle, envVars, Steps

LEMMA CollectSignalsTypes == TypeInv /\ CollectSignals => TypeInv'
<1> SUFFICES ASSUME TypeInv, CollectSignals PROVE TypeInv'
  OBVIOUS
<1> DEFINE d == seen[obj.spec.target]
<1>1. d.status \in Nat /\ d.freeze \in Ages
  <2>1. obj.spec.target \in Deployments
    BY SpecFields DEF TypeInv, TypeOK, CycleTypes, Objects
  <2> QED BY <2>1 DEF TypeInv, TypeOK, WorldTypes, WorkloadStates
<1> HIDE DEF d
<1> DEFINE bundle(sig, ok) ==
             [cyc EXCEPT !.current = IF "metrics" \in ok THEN d.status ELSE 0,
                         !.sig = IF "annotations" \in ok THEN sig
                                 ELSE [sig EXCEPT !.rule = NoSignals.rule]]
<1>2. \A sig \in Signals, ok \in SUBSET Plugins :
        /\ bundle(sig, ok) \in Cycles
        /\ [bundle(sig, ok) EXCEPT !.exit = "result", !.after = d.freeze] \in Cycles
        /\ bundle(sig, ok).est = cyc.est /\ bundle(sig, ok).wc = cyc.wc
        /\ [bundle(sig, ok) EXCEPT !.exit = "result", !.after = d.freeze].est = cyc.est
        /\ [bundle(sig, ok) EXCEPT !.exit = "result", !.after = d.freeze].wc = cyc.wc
  <2> SUFFICES ASSUME NEW sig \in Signals, NEW ok \in SUBSET Plugins
               PROVE  /\ bundle(sig, ok) \in Cycles
                      /\ bundle(sig, ok).est = cyc.est
                      /\ bundle(sig, ok).wc = cyc.wc
                      /\ [bundle(sig, ok) EXCEPT !.exit = "result",
                                                 !.after = d.freeze] \in Cycles
                      /\ [bundle(sig, ok) EXCEPT !.exit = "result",
                                                 !.after = d.freeze].est = cyc.est
                      /\ [bundle(sig, ok) EXCEPT !.exit = "result",
                                                 !.after = d.freeze].wc = cyc.wc
    OBVIOUS
  <2>1. sig \in SignalType
    BY ReconcilerAssumption
  <2>2. [sig EXCEPT !.rule = NoSignals.rule] \in SignalType
    BY <2>1 DEF SignalType, NoSignals, Rules
  <2>3. bundle(sig, ok) \in Cycles
    BY <1>1, <2>1, <2>2 DEF Cycles, TypeInv, TypeOK, CycleTypes
  <2>4. bundle(sig, ok).est = cyc.est /\ bundle(sig, ok).wc = cyc.wc
    BY DEF Cycles, TypeInv, TypeOK, CycleTypes
  <2> HIDE DEF bundle
  <2>5. [bundle(sig, ok) EXCEPT !.exit = "result", !.after = d.freeze] \in Cycles
    BY <1>1, <2>3, CycleExits
  <2> QED BY <2>3, <2>4, <2>5 DEF Cycles
<1>3. PICK sig \in Signals, failing \in SUBSET Plugins, late \in SUBSET Plugins :
        LET ok == Plugins \ failing
        IN  /\ failing # {} => faults < MaxFaults
            /\ faults' = IF failing = {} THEN faults ELSE faults + 1
            /\ IF \E n \in failing : obj.spec[n] = "required"
               THEN Fail
               ELSE IF Frozen(ok \cup late)
               THEN /\ Goto("persistStatus")
                    /\ cyc' = [bundle(sig, ok) EXCEPT !.exit = "result",
                                                      !.after = d.freeze]
               ELSE Proceed("fetchDecision", bundle(sig, ok))
  BY DEF CollectSignals, ReportedReplicas, AnnotatedSignals, d
<1>4. Plugins \ failing \in SUBSET Plugins
  OBVIOUS
<1> HIDE DEF bundle
<1>5. /\ cyc' \in Cycles /\ cyc'.est = cyc.est /\ cyc'.wc = cyc.wc
      /\ pc' \in {"persistStatus", "fetchDecision"}
      /\ UNCHANGED <<cur, obj, fresh>>
  <2>1. CASE \E n \in failing : obj.spec[n] = "required"
    <3>1. cyc' = [cyc EXCEPT !.exit = "error"] /\ Goto("persistStatus")
      BY <1>3, <2>1 DEF Fail
    <3>2. cyc \in Cycles
      BY DEF TypeInv, TypeOK, CycleTypes
    <3>3. [cyc EXCEPT !.exit = "error"] \in Cycles
      BY <3>2, CycleExits, AgesType
    <3> QED BY <3>1, <3>2, <3>3 DEF Goto, Cycles
  <2>2. CASE ~ \E n \in failing : obj.spec[n] = "required"
    <3>1. \/ /\ Goto("persistStatus")
             /\ cyc' = [bundle(sig, Plugins \ failing)
                          EXCEPT !.exit = "result", !.after = d.freeze]
          \/ Proceed("fetchDecision", bundle(sig, Plugins \ failing))
      BY <1>3, <2>2
    <3> DEFINE b == bundle(sig, Plugins \ failing)
               f == [b EXCEPT !.exit = "result", !.after = d.freeze]
    <3>2. /\ b \in Cycles /\ b.est = cyc.est /\ b.wc = cyc.wc
          /\ f \in Cycles /\ f.est = cyc.est /\ f.wc = cyc.wc
      BY <1>2, <1>4
    <3>3. \/ Goto("persistStatus") /\ cyc' = f
          \/ Proceed("fetchDecision", b)
      BY <3>1
    <3> HIDE DEF b, f
    <3> QED BY <3>2, <3>3 DEF Goto, Proceed
  <2> QED BY <2>1, <2>2
<1>6. Progress'
  BY <1>5 DEF TypeInv, Progress
<1>7. faults' \in 0..MaxFaults
  BY <1>3, LimitsAreNat DEF TypeInv, TypeOK, WorldTypes
<1> QED BY <1>5, <1>6, <1>7, CycleStepTypes DEF Steps, CollectSignals

LEMMA FetchDecisionTypes == TypeInv /\ FetchDecision => TypeInv'
<1> SUFFICES ASSUME TypeInv, FetchDecision PROVE TypeInv'
  OBVIOUS
<1>1. cyc \in Cycles /\ obj.spec.slos \in BOOLEAN
  BY SpecFields DEF TypeInv, TypeOK, CycleTypes, Objects, SpecType
<1>2. \A cand \in [Layers -> CandidateType] :
        [cyc EXCEPT !.cand = cand] \in Cycles
  BY <1>1 DEF Cycles
<1> DEFINE rules == [cyc EXCEPT !.cand = AdvisedCandidates]
           judged == [rules EXCEPT !.slosKnown = obj.spec.slos]
<1>3. AdvisedCandidates \in [Layers -> CandidateType]
  BY <1>1, AdvisedType
<1>4. rules \in Cycles /\ rules.est = cyc.est /\ rules.wc = cyc.wc
  BY <1>1, <1>2, <1>3 DEF Cycles
<1> HIDE DEF rules
<1>5. judged \in Cycles /\ judged.est = cyc.est /\ judged.wc = cyc.wc
  BY <1>1, <1>4 DEF Cycles
<1> HIDE DEF judged
<1>6. [judged EXCEPT !.exit = "error"] \in Cycles
  BY <1>5, CycleExits, AgesType
<1>7. \A answer \in LLMAnswers :
        [judged EXCEPT !.cand = WithAnswer(AdvisedCandidates, answer)] \in Cycles
  BY <1>1, <1>3, <1>5, AnswerType DEF Cycles
<1>8. /\ cyc' \in Cycles /\ cyc'.est = cyc.est /\ cyc'.wc = cyc.wc
      /\ pc' \in {"persistStatus", "checkOscillation"}
      /\ UNCHANGED <<cur, obj, fresh>>
  <2>1. \/ Proceed("checkOscillation", rules)
        \/ \E answer \in LLMAnswers :
             Proceed("checkOscillation",
                     [judged EXCEPT !.cand = WithAnswer(AdvisedCandidates, answer)])
        \/ Goto("persistStatus") /\ cyc' = [judged EXCEPT !.exit = "error"]
        \/ Proceed("checkOscillation", judged)
    BY DEF FetchDecision, rules, judged
  <2>2. CASE Proceed("checkOscillation", rules)
    BY <1>4, <2>2 DEF Proceed, Goto
  <2>3. CASE \E answer \in LLMAnswers :
               Proceed("checkOscillation",
                       [judged EXCEPT !.cand = WithAnswer(AdvisedCandidates, answer)])
    BY <1>5, <1>7, <2>3 DEF Proceed, Goto, Cycles
  <2>4. CASE Goto("persistStatus") /\ cyc' = [judged EXCEPT !.exit = "error"]
    BY <1>5, <1>6, <2>4 DEF Goto, Cycles
  <2>5. CASE Proceed("checkOscillation", judged)
    BY <1>5, <2>5 DEF Proceed, Goto
  <2> QED BY <2>1, <2>2, <2>3, <2>4, <2>5
<1>9. Progress'
  BY <1>8 DEF TypeInv, Progress
<1>10. faults' \in 0..MaxFaults
  BY FailingType DEF FetchDecision, OnlyCycle, envVars, TypeInv, TypeOK, WorldTypes
<1>11. UNCHANGED <<apiVars, memVars, ctlVars, dep, seen, edits, ghostVars>>
  BY DEF FetchDecision, OnlyCycle, envVars
<1> QED BY <1>8, <1>9, <1>10, <1>11, CycleStepTypes DEF Steps

LEMMA CheckOscillationTypes == TypeInv /\ CheckOscillation => TypeInv'
<1> SUFFICES ASSUME TypeInv, CheckOscillation PROVE TypeInv'
  OBVIOUS
<1>1. cyc \in Cycles
  BY DEF TypeInv, TypeOK, CycleTypes
<1>2. Hold(MaxConf) \in CandidateType
  BY <1>1, HoldTypes, CandidateTypes
<1>3. [cyc EXCEPT !.cand["safety"] = Hold(MaxConf)] \in Cycles
  BY <1>1, <1>2 DEF Cycles
<1>4. cyc' \in Cycles /\ cyc'.est = cyc.est /\ cyc'.wc = cyc.wc
  BY <1>1, <1>3 DEF CheckOscillation, Proceed, Cycles
<1>5. Progress'
  BY <1>4 DEF TypeInv, Progress, CheckOscillation, Proceed, Goto
<1> QED
  BY <1>4, <1>5, CycleStepTypes
  DEF CheckOscillation, Proceed, Goto, OnlyCycle, envVars, Steps, TypeInv,
      TypeOK, WorldTypes

LEMMA CheckRollbackTypes == TypeInv /\ CheckRollback => TypeInv'
<1> SUFFICES ASSUME TypeInv, CheckRollback PROVE TypeInv'
  OBVIOUS
<1> DEFINE a == auditSeen[Workload[obj.spec.target]]
           records == SubSeq(a, 1, IF Len(a) < ListLimit THEN Len(a)
                                                         ELSE ListLimit)
           found == RollbackCandidates(records, cyc.current)
           record == records[CHOOSE i \in found : \A j \in found : i <= j]
           undoing == [cyc EXCEPT !.cand["safety"] = Sure(record.prev)]
<1>1. cyc \in Cycles /\ obj.spec.target \in Deployments
  BY SpecFields DEF TypeInv, TypeOK, CycleTypes, Objects
<1>2. a \in Seq(Records)
  BY <1>1 DEF TypeInv, TypeOK, MemoryTypes, Workloads
<1> HIDE DEF a
<1>3. records \in Seq(Records)
  BY <1>2, SubSeqProperties DEF ListLimit
<1> HIDE DEF records
<1>4. found # {} => record.prev \in Nat
  <2>1. found \in SUBSET Nat /\ found \subseteq 1..Len(records)
    BY <1>3 DEF RollbackCandidates
  <2>2. found # {} => \E i \in found : \A j \in found : i <= j
    BY <2>1, NatMinimum
  <2> HIDE DEF found
  <2>3. found # {} => (CHOOSE i \in found : \A j \in found : i <= j) \in found
    BY <2>2
  <2>4. \A i \in 1..Len(records) : records[i] \in Records
    BY <1>3
  <2>5. found # {} => record \in Records
    BY <2>1, <2>3, <2>4
  <2> QED BY <2>5 DEF Records
<1> HIDE DEF found, record
<1>5. found # {} => Sure(record.prev) \in CandidateType
  BY <1>1, <1>4, HoldTypes, CandidateTypes
<1>6. found # {} => undoing \in Cycles
  BY <1>1, <1>5 DEF Cycles
<1>7. undoing.est = cyc.est /\ undoing.wc = cyc.wc
  BY <1>1 DEF Cycles
<1> HIDE DEF undoing
<1>8. /\ cyc' = cyc \/ (found # {} /\ cyc' = undoing)
      /\ pc' = "resolveTentative" /\ UNCHANGED <<cur, obj, fresh>>
  BY DEF CheckRollback, List, Proceed, Goto, a, records, found, record, undoing
<1>9. Progress'
  BY <1>7, <1>8 DEF TypeInv, Progress
<1>10. faults' \in 0..MaxFaults
  BY FailingType DEF CheckRollback, OnlyCycle, envVars, TypeInv, TypeOK, WorldTypes
<1>11. UNCHANGED <<apiVars, memVars, ctlVars, dep, seen, edits, ghostVars>>
  BY DEF CheckRollback, OnlyCycle, envVars
<1> QED BY <1>1, <1>6, <1>8, <1>9, <1>10, <1>11, CycleStepTypes DEF Steps

LEMMA ResolveTentativeTypes == TypeInv /\ ResolveTentative => TypeInv'
<1> SUFFICES ASSUME TypeInv, ResolveTentative PROVE TypeInv'
  OBVIOUS
<1>1. cyc \in Cycles /\ obj \in Objects
  BY DEF TypeInv, TypeOK, CycleTypes
<1>2. Resolved(FALSE, FALSE) \in Decisions
  BY <1>1, ResolvedType
<1>3. \A dec \in Decisions : /\ [cyc EXCEPT !.dec = dec] \in Cycles
                             /\ [cyc EXCEPT !.dec = dec].dec.target \in Int
                             /\ [cyc EXCEPT !.dec = dec].est = cyc.est
                             /\ [cyc EXCEPT !.dec = dec].wc = cyc.wc
  BY <1>1, CandidateTypes DEF Cycles, Decisions
<1>4. /\ cyc' = [cyc EXCEPT !.dec = Resolved(FALSE, FALSE)]
      /\ pc' = "estimateCost" /\ UNCHANGED <<cur, obj, fresh>>
  BY DEF ResolveTentative, Proceed, Goto
<1>5. cyc' \in Cycles /\ Progress'
  BY <1>2, <1>3, <1>4 DEF TypeInv, Progress
<1> QED
  BY <1>4, <1>5, CycleStepTypes
  DEF ResolveTentative, OnlyCycle, envVars, Steps, TypeInv, TypeOK, WorldTypes

LEMMA EstimateCostTypes == TypeInv /\ EstimateCost => TypeInv'
<1> SUFFICES ASSUME TypeInv, EstimateCost PROVE TypeInv'
  OBVIOUS
<1>1. cyc \in Cycles /\ obj.spec \in Specs
  BY DEF TypeInv, TypeOK, CycleTypes, Objects
<1>2. cyc.dec.target \in Int /\ cyc.current \in Nat
  BY <1>1 DEF EstimateCost, TypeInv, Progress, Cycles
<1>3. \A c \in Nat, cap \in Optional(Int) :
        /\ [cyc EXCEPT !.wc = c] \in Cycles
        /\ [cyc EXCEPT !.wc = c].dec = cyc.dec
        /\ [cyc EXCEPT !.wc = c].wc # NoTarget
        /\ [cyc EXCEPT !.wc = c, !.est = cyc.dec.target, !.ceiling = cap]
             \in Cycles
        /\ [cyc EXCEPT !.wc = c, !.est = cyc.dec.target, !.ceiling = cap].dec
             = cyc.dec
        /\ [cyc EXCEPT !.wc = c, !.est = cyc.dec.target, !.ceiling = cap].wc
             # NoTarget
  <2> SUFFICES ASSUME NEW c \in Nat, NEW cap \in Optional(Int)
               PROVE  /\ [cyc EXCEPT !.wc = c] \in Cycles
                      /\ [cyc EXCEPT !.wc = c].dec = cyc.dec
                      /\ [cyc EXCEPT !.wc = c].wc # NoTarget
                      /\ [cyc EXCEPT !.wc = c, !.est = cyc.dec.target,
                                     !.ceiling = cap] \in Cycles
                      /\ [cyc EXCEPT !.wc = c, !.est = cyc.dec.target,
                                     !.ceiling = cap].dec = cyc.dec
                      /\ [cyc EXCEPT !.wc = c, !.est = cyc.dec.target,
                                     !.ceiling = cap].wc # NoTarget
    OBVIOUS
  <2>1. c # NoTarget /\ c \in Optional(Nat) /\ cyc.dec.target \in Optional(Int)
    BY <1>2, NoTargetAssumption DEF Optional
  <2> QED BY <1>1, <2>1 DEF Cycles
<1>4. /\ cyc' \in Cycles /\ cyc'.dec = cyc.dec
      /\ cyc' = cyc \/ cyc'.wc # NoTarget
      /\ pc' = "checkApproval" /\ UNCHANGED <<cur, obj, fresh>>
  <2>1. CASE Proceed("checkApproval", cyc)
    BY <1>1, <2>1 DEF Proceed, Goto
  <2>2. ASSUME NEW c \in Costs, NEW cap,
               cap \in Optional(Int),
               Proceed("checkApproval",
                 IF cyc.current <= 0 THEN [cyc EXCEPT !.wc = c]
                 ELSE [cyc EXCEPT !.wc = c, !.est = cyc.dec.target,
                                  !.ceiling = cap])
        PROVE  /\ cyc' \in Cycles /\ cyc'.dec = cyc.dec
               /\ cyc'.wc # NoTarget
               /\ pc' = "checkApproval" /\ UNCHANGED <<cur, obj, fresh>>
    <3>1. c \in Nat
      BY ReconcilerAssumption
    <3> QED BY <1>3, <2>2, <3>1 DEF Proceed, Goto
  <2>3. \A c \in Costs : CostCeiling(obj.spec, c, cyc.current) \in Optional(Int)
    <3>1. /\ obj.spec.min \in Nat /\ obj.spec.maxHourly \in Nat
          /\ obj.spec.maxMonthly \in Nat
      BY <1>1, SpecFields DEF SpecType
    <3>2. \A c \in Costs : c \in Nat
      BY ReconcilerAssumption
    <3> QED BY <1>2, <3>1, <3>2, CostCeilingIsOptional
  <2>4. cyc.current \in Optional(Int) /\ NoTarget \in Optional(Int)
    BY <1>2 DEF Optional
  <2> QED BY <2>1, <2>2, <2>3, <2>4 DEF EstimateCost
<1>5. Progress'
  BY <1>2, <1>4 DEF TypeInv, Progress
<1>6. faults' \in 0..MaxFaults
  BY FailingType DEF EstimateCost, OnlyCycle, envVars, TypeInv, TypeOK, WorldTypes
<1>7. UNCHANGED <<apiVars, memVars, ctlVars, dep, seen, edits, ghostVars>>
  BY DEF EstimateCost, OnlyCycle, envVars
<1> QED BY <1>4, <1>5, <1>6, <1>7, CycleStepTypes DEF Steps

LEMMA CheckApprovalTypes == TypeInv /\ CheckApproval => TypeInv'
<1> SUFFICES ASSUME TypeInv, CheckApproval PROVE TypeInv'
  OBVIOUS
<1>1. cyc \in Cycles /\ cyc.dec.target \in Int
  BY DEF TypeInv, TypeOK, CycleTypes, CheckApproval, Progress
<1>2. Hold(cyc.dec.conf) \in CandidateType
  <2>1. cyc.dec.conf \in 0..MaxConf
    BY <1>1, CandidateTypes DEF Cycles
  <2> QED BY <1>1, <2>1, HoldTypes, CandidateTypes
<1>3. \A hold \in CandidateType :
        LET held == [cyc EXCEPT !.cand["human"] = hold]
        IN  /\ held \in Cycles /\ held.dec = cyc.dec
            /\ held.est = cyc.est /\ held.wc = cyc.wc
  BY <1>1 DEF Cycles
<1>4. /\ cyc' \in {cyc, [cyc EXCEPT !.cand["human"] = Hold(cyc.dec.conf)]}
      /\ pc' = "resolveFinal" /\ UNCHANGED <<cur, obj, fresh>>
  BY DEF CheckApproval, Proceed, Goto
<1>5. cyc' \in Cycles /\ Progress'
  BY <1>1, <1>2, <1>3, <1>4 DEF TypeInv, Progress
<1> QED
  BY <1>4, <1>5, CycleStepTypes
  DEF CheckApproval, OnlyCycle, envVars, Steps, TypeInv, TypeOK, WorldTypes

LEMMA ResolveFinalTypes == TypeInv /\ ResolveFinal => TypeInv'
<1> SUFFICES ASSUME TypeInv, ResolveFinal PROVE TypeInv'
  OBVIOUS
<1>1. cyc \in Cycles /\ obj \in Objects
  BY DEF TypeInv, TypeOK, CycleTypes
<1> DEFINE dec == Resolved(TRUE, TRUE)
<1>2. dec \in Decisions
  BY <1>1, ResolvedType
<1> HIDE DEF dec
<1>3. dec \in CandidateType /\ dec.target \in Int /\ dec.target \in Optional(Int)
  BY <1>2, CandidateTypes DEF Decisions
<1>4. [cyc EXCEPT !.dec = dec] \in Cycles
  BY <1>1, <1>3 DEF Cycles
<1>5. /\ [cyc EXCEPT !.dec = dec, !.exit = "error"] \in Cycles
      /\ [cyc EXCEPT !.dec = dec, !.exit = "error"].wc = cyc.wc
      /\ [cyc EXCEPT !.dec = dec, !.exit = "error"].est = cyc.est
  BY <1>1, <1>3 DEF Cycles
<1>6. \A est \in Optional(Int) :
        /\ [cyc EXCEPT !.dec = dec, !.est = est] \in Cycles
        /\ [cyc EXCEPT !.dec = dec, !.est = est].dec = dec
        /\ [cyc EXCEPT !.dec = dec, !.est = est].wc = cyc.wc
        /\ [cyc EXCEPT !.dec = dec, !.est = est].est = est
  BY <1>1, <1>3 DEF Cycles
<1> DEFINE est == IF cyc.wc = NoTarget THEN cyc.est ELSE dec.target
<1>7. \/ /\ cyc' = [cyc EXCEPT !.dec = dec, !.exit = "error"]
         /\ pc' = "persistStatus" /\ UNCHANGED <<cur, obj, fresh>>
      \/ /\ cyc' = [cyc EXCEPT !.dec = dec, !.est = est]
         /\ pc' = "validateDecision" /\ UNCHANGED <<cur, obj, fresh>>
  BY DEF ResolveFinal, Proceed, Goto, dec
<1>8. est \in Optional(Int) /\ (est # NoTarget => cyc.wc # NoTarget)
  BY <1>1, <1>3 DEF TypeInv, Progress, Cycles
<1> HIDE DEF est
<1>9. cyc' \in Cycles /\ Progress'
  BY <1>3, <1>5, <1>6, <1>7, <1>8 DEF TypeInv, Progress
<1>10. pc' \in Steps /\ UNCHANGED <<cur, obj, fresh>>
  BY <1>7 DEF Steps
<1> QED
  BY <1>9, <1>10, CycleStepTypes
  DEF ResolveFinal, OnlyCycle, envVars, TypeInv, TypeOK, WorldTypes

LEMMA ValidateDecisionTypes == TypeInv /\ ValidateDecision => TypeInv'
<1> SUFFICES ASSUME TypeInv, ValidateDecision PROVE TypeInv'
  OBVIOUS
<1>1. /\ cyc \in Cycles /\ cyc.dec.target \in Int /\ cyc.current \in Int
      /\ Bounded(obj.spec)
  BY SpecFields
  DEF TypeInv, TypeOK, CycleTypes, Objects, ValidateDecision, Progress, Cycles
<1>2. ValidatedReplicas(cyc.dec, cyc.current, obj.spec) \in Nat
  BY <1>1, ValidatedWithinBounds
<1>3. \A n \in Nat :
        /\ [cyc EXCEPT !.validated = n] \in Cycles
        /\ [cyc EXCEPT !.validated = n].validated = n
        /\ [cyc EXCEPT !.validated = n].est = cyc.est
        /\ [cyc EXCEPT !.validated = n].wc = cyc.wc
  BY <1>1 DEF Cycles, Optional
<1>4. /\ cyc' = [cyc EXCEPT !.validated =
                   ValidatedReplicas(cyc.dec, cyc.current, obj.spec)]
      /\ pc' = "checkCoordination" /\ UNCHANGED <<cur, obj, fresh>>
  BY DEF ValidateDecision, Proceed, Goto
<1>5. cyc' \in Cycles /\ Progress'
  BY <1>2, <1>3, <1>4 DEF TypeInv, Progress
<1> QED
  BY <1>4, <1>5, CycleStepTypes
  DEF ValidateDecision, OnlyCycle, envVars, Steps, TypeInv, TypeOK, WorldTypes

LEMMA TargetTypes ==
  ASSUME TypeInv
  PROVE  obj.spec.target \in Deployments /\ Workload[obj.spec.target] \in Workloads
<1>1. obj.spec \in Specs
  BY DEF TypeInv, TypeOK, CycleTypes, Objects
<1> QED BY <1>1, SpecFields DEF Workloads

LEMMA CheckCoordinationTypes == TypeInv /\ CheckCoordination => TypeInv'
<1> SUFFICES ASSUME TypeInv, CheckCoordination PROVE TypeInv'
  OBVIOUS
<1>1. cyc \in Cycles /\ Delay \in Ages \cup {NoTimer}
  BY AgesType DEF TypeInv, TypeOK, CycleTypes
<1>2. /\ [cyc EXCEPT !.held = TRUE] \in Cycles
      /\ [cyc EXCEPT !.held = TRUE].validated = cyc.validated
      /\ [cyc EXCEPT !.held = TRUE].est = cyc.est
      /\ [cyc EXCEPT !.held = TRUE].wc = cyc.wc
      /\ [cyc EXCEPT !.exit = "result", !.after = Delay] \in Cycles
      /\ [cyc EXCEPT !.exit = "result", !.after = Delay].est = cyc.est
      /\ [cyc EXCEPT !.exit = "result", !.after = Delay].wc = cyc.wc
  BY <1>1, CycleExits DEF Cycles
<1>3. \/ /\ cyc' \in {cyc, [cyc EXCEPT !.held = TRUE]}
         /\ pc' = "actuate" /\ UNCHANGED <<cur, obj, fresh>>
      \/ /\ cyc' = [cyc EXCEPT !.exit = "result", !.after = Delay]
         /\ pc' = "persistStatus" /\ UNCHANGED <<cur, obj, fresh>>
  BY DEF CheckCoordination, Proceed, ShortCircuit, Goto
<1>4. pc = "checkCoordination"
  BY DEF CheckCoordination
<1>5. Progress'
  BY <1>2, <1>3, <1>4 DEF TypeInv, Progress
<1>6. CycleTypes'
  BY <1>1, <1>2, <1>3 DEF TypeInv, TypeOK, CycleTypes, Steps
<1>7. MemoryTypes'
  BY TargetTypes
  DEF CheckCoordination, TypeInv, TypeOK, MemoryTypes, auditVars
<1>8. StoreTypes' /\ WorldTypes' /\ GhostTypes'
  BY DEF CheckCoordination, TypeInv, TypeOK, StoreTypes, WorldTypes, GhostTypes,
         apiVars, ctlVars, envVars, ghostVars
<1> QED BY <1>5, <1>6, <1>7, <1>8 DEF TypeInv, TypeOK

LEMMA PatchedTypes ==
  ASSUME TypeInv, cyc.validated \in Nat, Patched
  PROVE  dep' \in [Deployments -> WorkloadStates] /\ GhostTypes'
<1>1. \A d \in Deployments : [dep[d] EXCEPT !.spec = cyc.validated] \in WorkloadStates
  BY DEF TypeInv, TypeOK, WorldTypes, WorkloadStates
<1>2. dep' \in [Deployments -> WorkloadStates]
  BY <1>1 DEF Patched, TypeInv, TypeOK, WorldTypes
<1>3. GhostTypes'
  BY AgesType DEF Patched, TypeInv, TypeOK, GhostTypes, CycleTypes
<1> QED BY <1>2, <1>3

LEMMA ActuateTypes == TypeInv /\ Actuate => TypeInv'
<1> SUFFICES ASSUME TypeInv, Actuate PROVE TypeInv'
  OBVIOUS
<1>1. cyc \in Cycles /\ pc = "actuate" /\ cyc.validated \in Nat
  BY DEF TypeInv, TypeOK, CycleTypes, Actuate, Progress
<1>2. dep' \in [Deployments -> WorkloadStates] /\ GhostTypes'
  BY <1>1, PatchedTypes
  DEF Actuate, TypeInv, TypeOK, WorldTypes, GhostTypes, ghostVars
<1>3. faults' \in 0..MaxFaults
  BY FailingType DEF Actuate, TypeInv, TypeOK, WorldTypes
<1>4. StoreTypes' /\ WorldTypes'
  BY <1>2, <1>3
  DEF Actuate, TypeInv, TypeOK, StoreTypes, WorldTypes, apiVars, ctlVars
<1>5. events' \in Seq(Events) /\ Len(events') <= DetectorSize
  <2> DEFINE e == [dir |-> Direction, age |-> 0]
  <2>1. e \in Events
    BY AgesType DEF Events, Direction
  <2>2. \/ events' = events
        \/ events' = RecordEvent(events, e, DetectorSize)
    BY DEF Actuate
  <2> HIDE DEF e
  <2>3. /\ RecordEvent(events, e, DetectorSize) \in Seq(Events)
        /\ Len(RecordEvent(events, e, DetectorSize)) <= DetectorSize
    BY <2>1, LimitsAreNat, RecordEventKeepsSize DEF TypeInv, TypeOK, MemoryTypes
  <2> QED BY <2>2, <2>3 DEF TypeInv, TypeOK, MemoryTypes
<1>6. MemoryTypes'
  BY <1>5 DEF Actuate, TypeInv, TypeOK, MemoryTypes, auditVars
<1>7. \/ pc' = "recordAudit" /\ UNCHANGED <<cur, obj, fresh, cyc>>
      \/ /\ pc' = "persistStatus" /\ UNCHANGED <<cur, obj, fresh>>
         /\ cyc' = [cyc EXCEPT !.exit = "error"]
  BY DEF Actuate, Goto, Fail
<1>8. /\ [cyc EXCEPT !.exit = "error"] \in Cycles
      /\ [cyc EXCEPT !.exit = "error"].est = cyc.est
      /\ [cyc EXCEPT !.exit = "error"].wc = cyc.wc
  BY <1>1, CycleExits, AgesType DEF Cycles
<1>9. CycleTypes' /\ Progress'
  BY <1>1, <1>7, <1>8 DEF TypeInv, TypeOK, CycleTypes, Steps, Progress
<1> QED BY <1>2, <1>4, <1>6, <1>9 DEF TypeInv, TypeOK

(* Putting a record in front of what is kept never exceeds the limit.      *)
LEMMA NewestFirst ==
  ASSUME NEW S, NEW a \in Seq(S), NEW e \in S, NEW size \in Nat \ {0},
         Len(a) <= size
  PROVE  LET kept == SubSeq(a, 1, IF Len(a) < size THEN Len(a) ELSE size - 1)
         IN  <<e>> \o kept \in Seq(S) /\ Len(<<e>> \o kept) <= size
<1> DEFINE n == IF Len(a) < size THEN Len(a) ELSE size - 1
           kept == SubSeq(a, 1, n)
<1>1. n \in 0..Len(a) /\ n < size
  OBVIOUS
<1>2. \A i \in 1..n : i \in 1..Len(a)
  BY <1>1
<1> HIDE DEF n
<1>3. kept \in Seq(S) /\ Len(kept) = n
  BY <1>1, <1>2, SubSeqProperties
<1>4. <<e>> \in Seq(S) /\ Len(<<e>>) = 1
  OBVIOUS
<1> HIDE DEF kept
<1>5. <<e>> \o kept \in Seq(S) /\ Len(<<e>> \o kept) = 1 + n
  BY <1>3, <1>4, ConcatProperties
<1>6. <<e>> \o kept \in Seq(S) /\ Len(<<e>> \o kept) <= size
  BY <1>1, <1>5
<1> QED BY <1>6 DEF kept, n

LEMMA RecordAuditTypes == TypeInv /\ RecordAudit => TypeInv'
<1> SUFFICES ASSUME TypeInv, RecordAudit PROVE TypeInv'
  OBVIOUS
<1>1. /\ cyc \in Cycles /\ pc = "recordAudit" /\ cyc.validated \in Nat
      /\ cyc.current \in Nat /\ cyc.sig \in SignalType
      /\ obj.spec.dryRun \in BOOLEAN
  BY SpecFields
  DEF TypeInv, TypeOK, CycleTypes, Objects, RecordAudit, Progress, Cycles, SpecType
<1> DEFINE w == Workload[obj.spec.target]
           record == [prev |-> cyc.current, new |-> cyc.validated,
                      dry |-> obj.spec.dryRun, sig |-> cyc.sig]
           kept == Unpruned(w)
<1>2. w \in Workloads
  BY TargetTypes
<1>3. record \in Records
  BY <1>1 DEF Records
<1>4. audit' = audit \/ audit' = [audit EXCEPT ![w] = <<record>> \o kept]
  BY DEF RecordAudit, Store
<1> HIDE DEF record, w
<1>5. audit[w] \in Seq(Records) /\ Len(audit[w]) <= AuditSize
  BY <1>2 DEF TypeInv, TypeOK, MemoryTypes
<1>6. <<record>> \o kept \in Seq(Records) /\ Len(<<record>> \o kept) <= AuditSize
  BY <1>3, <1>5, LimitsAreNat, NewestFirst DEF Unpruned
<1> HIDE DEF kept
<1>7. /\ audit' \in [Workloads -> Seq(Records)]
      /\ \A v \in Workloads : Len(audit'[v]) <= AuditSize
  BY <1>2, <1>4, <1>6 DEF TypeInv, TypeOK, MemoryTypes
<1>8. MemoryTypes'
  <2>1. auditSynced' \in [Workloads -> BOOLEAN]
    BY DEF RecordAudit, Store, TypeInv, TypeOK, MemoryTypes
  <2> QED BY <1>7, <2>1 DEF RecordAudit, TypeInv, TypeOK, MemoryTypes
<1>9. faults' \in 0..MaxFaults
  BY FailingType DEF RecordAudit, TypeInv, TypeOK, WorldTypes
<1>10. StoreTypes' /\ WorldTypes' /\ GhostTypes'
  BY <1>9
  DEF RecordAudit, TypeInv, TypeOK, StoreTypes, WorldTypes, GhostTypes, apiVars,
      ctlVars, ghostVars
<1>11. /\ [cyc EXCEPT !.exit = "ready"] \in Cycles
       /\ [cyc EXCEPT !.exit = "ready"].est = cyc.est
       /\ [cyc EXCEPT !.exit = "ready"].wc = cyc.wc
  BY <1>1, CycleExits, AgesType DEF Cycles
<1>12. /\ cyc' = [cyc EXCEPT !.exit = "ready"]
       /\ pc' = "persistStatus" /\ UNCHANGED <<cur, obj, fresh>>
  BY DEF RecordAudit, Proceed, Goto
<1>13. CycleTypes' /\ Progress'
  BY <1>1, <1>11, <1>12 DEF TypeInv, TypeOK, CycleTypes, Steps, Progress
<1> QED BY <1>8, <1>10, <1>13 DEF TypeInv, TypeOK

LEMMA PersistStatusTypes == TypeInv /\ PersistStatus => TypeInv'
<1> SUFFICES ASSUME TypeInv, PersistStatus PROVE TypeInv'
  OBVIOUS
<1> USE DEF TypeInv, TypeOK, PersistStatus, Refused, StatusStored, Return,
            ReleaseCoordination, CallFails, Stored, apiVars, memVars, auditVars, ctlVars, envVars, ghostVars
<1>0. StatusUpdate \in Objects /\ cyc.after \in Ages \cup {NoTimer}
  BY StatusUpdateType DEF CycleTypes, Progress, Cycles
<1>1. StoreTypes'
  BY <1>0 DEF StoreTypes
<1>2. WorldTypes'
  BY <1>0, AgesType, FailingType DEF WorldTypes
<1>3. CycleTypes'
  BY CycleExits, AgesType, NewCycleType, BlankType DEF CycleTypes, Steps
<1>4. MemoryTypes' BY DEF MemoryTypes
<1>5. GhostTypes' BY DEF GhostTypes
<1>6. Progress' BY DEF Progress, CycleTypes, Cycles, NewCycle
<1> QED BY <1>1, <1>2, <1>3, <1>4, <1>5, <1>6

(* The steps of the environment.                                           *)
LEMMA InformerTypes ==
  ASSUME TypeInv,
         \/ \E p \in Policies : SyncPolicy(p) \/ TimerFires(p)
         \/ \E d \in Deployments : SyncDeployment(d)
         \/ \E w \in Workloads : SyncAudit(w)
  PROVE  TypeInv'
<1> USE DEF TypeInv, TypeOK, StoreTypes, WorldTypes, CycleTypes, MemoryTypes,
            GhostTypes, Progress, apiVars, memVars, auditVars, cycVars, ctlVars, envVars,
            ghostVars
<1>1. ASSUME NEW p \in Policies, SyncPolicy(p) PROVE TypeInv'
  BY <1>1 DEF SyncPolicy
<1>2. ASSUME NEW p \in Policies, TimerFires(p) PROVE TypeInv'
  BY <1>2 DEF TimerFires
<1>3. ASSUME NEW d \in Deployments, SyncDeployment(d) PROVE TypeInv'
  BY <1>3 DEF SyncDeployment
<1>4. ASSUME NEW w \in Workloads, SyncAudit(w) PROVE TypeInv'
  BY <1>4 DEF SyncAudit
<1> QED BY <1>1, <1>2, <1>3, <1>4

LEMMA RolloutTypes ==
  ASSUME TypeInv, NEW d \in Deployments, Rollout(d)
  PROVE  TypeInv'
<1> DEFINE n == IF dep[d].spec > dep[d].status THEN dep[d].status + 1
                ELSE dep[d].status - 1
<1>1. dep[d] \in WorkloadStates
  BY DEF TypeInv, TypeOK, WorldTypes
<1>2. n \in Nat
  BY <1>1 DEF Rollout, WorkloadStates
<1>3. dep' = [dep EXCEPT ![d].status = n]
  BY DEF Rollout
<1> HIDE DEF n
<1>4. [dep[d] EXCEPT !.status = n] \in WorkloadStates
  BY <1>1, <1>2 DEF WorkloadStates
<1>5. dep' \in [Deployments -> WorkloadStates]
  BY <1>3, <1>4 DEF TypeInv, TypeOK, WorldTypes
<1> QED
  BY <1>5 DEF Rollout, TypeInv, TypeOK, StoreTypes, WorldTypes, CycleTypes,
              MemoryTypes, GhostTypes, Progress, apiVars, memVars, auditVars, cycVars,
              ctlVars, ghostVars

LEMMA TickTypes == TypeInv /\ Tick => TypeInv'
<1> SUFFICES ASSUME TypeInv, Tick PROVE TypeInv'
  OBVIOUS
<1>1. \A o \in Objects : Aged(o) \in Objects
  BY AgesType DEF Aged, Objects
<1>2. \A w \in WorkloadStates : Thawed(w) \in WorkloadStates
  BY AgesType DEF Thawed, WorkloadStates
<1>3. StoreTypes'
  BY <1>1 DEF Tick, TypeInv, TypeOK, StoreTypes
<1>4. WorldTypes'
  <2>1. timer' \in [Policies -> Ages \cup {NoTimer}]
    BY AgesType DEF Tick, TypeInv, TypeOK, WorldTypes
  <2> QED BY <1>2, <2>1 DEF Tick, TypeInv, TypeOK, WorldTypes
<1>5. CycleTypes'
  BY <1>1 DEF Tick, TypeInv, TypeOK, CycleTypes
<1>6. MemoryTypes'
  <2>1. \A e \in Events : [e EXCEPT !.age = Older(@)] \in Events
    BY AgesType DEF Events
  <2>2. events \in Seq(Events) /\ Len(events) <= DetectorSize
    BY DEF TypeInv, TypeOK, MemoryTypes
  <2>3. events' = [i \in DOMAIN events |-> [events[i] EXCEPT !.age = Older(@)]]
    BY DEF Tick
  <2>4. events' = [i \in 1..Len(events) |-> [events[i] EXCEPT !.age = Older(@)]]
    BY <2>2, <2>3
  <2>5. events' \in Seq(Events) /\ Len(events') = Len(events)
    BY <2>1, <2>2, <2>4
  <2> QED BY <2>2, <2>5 DEF Tick, TypeInv, TypeOK, MemoryTypes, auditVars
<1>7. GhostTypes'
  BY AgesType DEF Tick, TypeInv, TypeOK, GhostTypes
<1>8. Progress'
  BY DEF Tick, TypeInv, Progress
<1> QED BY <1>3, <1>4, <1>5, <1>6, <1>7, <1>8 DEF TypeInv, TypeOK

LEMMA UserTypes ==
  ASSUME TypeInv, User
  PROVE  TypeInv'
<1>1. ASSUME NEW p \in Policies, NEW o \in Objects, WrittenByUser(p, o)
      PROVE  TypeInv'
  BY <1>1, LimitsAreNat
  DEF WrittenByUser, TypeInv, TypeOK, StoreTypes, WorldTypes, CycleTypes,
      MemoryTypes, GhostTypes, Progress, memVars, auditVars, ctlVars, ghostVars
<1>2. ASSUME NEW d \in Deployments, NEW w \in WorkloadStates,
             DeploymentWritten(d, w)
      PROVE  TypeInv'
  BY <1>2, LimitsAreNat
  DEF DeploymentWritten, TypeInv, TypeOK, StoreTypes, WorldTypes, CycleTypes,
      MemoryTypes, GhostTypes, Progress, apiVars, memVars, auditVars, cycVars, ctlVars,
      ghostVars
<1>3. ASSUME NEW p \in Policies, EditSpec(p) PROVE TypeInv'
  <2>1. \A s \in Specs :
          [api[p] EXCEPT !.spec = s, !.rejected = FALSE] \in Objects
    BY DEF TypeInv, TypeOK, StoreTypes, Objects
  <2> QED BY <1>1, <1>3, <2>1 DEF EditSpec
<1>4. ASSUME NEW p \in Policies, DeletePolicy(p) PROVE TypeInv'
  <2>1. [api[p] EXCEPT !.life = IF api[p].fin THEN "deleting" ELSE "gone"]
          \in Objects
    BY DEF TypeInv, TypeOK, StoreTypes, Objects
  <2> QED BY <1>1, <1>4, <2>1 DEF DeletePolicy
<1>5. ASSUME NEW d \in Deployments, ScaleExternally(d) PROVE TypeInv'
  <2>1. \A n \in UserReplicas : [dep[d] EXCEPT !.spec = n] \in WorkloadStates
    BY ReconcilerAssumption DEF TypeInv, TypeOK, WorldTypes, WorkloadStates
  <2> QED BY <1>2, <1>5, <2>1 DEF ScaleExternally
<1>6. ASSUME NEW d \in Deployments, Freeze(d) PROVE TypeInv'
  <2>1. \A n \in Freezes : [dep[d] EXCEPT !.freeze = n] \in WorkloadStates
    BY ReconcilerAssumption
    DEF TypeInv, TypeOK, WorldTypes, WorkloadStates, Ages
  <2> QED BY <1>2, <1>6, <2>1 DEF Freeze
<1> QED BY <1>3, <1>4, <1>5, <1>6 DEF User

LEMMA RestartTypes == TypeInv /\ Restart => TypeInv'
<1> SUFFICES ASSUME TypeInv, Restart PROVE TypeInv'
  OBVIOUS
<1>1. StoreTypes'
  BY DEF Restart, TypeInv, TypeOK, StoreTypes
<1>2. WorldTypes'
  BY FailingType DEF Restart, TypeInv, TypeOK, WorldTypes
<1>3. CycleTypes'
  BY BlankType, NewCycleType DEF Restart, TypeInv, TypeOK, CycleTypes, Steps
<1>4. MemoryTypes'
  <2>1. <<>> \in Seq(Events) /\ Len(<<>>) <= DetectorSize
    BY LimitsAreNat
  <2> QED BY <2>1 DEF Restart, TypeInv, TypeOK, MemoryTypes
<1>5. GhostTypes'
  BY DEF Restart, TypeInv, TypeOK, GhostTypes, ghostVars
<1>6. Progress'
  BY DEF Restart, Progress, NewCycle
<1> QED BY <1>1, <1>2, <1>3, <1>4, <1>5, <1>6 DEF TypeInv, TypeOK

LEMMA StutterTypes == TypeInv /\ UNCHANGED vars => TypeInv'
BY DEF vars, TypeInv, TypeOK, StoreTypes, WorldTypes, CycleTypes, MemoryTypes,
       GhostTypes, Progress, apiVars, memVars, auditVars, cycVars, ctlVars, envVars,
       ghostVars

LEMMA TypeInvStep == TypeInv /\ [Next]_vars => TypeInv'
<1> SUFFICES ASSUME TypeInv, [Next]_vars PROVE TypeInv'
  OBVIOUS
<1>1. CASE \E p \in Policies : Dequeue(p)
  BY <1>1, DequeueTypes
<1>2. CASE Worker
  BY <1>2, ReleaseFinalizerTypes, RejectSpecTypes, AddFinalizerTypes,
     CheckCooldownTypes, CollectSignalsTypes, FetchDecisionTypes,
     CheckOscillationTypes, CheckRollbackTypes, ResolveTentativeTypes,
     EstimateCostTypes, CheckApprovalTypes, ResolveFinalTypes,
     ValidateDecisionTypes, CheckCoordinationTypes, ActuateTypes,
     RecordAuditTypes, PersistStatusTypes
  DEF Worker
<1>3. CASE Environment
  BY <1>3, InformerTypes, RolloutTypes, TickTypes DEF Environment
<1>4. CASE User
  BY <1>4, UserTypes
<1>5. CASE Restart
  BY <1>5, RestartTypes
<1> QED
  BY <1>1, <1>2, <1>3, <1>4, <1>5, StutterTypes DEF Next

(* Every variable keeps its type and the detector's ring and the audit     *)
(* records keep their limits, for every number of policies, Deployments,   *)
(* failures and edits.                                                     *)
THEOREM TypeCorrect == Spec => []TypeOK
<1>1. Spec => []TypeInv
  BY InitTypes, TypeInvStep, PTL DEF Spec
<1>2. TypeInv => TypeOK
  BY DEF TypeInv
<1> QED BY <1>1, <1>2, PTL

-----------------------------------------------------------------------------
(* The steps between the finalizer and the status that neither write the   *)
(* policy nor scale for it; what they leave alone.                         *)
Deliberation ==
  \/ CheckCooldown \/ CollectSignals \/ FetchDecision \/ CheckOscillation
  \/ CheckRollback \/ ResolveTentative \/ EstimateCost \/ CheckApproval
  \/ ResolveFinal \/ ValidateDecision \/ CheckCoordination \/ RecordAudit

(* The steps that run under the protection of the finalizer.               *)
Guarded == Steps \ {"idle", "ensureFinalizer", "persistStatus"}

LEMMA DeliberationWritesNothing ==
  ASSUME TypeInv, Deliberation
  PROVE  /\ UNCHANGED <<api, cache, synced, since, stamped, cur, obj, fresh, dep>>
         /\ cyc'.wasSynced = cyc.wasSynced
         /\ CheckCoordination \/ (cyc'.held = cyc.held /\ UNCHANGED active)
         /\ pc \in Guarded /\ pc' \in Guarded \cup {"persistStatus"}
         /\ pc' # "checkCooldown"
<1>1. cyc \in Cycles
  BY DEF TypeInv, TypeOK, CycleTypes
<1> USE DEF Proceed, Goto, Fail, ShortCircuit, OnlyCycle, apiVars, memVars,
            ghostVars, envVars, Guarded, Steps
<1>2. CASE CheckCooldown
  BY <1>1, <1>2 DEF CheckCooldown, Cycles
<1>3. CASE CollectSignals
  <2> DEFINE d == seen[obj.spec.target]
             bundle(sig, ok) ==
               [cyc EXCEPT !.current = IF "metrics" \in ok THEN d.status ELSE 0,
                           !.sig = IF "annotations" \in ok THEN sig
                                   ELSE [sig EXCEPT !.rule = NoSignals.rule]]
  <2>1. \A sig, ok :
          /\ bundle(sig, ok).wasSynced = cyc.wasSynced
          /\ bundle(sig, ok).held = cyc.held
          /\ LET frozen == [bundle(sig, ok) EXCEPT !.exit = "result",
                                                   !.after = d.freeze]
             IN  frozen.wasSynced = cyc.wasSynced /\ frozen.held = cyc.held
    BY <1>1 DEF Cycles
  <2>2. /\ [cyc EXCEPT !.exit = "error"].wasSynced = cyc.wasSynced
        /\ [cyc EXCEPT !.exit = "error"].held = cyc.held
    BY <1>1 DEF Cycles
  <2>3. PICK sig \in Signals, failing \in SUBSET Plugins :
          \/ Fail
          \/ /\ Goto("persistStatus")
             /\ cyc' = [bundle(sig, Plugins \ failing)
                          EXCEPT !.exit = "result", !.after = d.freeze]
          \/ Proceed("fetchDecision", bundle(sig, Plugins \ failing))
    BY <1>3 DEF CollectSignals, ReportedReplicas, AnnotatedSignals
  <2> HIDE DEF bundle, d
  <2>4. /\ UNCHANGED <<api, cache, synced, since, stamped, dep, active>>
        /\ pc = "collectSignals"
    BY <1>3 DEF CollectSignals
  <2>5. /\ UNCHANGED <<cur, obj, fresh>> /\ pc' \in {"persistStatus", "fetchDecision"}
        /\ cyc'.wasSynced = cyc.wasSynced /\ cyc'.held = cyc.held
    <3>1. CASE Fail
      BY <2>2, <3>1
    <3>2. CASE /\ Goto("persistStatus")
               /\ cyc' = [bundle(sig, Plugins \ failing)
                            EXCEPT !.exit = "result", !.after = d.freeze]
      BY <2>1, <3>2
    <3>3. CASE Proceed("fetchDecision", bundle(sig, Plugins \ failing))
      BY <2>1, <3>3
    <3> QED BY <2>3, <3>1, <3>2, <3>3
  <2> QED BY <2>4, <2>5
<1>4. CASE FetchDecision
  BY <1>1, <1>4 DEF FetchDecision, Cycles
<1>5. CASE CheckOscillation
  BY <1>1, <1>5 DEF CheckOscillation, Cycles
<1>6. CASE CheckRollback
  <2>1. \A d : /\ [cyc EXCEPT !.cand["safety"] = d].wasSynced = cyc.wasSynced
              /\ [cyc EXCEPT !.cand["safety"] = d].held = cyc.held
    BY <1>1 DEF Cycles
  <2>2. \/ Proceed("resolveTentative", cyc)
        \/ \E d : Proceed("resolveTentative", [cyc EXCEPT !.cand["safety"] = d])
    BY <1>6 DEF CheckRollback
  <2>3. /\ UNCHANGED <<api, cache, synced, since, stamped, dep, active>>
        /\ pc = "checkRollback"
    BY <1>6 DEF CheckRollback
  <2> QED BY <2>1, <2>2, <2>3
<1>7. CASE ResolveTentative
  BY <1>1, <1>7 DEF ResolveTentative, Cycles
<1>8. CASE EstimateCost
  BY <1>1, <1>8 DEF EstimateCost, Cycles
<1>9. CASE CheckApproval
  BY <1>1, <1>9 DEF CheckApproval, Cycles
<1>10. CASE ResolveFinal
  BY <1>1, <1>10 DEF ResolveFinal, Cycles
<1>11. CASE ValidateDecision
  BY <1>1, <1>11 DEF ValidateDecision, Cycles
<1>12. CASE CheckCoordination
  BY <1>1, <1>12 DEF CheckCoordination, Cycles
<1>13. CASE RecordAudit
  BY <1>1, <1>13 DEF RecordAudit, Cycles
<1> QED
  BY <1>2, <1>3, <1>4, <1>5, <1>6, <1>7, <1>8, <1>9, <1>10, <1>11, <1>12, <1>13
  DEF Deliberation

-----------------------------------------------------------------------------
(* A cycle that waits in the queue holds no slot.                          *)
IdleHoldsNothing == pc = "idle" => ~cyc.held

LEMMA ReturnFreesTheSlot ==
  ASSUME SlotsReleased, NEW delay, Return(delay)
  PROVE  SlotsReleased' /\ IdleHoldsNothing'
<1>1. cyc' = NewCycle /\ NewCycle.held = FALSE
  BY DEF Return, NewCycle
<1>2. active' = {}
  BY DEF Return, ReleaseCoordination, SlotsReleased
<1> QED BY <1>1, <1>2 DEF SlotsReleased, IdleHoldsNothing

LEMMA SlotsStep ==
  ASSUME TypeInv, SlotsReleased, IdleHoldsNothing, [Next]_vars
  PROVE  SlotsReleased' /\ IdleHoldsNothing'
<1>0. cyc \in Cycles /\ cyc.held \in BOOLEAN
  BY DEF TypeInv, TypeOK, CycleTypes, Cycles
<1>1. ASSUME cyc'.held = cyc.held, active' = active,
             obj'.spec = obj.spec \/ ~cyc.held,
             pc' = "idle" => pc = "idle"
      PROVE  SlotsReleased' /\ IdleHoldsNothing'
  BY <1>1 DEF SlotsReleased, IdleHoldsNothing
<1>2. /\ [cyc EXCEPT !.exit = "error"].held = cyc.held
      /\ [cyc EXCEPT !.exit = "ready"].held = cyc.held
      /\ [cyc EXCEPT !.held = TRUE].held = TRUE
      /\ [cyc EXCEPT !.exit = "result", !.after = Delay].held = cyc.held
  BY <1>0 DEF Cycles
<1>3. CASE \E p \in Policies : Dequeue(p)
  <2>1. (~cyc.held /\ cyc'.held = FALSE) \/ (UNCHANGED <<cyc, obj>> /\ pc' = pc)
    BY <1>3 DEF Dequeue, NewCycle, IdleHoldsNothing
  <2>2. ~cyc.held /\ active' = active
    BY <1>3 DEF Dequeue, IdleHoldsNothing, memVars
  <2> QED BY <1>0, <1>1, <2>1, <2>2 DEF SlotsReleased, IdleHoldsNothing
<1>4. CASE Deliberation /\ ~CheckCoordination
  BY <1>1, <1>4, DeliberationWritesNothing DEF Guarded
<1>5. CASE CheckCoordination
  <2>1. UNCHANGED obj /\ pc' # "idle"
    BY <1>5 DEF CheckCoordination, Proceed, ShortCircuit, Goto
  <2>2. \/ active' = active /\ cyc'.held = cyc.held
        \/ cyc'.held = TRUE /\ active' = active \cup {Workload[obj.spec.target]}
    BY <1>2, <1>5 DEF CheckCoordination, Proceed, ShortCircuit, Goto
  <2> QED BY <1>1, <2>1, <2>2 DEF SlotsReleased, IdleHoldsNothing
<1>6. CASE ReleaseFinalizer \/ RejectSpec \/ PersistStatus
  <2>1. \/ \E delay : Return(delay)
        \/ UNCHANGED <<obj, active>> /\ pc' # "idle" /\ cyc'.held = cyc.held
    BY <1>2, <1>6 DEF ReleaseFinalizer, RejectSpec, FailUnanswered,
                      PersistStatus, Fail, Goto, memVars
  <2> QED BY <1>1, <2>1, ReturnFreesTheSlot
<1>7. CASE AddFinalizer
  <2>1. [obj EXCEPT !.fin = TRUE].spec = obj.spec
    BY DEF TypeInv, TypeOK, CycleTypes, Objects
  <2>2. /\ obj'.spec = obj.spec /\ cyc'.held = cyc.held /\ active' = active
        /\ pc' # "idle"
    BY <1>2, <1>7, <2>1 DEF AddFinalizer, FailUnanswered, Proceed, Fail, Goto,
                            OnlyCycle, memVars
  <2> QED BY <1>1, <2>2
<1>8. CASE Actuate
  <2>1. UNCHANGED <<obj, active>> /\ cyc'.held = cyc.held /\ pc' # "idle"
    BY <1>2, <1>8 DEF Actuate, Fail, Goto
  <2> QED BY <1>1, <2>1
<1>9. CASE Environment \/ User \/ UNCHANGED vars
  <2>1. Aged(obj).spec = obj.spec
    BY DEF Aged, TypeInv, TypeOK, CycleTypes, Objects
  <2>2. obj'.spec = obj.spec /\ UNCHANGED <<cyc, active, pc>>
    BY <1>9, <2>1
    DEF Environment, User, SyncPolicy, TimerFires, SyncDeployment, SyncAudit,
        Rollout, Tick, EditSpec, DeletePolicy, WrittenByUser, ScaleExternally,
        Freeze, DeploymentWritten, vars, cycVars, memVars
  <2> QED BY <1>1, <2>2
<1>10. CASE Restart
  BY <1>10 DEF Restart, NewCycle, SlotsReleased, IdleHoldsNothing
<1> QED
  BY <1>3, <1>4, <1>5, <1>6, <1>7, <1>8, <1>9, <1>10
  DEF Next, Worker, Deliberation

(* Slots: on whatever path a reconcile returns, the coordination slot of   *)
(* its workload has been given back, and at no time does a slot belong to  *)
(* anybody but the reconcile in progress.                                  *)
THEOREM SlotsAreReleased == Spec => []SlotsReleased
<1>1. Init => SlotsReleased /\ IdleHoldsNothing
  <2>1. Init => cyc = NewCycle /\ NewCycle.held = FALSE /\ active = {}
    BY DEF Init, NewCycle
  <2> QED BY <2>1 DEF SlotsReleased, IdleHoldsNothing
<1>2. Spec => []TypeInv
  BY InitTypes, TypeInvStep, PTL DEF Spec
<1>3. Spec => [](SlotsReleased /\ IdleHoldsNothing)
  BY <1>1, <1>2, SlotsStep, PTL DEF Spec
<1> QED BY <1>3, PTL
=============================================================================
