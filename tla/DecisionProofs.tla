--------------------------- MODULE DecisionProofs ---------------------------
(***************************************************************************)
(* What the reconcile loop makes of a decision: a validated count is the   *)
(* one the validator computed for the cycle's own decision, its reported   *)
(* count and its spec, and only ensureFinalizer's valid specs get there.   *)
(***************************************************************************)
EXTENDS ReconcilerProofs, Rollbacks

ValidatedIsCurrent ==
  Decided => /\ cyc.dec.target \in Int
             /\ cyc.validated = ValidatedReplicas(cyc.dec, cyc.current, obj.spec)

SpecIsValid == pc \in Guarded => ValidSpec(obj.spec)

DecisionInv == ValidatedIsCurrent /\ SpecIsValid

LEMMA DecisionInit == Init => DecisionInv
BY DEF Init, DecisionInv, ValidatedIsCurrent, SpecIsValid, Decided, Guarded

(* Only ValidateDecision decides.                                          *)
LEMMA DecisionDeliberation ==
  ASSUME TypeInv, DecisionInv, Deliberation
  PROVE  DecisionInv'
<1>1. UNCHANGED obj /\ pc \in Guarded
  BY DeliberationWritesNothing
<1>2. SpecIsValid'
  BY <1>1 DEF DecisionInv, SpecIsValid
<1>3. cyc \in Cycles
  BY DEF TypeInv, TypeOK, CycleTypes
<1>4. CASE ValidateDecision
  <2>1. /\ cyc' = [cyc EXCEPT !.validated =
                    ValidatedReplicas(cyc.dec, cyc.current, obj.spec)]
        /\ pc = "validateDecision"
    BY <1>4 DEF ValidateDecision, Proceed
  <2>2. \A n : /\ [cyc EXCEPT !.validated = n].validated = n
               /\ [cyc EXCEPT !.validated = n].dec = cyc.dec
               /\ [cyc EXCEPT !.validated = n].current = cyc.current
    BY <1>3 DEF Cycles
  <2>3. cyc.dec.target \in Int
    BY <2>1 DEF TypeInv, Progress
  <2>4. /\ cyc'.dec = cyc.dec /\ cyc'.current = cyc.current
        /\ cyc'.validated = ValidatedReplicas(cyc.dec, cyc.current, obj.spec)
    BY <2>1, <2>2
  <2>5. cyc'.validated = ValidatedReplicas(cyc'.dec, cyc'.current, obj'.spec)
    BY <1>1, <2>4
  <2>6. ValidatedIsCurrent'
    BY <2>3, <2>4, <2>5 DEF ValidatedIsCurrent
  <2> QED BY <1>2, <2>6 DEF DecisionInv
<1>5. CASE CheckCoordination
  <2>1. \/ cyc' = cyc
        \/ cyc' = [cyc EXCEPT !.held = TRUE]
        \/ pc' = "persistStatus"
    BY <1>5 DEF CheckCoordination, Proceed, ShortCircuit, Goto
  <2>2. /\ [cyc EXCEPT !.held = TRUE].dec = cyc.dec
        /\ [cyc EXCEPT !.held = TRUE].current = cyc.current
        /\ [cyc EXCEPT !.held = TRUE].validated = cyc.validated
    BY <1>3 DEF Cycles
  <2>3. Decided
    BY <1>5 DEF CheckCoordination, Decided
  <2>4. ValidatedIsCurrent'
    BY <1>1, <2>1, <2>2, <2>3 DEF DecisionInv, ValidatedIsCurrent, Decided
  <2> QED BY <1>2, <2>4 DEF DecisionInv
<1>6. CASE ~ValidateDecision /\ ~CheckCoordination
  <2>1. ~Decided'
    BY <1>6 DEF Deliberation, Decided, CheckCooldown, CollectSignals,
                FetchDecision, CheckOscillation, CheckRollback,
                ResolveTentative, EstimateCost, CheckApproval, ResolveFinal,
                RecordAudit, Proceed, ShortCircuit, Fail, Goto
  <2> QED BY <1>2, <2>1 DEF DecisionInv, ValidatedIsCurrent
<1> QED BY <1>4, <1>5, <1>6

LEMMA DecisionStep == TypeInv /\ DecisionInv /\ [Next]_vars => DecisionInv'
<1> SUFFICES ASSUME TypeInv, DecisionInv, [Next]_vars PROVE DecisionInv'
  OBVIOUS
<1>1. CASE Deliberation
  BY <1>1, DecisionDeliberation
<1>2. CASE AddFinalizer
  <2>1. [obj EXCEPT !.fin = TRUE].spec = obj.spec
    BY DEF TypeInv, TypeOK, CycleTypes, Objects
  <2> QED
    BY <1>2, <2>1 DEF AddFinalizer, FailUnanswered, Proceed, Goto, Fail, DecisionInv,
                      ValidatedIsCurrent, SpecIsValid, Decided, Guarded
<1>3. CASE Actuate
  BY <1>3 DEF Actuate, Goto, Fail, DecisionInv, ValidatedIsCurrent, SpecIsValid,
              Decided, Guarded, Steps
<1>4. CASE pc' \in {"idle", "ensureFinalizer", "persistStatus"}
  BY <1>4 DEF DecisionInv, ValidatedIsCurrent, SpecIsValid, Decided, Guarded
<1>5. CASE UNCHANGED <<pc, cyc>> /\ obj'.spec = obj.spec
  BY <1>5 DEF DecisionInv, ValidatedIsCurrent, SpecIsValid, Decided, Guarded
<1>6. Worker => \/ Deliberation \/ AddFinalizer \/ Actuate
                \/ pc' \in {"idle", "ensureFinalizer", "persistStatus"}
  BY DEF Worker, Deliberation, ReleaseFinalizer, RejectSpec, FailUnanswered, PersistStatus,
         Return, Fail, Goto
<1>7. (\E p \in Policies : Dequeue(p))
        => \/ pc' = "ensureFinalizer"
           \/ UNCHANGED <<pc, cyc>> /\ obj'.spec = obj.spec
  BY DEF Dequeue
<1>8. Tick => UNCHANGED <<pc, cyc>> /\ obj'.spec = obj.spec
  <2>1. Aged(obj).spec = obj.spec
    BY DEF Aged, TypeInv, TypeOK, CycleTypes, Objects
  <2> QED BY <2>1 DEF Tick
<1>9. Environment \/ User \/ UNCHANGED vars
        => Tick \/ (UNCHANGED <<pc, cyc>> /\ obj'.spec = obj.spec)
  BY DEF Environment, User, SyncPolicy, TimerFires, SyncDeployment, SyncAudit, Rollout,
         EditSpec, DeletePolicy, WrittenByUser, ScaleExternally, Freeze,
         DeploymentWritten, vars, cycVars
<1>10. Restart => pc' = "idle"
  BY DEF Restart
<1> QED
  BY <1>1, <1>2, <1>3, <1>4, <1>5, <1>6, <1>7, <1>8, <1>9, <1>10 DEF Next

LEMMA DecisionInvHolds == Spec => [](TypeInv /\ DecisionInv)
<1>1. Spec => []TypeInv
  BY InitTypes, TypeInvStep, PTL DEF Spec
<1>2. Spec => []DecisionInv
  BY <1>1, DecisionInit, DecisionStep, PTL DEF Spec
<1> QED BY <1>1, <1>2, PTL

LEMMA CycleNumbers ==
  ASSUME TypeInv
  PROVE  /\ cyc.current \in Int /\ obj.spec \in Specs /\ Bounded(obj.spec)
         /\ obj.spec.min \in Int /\ obj.spec.max \in Int
<1>1. cyc.current \in Int /\ obj.spec \in Specs
  BY DEF TypeInv, TypeOK, CycleTypes, Objects, Cycles
<1> QED BY <1>1, SpecFields DEF Bounded

(* Step limit: whichever layer decided, the symmetric validator moves a    *)
(* workload that is within its bounds by at most maxScaleStep.             *)
THEOREM StepIsBounded == Spec => []StepBound
<1>1. TypeInv /\ DecisionInv => StepBound
  <2> SUFFICES ASSUME TypeInv, DecisionInv, Decided,
                      ~UsesAsymmetric(obj.spec), InBounds(cyc.current)
               PROVE  Abs(cyc.validated - cyc.current) <= obj.spec.step
    BY DEF StepBound
  <2>1. cyc.validated = Validate(cyc.dec, cyc.current, obj.spec)
    BY DEF DecisionInv, ValidatedIsCurrent, ValidatedReplicas
  <2>2. cyc.dec.target \in Int
    BY DEF DecisionInv, ValidatedIsCurrent
  <2> QED
    BY <2>1, <2>2, CycleNumbers, ValidateBoundsTheStep DEF InBounds
<1> QED BY <1>1, DecisionInvHolds, PTL

(* Writes: what the worker writes to a Deployment goes to the target of    *)
(* its policy, within the bounds it read, from a valid spec and never in a *)
(* dry run.                                                                *)
THEOREM PatchesAreConform == Spec => PatchesConform
<1> DEFINE Conforms ==
      \A d \in Deployments :
        pc = "actuate" /\ pc' # pc /\ dep'[d].spec # dep[d].spec
          => /\ d = obj.spec.target /\ ~obj.spec.dryRun
             /\ obj.spec.min <= dep'[d].spec /\ dep'[d].spec <= obj.spec.max
             /\ ValidSpec(obj.spec)
<1>1. TypeInv /\ DecisionInv /\ [Next]_vars => Conforms
  <2> SUFFICES ASSUME TypeInv, DecisionInv, [Next]_vars,
                      NEW d \in Deployments, pc = "actuate", pc' # pc,
                      dep'[d].spec # dep[d].spec
               PROVE  /\ d = obj.spec.target /\ ~obj.spec.dryRun
                      /\ obj.spec.min <= dep'[d].spec
                      /\ dep'[d].spec <= obj.spec.max
                      /\ ValidSpec(obj.spec)
    OBVIOUS
  <2>1. Actuate
    BY DEF Next, vars, cycVars, Worker, Environment, User, Restart, Dequeue,
           ReleaseFinalizer, RejectSpec, AddFinalizer, FailUnanswered, CheckCooldown,
           CollectSignals, FetchDecision, CheckOscillation, CheckRollback,
           ResolveTentative, EstimateCost, CheckApproval, ResolveFinal,
           ValidateDecision, CheckCoordination, RecordAudit, PersistStatus,
           SyncPolicy, TimerFires, SyncDeployment, SyncAudit, Rollout, Tick, EditSpec,
           DeletePolicy, WrittenByUser, ScaleExternally, Freeze,
           DeploymentWritten
  <2>2. /\ dep' = [dep EXCEPT ![obj.spec.target].spec = cyc.validated]
        /\ ~obj.spec.dryRun
    BY <2>1 DEF Actuate, Patched, ghostVars
  <2>3. d = obj.spec.target /\ dep'[d].spec = cyc.validated
    BY <2>2 DEF TypeInv, TypeOK, WorldTypes, WorkloadStates
  <2>4. /\ cyc.validated = ValidatedReplicas(cyc.dec, cyc.current, obj.spec)
        /\ cyc.dec.target \in Int
    BY DEF DecisionInv, ValidatedIsCurrent, Decided
  <2>5. ValidSpec(obj.spec) /\ obj.spec.min <= obj.spec.max
    BY DEF DecisionInv, SpecIsValid, ValidSpec, Guarded, Steps
  <2>6. obj.spec.min <= cyc.validated /\ cyc.validated <= obj.spec.max
    BY <2>4, <2>5, CycleNumbers, ValidatedWithinBounds
  <2> QED BY <2>2, <2>3, <2>5, <2>6
<1> QED BY <1>1, DecisionInvHolds, PTL DEF Spec, PatchesConform

-----------------------------------------------------------------------------
(* What each step does to the part of reconcileState decisions are made    *)
(* of.                                                                     *)
Reasons == <<cyc.current, cyc.sig, cyc.slosKnown, cyc.cand, cyc.ceiling>>

Thoughts == <<Reasons, cyc.dec, cyc.wc, cyc.est>>

SameThoughts(x, c) ==
  /\ x.current = c.current /\ x.sig = c.sig /\ x.slosKnown = c.slosKnown
  /\ x.cand = c.cand /\ x.ceiling = c.ceiling /\ x.dec = c.dec
  /\ x.wc = c.wc /\ x.est = c.est

LEMMA ThoughtsOfExits ==
  ASSUME NEW c \in Cycles, NEW e, NEW a, NEW h, NEW n
  PROVE  /\ SameThoughts([c EXCEPT !.exit = e], c)
         /\ SameThoughts([c EXCEPT !.exit = e, !.after = a], c)
         /\ SameThoughts([c EXCEPT !.held = h], c)
         /\ SameThoughts([c EXCEPT !.validated = n], c)
BY DEF Cycles, SameThoughts

(* The steps that decide nothing.                                          *)
LEMMA ThoughtlessSteps ==
  ASSUME TypeInv,
         \/ CheckCooldown \/ ValidateDecision \/ CheckCoordination
         \/ RecordAudit \/ Actuate \/ AddFinalizer
  PROVE  /\ UNCHANGED Thoughts
         /\ \/ pc' = "persistStatus"
            \/ pc = "ensureFinalizer" /\ pc' = "checkCooldown"
            \/ pc = "checkCooldown" /\ pc' = "collectSignals"
            \/ pc = "validateDecision" /\ pc' = "checkCoordination"
            \/ pc = "checkCoordination" /\ pc' = "actuate"
            \/ pc = "actuate" /\ pc' = "recordAudit"
<1>1. cyc \in Cycles
  BY DEF TypeInv, TypeOK, CycleTypes
<1>2. \E e, a, h, n : \/ cyc' = cyc
                       \/ cyc' = [cyc EXCEPT !.exit = e]
                       \/ cyc' = [cyc EXCEPT !.exit = e, !.after = a]
                       \/ cyc' = [cyc EXCEPT !.held = h]
                       \/ cyc' = [cyc EXCEPT !.validated = n]
  BY DEF CheckCooldown, ValidateDecision, CheckCoordination, RecordAudit,
         Actuate, AddFinalizer, FailUnanswered, Proceed, ShortCircuit, Fail, OnlyCycle
<1>3. UNCHANGED Thoughts
  <2>1. PICK c : c = cyc' /\ SameThoughts(c, cyc)
    <3>1. SameThoughts(cyc, cyc)
      BY DEF SameThoughts
    <3> QED BY <1>1, <1>2, <3>1, ThoughtsOfExits
  <2> QED BY <2>1 DEF SameThoughts, Thoughts, Reasons
<1>4. \/ pc' = "persistStatus"
      \/ pc = "ensureFinalizer" /\ pc' = "checkCooldown"
      \/ pc = "checkCooldown" /\ pc' = "collectSignals"
      \/ pc = "validateDecision" /\ pc' = "checkCoordination"
      \/ pc = "checkCoordination" /\ pc' = "actuate"
      \/ pc = "actuate" /\ pc' = "recordAudit"
  BY DEF CheckCooldown, ValidateDecision, CheckCoordination, RecordAudit,
         Actuate, AddFinalizer, FailUnanswered, Proceed, ShortCircuit, Fail, Goto
<1> QED BY <1>3, <1>4

LEMMA CollectSignalsEffect ==
  ASSUME TypeInv, CollectSignals
  PROVE  /\ UNCHANGED <<cyc.cand, cyc.ceiling, cyc.wc, cyc.est>>
         /\ pc = "collectSignals" /\ pc' \in {"fetchDecision", "persistStatus"}
<1>1. cyc \in Cycles
  BY DEF TypeInv, TypeOK, CycleTypes
<1> DEFINE bundle(n, s) == [cyc EXCEPT !.current = n, !.sig = s]
           Kept(x) == /\ x.cand = cyc.cand /\ x.ceiling = cyc.ceiling
                      /\ x.wc = cyc.wc /\ x.est = cyc.est
<1>2. \A n, s, a :
        /\ Kept(bundle(n, s))
        /\ Kept([bundle(n, s) EXCEPT !.exit = "result", !.after = a])
  BY <1>1 DEF Cycles
<1>3. PICK n, s, a :
        \/ Fail
        \/ /\ cyc' = [bundle(n, s) EXCEPT !.exit = "result", !.after = a]
           /\ pc' = "persistStatus"
        \/ cyc' = bundle(n, s) /\ pc' = "fetchDecision"
  BY DEF CollectSignals, Goto, Proceed
<1>4. pc = "collectSignals"
  BY DEF CollectSignals
<1>5. CASE Fail
  <2>1. cyc' = [cyc EXCEPT !.exit = "error"] /\ pc' = "persistStatus"
    BY <1>5 DEF Fail, Goto
  <2> QED BY <1>1, <1>4, <2>1 DEF Cycles
<1> HIDE DEF bundle, Kept
<1>6. CASE ~Fail
  <2>1. PICK c : c = cyc' /\ Kept(c)
    BY <1>2, <1>3, <1>6
  <2> QED BY <1>3, <1>4, <1>6, <2>1 DEF Kept
<1> QED BY <1>5, <1>6

LEMMA FetchDecisionEffect ==
  ASSUME TypeInv, FetchDecision
  PROVE  /\ UNCHANGED <<cyc.current, cyc.ceiling, cyc.wc, cyc.est>>
         /\ \A l \in {"safety", "human", "schedule", "slo"} :
              cyc'.cand[l] = cyc.cand[l]
         /\ pc = "fetchDecision" /\ pc' \in {"checkOscillation", "persistStatus"}
<1>1. cyc \in Cycles /\ cyc.cand \in [Layers -> CandidateType]
  BY DEF TypeInv, TypeOK, CycleTypes, Cycles
<1> DEFINE advised == AdvisedCandidates
           rules == [cyc EXCEPT !.cand = advised]
           judged == [rules EXCEPT !.slosKnown = obj.spec.slos]
           Kept(cand) == \A l \in {"safety", "human", "schedule", "slo"} :
                           cand[l] = cyc.cand[l]
           Like(x, cand) == /\ x.current = cyc.current /\ x.ceiling = cyc.ceiling
                            /\ x.wc = cyc.wc /\ x.est = cyc.est
                            /\ x.cand = cand
<1>2. Kept(advised) /\ advised \in [Layers -> CandidateType]
  BY <1>1, AdvisedType DEF AdvisedCandidates, Layers
<1>3. \A answer : Kept(WithAnswer(advised, answer))
  BY <1>2 DEF WithAnswer, Layers
<1>4. /\ Like(rules, advised) /\ Like(judged, advised)
      /\ Like([judged EXCEPT !.exit = "error"], advised)
      /\ \A cand : Like([judged EXCEPT !.cand = cand], cand)
  BY <1>1 DEF Cycles
<1>5. pc = "fetchDecision" /\ pc' \in {"checkOscillation", "persistStatus"}
  BY DEF FetchDecision, Proceed, Goto
<1>6. PICK answer :
        \/ cyc' = rules
        \/ cyc' = judged
        \/ cyc' = [judged EXCEPT !.exit = "error"]
        \/ cyc' = [judged EXCEPT !.cand = WithAnswer(advised, answer)]
  BY DEF FetchDecision, Proceed
<1> HIDE DEF advised, rules, judged, Kept
<1> HIDE DEF Like
<1>7. PICK c, cand : c = cyc' /\ Like(c, cand) /\ Kept(cand)
  BY <1>2, <1>3, <1>4, <1>6
<1>8. UNCHANGED <<cyc.current, cyc.ceiling, cyc.wc, cyc.est>>
  BY <1>7 DEF Like
<1> QED BY <1>5, <1>7, <1>8 DEF Kept, Like

LEMMA SpokenDecisions ==
  ASSUME cyc \in Cycles
  PROVE  /\ \A c : Hold(c) # NoDecision /\ Hold(c).target = cyc.current
         /\ \A t \in Int : Sure(t) # NoDecision /\ Sure(t).target = t
BY NoTargetAssumption DEF Cycles, Hold, Sure, NoDecision

LEMMA CandidateReplaced ==
  ASSUME cyc \in Cycles, NEW l \in Layers, NEW d
  PROVE  LET c == [cyc EXCEPT !.cand[l] = d]
         IN  /\ c.current = cyc.current /\ c.sig = cyc.sig
             /\ c.slosKnown = cyc.slosKnown /\ c.ceiling = cyc.ceiling
             /\ c.dec = cyc.dec /\ c.wc = cyc.wc /\ c.est = cyc.est
             /\ c.cand[l] = d
             /\ \A k \in Layers \ {l} : c.cand[k] = cyc.cand[k]
BY DEF Cycles

(* checkOscillation and checkRollback decide what safety wants.            *)
LEMMA CheckOscillationEffect ==
  ASSUME TypeInv, CheckOscillation
  PROVE  /\ UNCHANGED <<cyc.current, cyc.ceiling, cyc.wc, cyc.est>>
         /\ \A l \in Layers \ {"safety"} : cyc'.cand[l] = cyc.cand[l]
         /\ cyc'.cand["safety"] = IF Has("oscillation") /\ IsOscillating(events, Window)
                                  THEN Hold(MaxConf) ELSE cyc.cand["safety"]
         /\ pc = "checkOscillation" /\ pc' = "checkRollback"
<1>1. cyc \in Cycles /\ "safety" \in Layers
  BY DEF TypeInv, TypeOK, CycleTypes, Layers
<1>2. /\ pc = "checkOscillation" /\ pc' = "checkRollback"
      /\ cyc' = IF Has("oscillation") /\ IsOscillating(events, Window)
                THEN [cyc EXCEPT !.cand["safety"] = Hold(MaxConf)] ELSE cyc
  BY DEF CheckOscillation, Proceed, Goto
<1>3. CASE Has("oscillation") /\ IsOscillating(events, Window)
  <2>1. PICK c : c = cyc' /\ c = [cyc EXCEPT !.cand["safety"] = Hold(MaxConf)]
    BY <1>2, <1>3
  <2>2. /\ c.current = cyc.current /\ c.ceiling = cyc.ceiling
        /\ c.wc = cyc.wc /\ c.est = cyc.est
        /\ c.cand["safety"] = Hold(MaxConf)
        /\ \A l \in Layers \ {"safety"} : c.cand[l] = cyc.cand[l]
    BY <1>1, <2>1, CandidateReplaced
  <2> QED BY <1>2, <1>3, <2>1, <2>2
<1>4. CASE ~(Has("oscillation") /\ IsOscillating(events, Window))
  BY <1>2, <1>4
<1> QED BY <1>3, <1>4

(* A live scaling to the present count.                                    *)
LedHere(r) == r.prev # r.new /\ ~r.dry /\ r.new = cyc.current

LEMMA CheckRollbackEffect ==
  ASSUME TypeInv, CheckRollback
  PROVE  /\ UNCHANGED <<cyc.current, cyc.ceiling, cyc.wc, cyc.est>>
         /\ \A l \in Layers \ {"safety"} : cyc'.cand[l] = cyc.cand[l]
         /\ \/ cyc'.cand["safety"] = cyc.cand["safety"]
            \/ /\ cyc'.cand["safety"] # NoDecision
               /\ \E i \in DOMAIN ListedRecords :
                    /\ i <= ListLimit
                    /\ ListedRecords[i].prev = cyc'.cand["safety"].target
                    /\ ListedRecords[i].new = cyc.current
                    /\ ~ListedRecords[i].dry
                    /\ LedHere(ListedRecords[i])
                    /\ \A j \in DOMAIN ListedRecords :
                         j < i => ~LedHere(ListedRecords[j])
         /\ pc = "checkRollback" /\ pc' = "resolveTentative"
<1>1. cyc \in Cycles /\ "safety" \in Layers
  BY DEF TypeInv, TypeOK, CycleTypes, Layers
<1> DEFINE w == Workload[obj.spec.target]
           records == List(w)
           found == RollbackCandidates(records, cyc.current)
           first == CHOOSE i \in found : \A j \in found : i <= j
           back == [cyc EXCEPT !.cand["safety"] = Sure(records[first].prev)]
<1>2. /\ pc = "checkRollback" /\ pc' = "resolveTentative"
      /\ cyc' = cyc \/ (found # {} /\ cyc' = back)
  BY DEF CheckRollback, Proceed, Goto
<1>3. CASE cyc' = cyc
  BY <1>2, <1>3
<1>4. CASE found # {} /\ cyc' = back
  <2>1. auditSeen[w] \in Seq(Records) /\ ListedRecords = auditSeen[w]
    <3>1. w \in Workloads
      BY SpecFields DEF TypeInv, TypeOK, CycleTypes, Objects, Workloads
    <3> QED BY <3>1 DEF TypeInv, TypeOK, MemoryTypes, ListedRecords
  <2>2. /\ records \in Seq(Records)
        /\ \A i \in 1..Len(records) :
             /\ i \in DOMAIN ListedRecords /\ i <= ListLimit
             /\ records[i] = ListedRecords[i]
        /\ DOMAIN ListedRecords \subseteq Nat \ {0} /\ Len(records) \in Nat
    <3> DEFINE a == auditSeen[w]
               n == IF Len(a) < ListLimit THEN Len(a) ELSE ListLimit
    <3>1. n \in Nat /\ n <= Len(a) /\ n <= ListLimit
      BY <2>1 DEF ListLimit
    <3>2. records = SubSeq(a, 1, n)
      BY DEF List
    <3> HIDE DEF n, records
    <3>3. /\ records \in Seq(Records) /\ Len(records) = n
          /\ \A i \in 1..n : records[i] = a[i]
      BY <2>1, <3>1, <3>2, SubSeqProperties
    <3>4. DOMAIN a = 1..Len(a) /\ Len(a) \in Nat /\ ListedRecords = a
      BY <2>1
    <3> HIDE DEF a
    <3> QED BY <3>1, <3>3, <3>4 DEF ListLimit
  <2>3. first \in found /\ \A j \in found : first <= j
    <3>1. found \in SUBSET Nat
      BY <2>2 DEF RollbackCandidates
    <3>2. \E i \in found : \A j \in found : i <= j
      BY <1>4, <3>1, NatMinimum
    <3> QED BY <3>2
  <2>4. /\ first \in DOMAIN ListedRecords /\ first <= ListLimit
        /\ records[first] = ListedRecords[first]
        /\ ListedRecords[first].new = cyc.current /\ ~ListedRecords[first].dry
        /\ LedHere(ListedRecords[first])
        /\ records[first].prev \in Int
    <3> HIDE DEF first, records
    <3>1. /\ first \in 1..Len(records) /\ ~records[first].dry
          /\ records[first].new = cyc.current /\ LedHere(records[first])
      BY <2>3 DEF RollbackCandidates, LedHere
    <3>2. records[first] = ListedRecords[first] /\ records[first] \in Records
      BY <2>2, <3>1
    <3>3. ~ListedRecords[first].dry
      BY <3>1, <3>2, Zenon
    <3> QED BY <2>2, <3>1, <3>2, <3>3 DEF Records
  <2>5. \A j \in DOMAIN ListedRecords : j < first => ~LedHere(ListedRecords[j])
    <3>1. first \in 1..Len(records) /\ \A j \in found : first <= j
      BY <2>3 DEF RollbackCandidates
    <3> HIDE DEF first
    <3> SUFFICES ASSUME NEW j \in DOMAIN ListedRecords, j < first,
                        LedHere(ListedRecords[j])
                 PROVE  FALSE
      OBVIOUS
    <3>2. j \in 1..Len(records)
      BY <2>2, <3>1
    <3>3. LedHere(records[j])
      BY <2>2, <3>2
    <3>4. j \in found
      BY <3>2, <3>3 DEF LedHere, RollbackCandidates
    <3> QED BY <2>2, <3>1, <3>2, <3>4
  <2>6. PICK c : c = cyc' /\ c = back
    BY <1>4
  <2> DEFINE d == Sure(records[first].prev)
  <2>7. d # NoDecision /\ d.target = ListedRecords[first].prev
    <3> HIDE DEF first, records
    <3> QED BY <1>1, <2>4, SpokenDecisions
  <2>8. /\ c.current = cyc.current /\ c.ceiling = cyc.ceiling
        /\ c.wc = cyc.wc /\ c.est = cyc.est /\ c.cand["safety"] = d
        /\ \A l \in Layers \ {"safety"} : c.cand[l] = cyc.cand[l]
    BY <1>1, <2>6, CandidateReplaced
  <2> HIDE DEF d, first, back
  <2> QED BY <1>2, <2>4, <2>5, <2>6, <2>7, <2>8
<1> QED BY <1>2, <1>3, <1>4

(* resolveTentative, estimateCost, checkApproval and resolveFinal.         *)
LEMMA ResolveTentativeEffect ==
  ASSUME TypeInv, ResolveTentative
  PROVE  /\ UNCHANGED <<Reasons, cyc.wc, cyc.est>>
         /\ cyc'.dec = Resolved(FALSE, FALSE)
         /\ pc = "resolveTentative" /\ pc' = "estimateCost"
<1>1. cyc \in Cycles
  BY DEF TypeInv, TypeOK, CycleTypes
<1> DEFINE d == Resolved(FALSE, FALSE)
<1>2. /\ pc = "resolveTentative" /\ pc' = "estimateCost"
      /\ cyc' = [cyc EXCEPT !.dec = d]
  BY DEF ResolveTentative, Proceed, Goto
<1> HIDE DEF d
<1>3. UNCHANGED <<Reasons, cyc.wc, cyc.est>> /\ cyc'.dec = d
  BY <1>1, <1>2 DEF Cycles, Reasons
<1> QED BY <1>2, <1>3 DEF d

(* An estimate that finds the limits exceeded makes a ceiling.             *)
LEMMA EstimateCostEffect ==
  ASSUME TypeInv, EstimateCost
  PROVE  /\ UNCHANGED <<cyc.current, cyc.sig, cyc.slosKnown, cyc.cand, cyc.dec>>
         /\ \/ UNCHANGED <<cyc.wc, cyc.est, cyc.ceiling>>
            \/ /\ cyc.current <= 0 /\ UNCHANGED <<cyc.est, cyc.ceiling>>
            \/ /\ cyc'.wc \in Nat /\ cyc.current > 0
               /\ LET over == obj.spec.hard
                              /\ OverBudget(obj.spec, cyc'.wc, cyc.current,
                                            cyc.dec.target)
                  IN  cyc'.ceiling =
                        IF ~over THEN NoTarget
                        ELSE IF CostCeiling(obj.spec, cyc'.wc, cyc.current)
                                  = NoTarget THEN cyc.current
                        ELSE CostCeiling(obj.spec, cyc'.wc, cyc.current)
         /\ pc = "estimateCost" /\ pc' = "checkApproval"
<1>1. cyc \in Cycles
  BY DEF TypeInv, TypeOK, CycleTypes
<1>2. pc = "estimateCost" /\ pc' = "checkApproval"
  BY DEF EstimateCost, Proceed, Goto
<1>3. CASE cyc' = cyc
  BY <1>2, <1>3
<1>4. CASE cyc' # cyc
  <2> DEFINE over(c) == obj.spec.hard
                        /\ OverBudget(obj.spec, c, cyc.current, cyc.dec.target)
             cap(c) == CostCeiling(obj.spec, c, cyc.current)
             ceiling(c) == IF ~over(c) THEN NoTarget
                           ELSE IF cap(c) = NoTarget THEN cyc.current ELSE cap(c)
  <2>1. PICK c \in Costs :
          cyc' = IF cyc.current <= 0 THEN [cyc EXCEPT !.wc = c]
                 ELSE [cyc EXCEPT !.wc = c, !.est = cyc.dec.target,
                                  !.ceiling = ceiling(c)]
    BY <1>4 DEF EstimateCost, Proceed
  <2>2. c \in Nat /\ cyc.current \in Nat
    BY <1>1, ReconcilerAssumption DEF Cycles
  <2> DEFINE k == ceiling(c)
  <2>3. cyc' = IF cyc.current <= 0 THEN [cyc EXCEPT !.wc = c]
               ELSE [cyc EXCEPT !.wc = c, !.est = cyc.dec.target, !.ceiling = k]
    BY <2>1
  <2> HIDE DEF k
  <2>4. /\ UNCHANGED <<cyc.current, cyc.sig, cyc.slosKnown, cyc.cand, cyc.dec>>
        /\ cyc'.wc = c
        /\ cyc.current <= 0 => UNCHANGED <<cyc.est, cyc.ceiling>>
        /\ cyc.current > 0 => cyc'.ceiling = k
    BY <1>1, <2>2, <2>3 DEF Cycles
  <2> QED BY <1>2, <2>2, <2>4 DEF k
<1> QED BY <1>3, <1>4

LEMMA CheckApprovalEffect ==
  ASSUME TypeInv, CheckApproval
  PROVE  /\ UNCHANGED <<cyc.current, cyc.sig, cyc.slosKnown, cyc.ceiling, cyc.dec,
                        cyc.wc, cyc.est>>
         /\ \A l \in Layers \ {"human"} : cyc'.cand[l] = cyc.cand[l]
         /\ \/ cyc'.cand["human"] = cyc.cand["human"]
            \/ cyc'.cand["human"].target = cyc.current
         /\ pc = "checkApproval" /\ pc' = "resolveFinal"
<1>1. cyc \in Cycles /\ "human" \in Layers
  BY DEF TypeInv, TypeOK, CycleTypes, Layers
<1>2. /\ pc = "checkApproval" /\ pc' = "resolveFinal"
      /\ \/ cyc' = cyc
         \/ cyc' = [cyc EXCEPT !.cand["human"] = Hold(cyc.dec.conf)]
  BY DEF CheckApproval, Proceed, Goto
<1>3. CASE cyc' = cyc
  BY <1>2, <1>3
<1>4. CASE cyc' = [cyc EXCEPT !.cand["human"] = Hold(cyc.dec.conf)]
  <2>1. PICK c : c = cyc' /\ c = [cyc EXCEPT !.cand["human"] = Hold(cyc.dec.conf)]
    BY <1>4
  <2>2. /\ c.current = cyc.current /\ c.sig = cyc.sig
        /\ c.slosKnown = cyc.slosKnown /\ c.ceiling = cyc.ceiling
        /\ c.dec = cyc.dec /\ c.wc = cyc.wc /\ c.est = cyc.est
        /\ c.cand["human"] = Hold(cyc.dec.conf)
        /\ \A l \in Layers \ {"human"} : c.cand[l] = cyc.cand[l]
    BY <1>1, <2>1, CandidateReplaced
  <2> QED BY <1>1, <1>2, <2>1, <2>2, SpokenDecisions
<1> QED BY <1>2, <1>3, <1>4

LEMMA ResolveFinalEffect ==
  ASSUME TypeInv, ResolveFinal
  PROVE  /\ UNCHANGED <<Reasons, cyc.wc>>
         /\ cyc'.dec = Resolved(TRUE, TRUE)
         /\ pc = "resolveFinal"
         /\ \/ pc' = "persistStatus"
            \/ /\ pc' = "validateDecision"
               /\ ~(cyc.wc # NoTarget /\ cyc.current <= 0)
               /\ cyc.wc = NoTarget => UNCHANGED cyc.est
<1>1. cyc \in Cycles
  BY DEF TypeInv, TypeOK, CycleTypes
<1> DEFINE d == Resolved(TRUE, TRUE)
<1>2. /\ pc = "resolveFinal"
      /\ \/ pc' = "persistStatus" /\ cyc' = [cyc EXCEPT !.dec = d, !.exit = "error"]
         \/ /\ pc' = "validateDecision"
            /\ ~(cyc.wc # NoTarget /\ cyc.current <= 0)
            /\ cyc' = [cyc EXCEPT !.dec = d,
                                  !.est = IF cyc.wc = NoTarget THEN cyc.est
                                          ELSE d.target]
  BY <1>1 DEF ResolveFinal, Proceed, Goto, Cycles
<1> HIDE DEF d
<1>3. UNCHANGED <<Reasons, cyc.wc>> /\ cyc'.dec = d
  BY <1>1, <1>2 DEF Cycles, Reasons
<1>4. pc' = "validateDecision" /\ cyc.wc = NoTarget => UNCHANGED cyc.est
  BY <1>1, <1>2 DEF Cycles
<1> QED BY <1>2, <1>3, <1>4 DEF d

-----------------------------------------------------------------------------
(* The resolution depends on nothing else.                                 *)
LEMMA ResolutionKept ==
  ASSUME UNCHANGED Reasons, obj'.spec = obj.spec
  PROVE  Resolved(TRUE, TRUE)' = Resolved(TRUE, TRUE)
BY DEF Reasons, Resolved, Inputs, SLODecision, SLOBreached, Raise, Hold, Sure

(* The count the tentative resolution comes to.                            *)
TentativeTarget ==
  LET wants == Wants(Inputs(FALSE))
  IN  IF Present(wants) = {} THEN cyc.current
      ELSE Resolve(wants, NoTarget, obj.spec.min, obj.spec.max, FlagsOf(obj.spec))

LEMMA TentativeUnmoved ==
  ASSUME cyc \in Cycles, cyc' \in Cycles, obj'.spec = obj.spec,
         UNCHANGED <<cyc.current, cyc.sig, cyc.slosKnown>>,
         \A l \in Layers \ {"human"} : cyc'.cand[l] = cyc.cand[l]
  PROVE  TentativeTarget' = TentativeTarget
<1>1. SLODecision' = SLODecision
  BY DEF SLODecision, SLOBreached, Raise, Sure, Layers
<1>2. Inputs(FALSE)' = Inputs(FALSE)
  <2>1. cyc.cand \in [Layers -> CandidateType] /\ cyc'.cand \in [Layers -> CandidateType]
    BY DEF Cycles
  <2>2. [cyc'.cand EXCEPT !["slo"] = SLODecision, !["human"] = NoDecision]
          = [cyc.cand EXCEPT !["slo"] = SLODecision, !["human"] = NoDecision]
    BY <2>1
  <2> QED BY <1>1, <2>2 DEF Inputs
<1> QED BY <1>2 DEF TentativeTarget, Wants

-----------------------------------------------------------------------------
(* The steps that are no deliberation begin a cycle, end it or leave its   *)
(* thoughts alone.                                                         *)
NothingThought == /\ cyc.cand = NoCandidates /\ cyc.wc = NoTarget
                  /\ cyc.est = NoTarget /\ cyc.ceiling = NoTarget

LEMMA OtherSteps ==
  ASSUME TypeInv, [Next]_vars, ~Deliberation
  PROVE  \/ pc' \in {"idle", "ensureFinalizer"} /\ NothingThought'
         \/ pc' = "persistStatus" /\ UNCHANGED Thoughts
         \/ pc = "ensureFinalizer" /\ pc' = "checkCooldown" /\ UNCHANGED Thoughts
         \/ pc = "actuate" /\ pc' = "recordAudit" /\ UNCHANGED Thoughts
         \/ UNCHANGED <<Thoughts, pc>> /\ obj'.spec = obj.spec
<1>1. cyc \in Cycles
  BY DEF TypeInv, TypeOK, CycleTypes
<1>2. /\ cyc' = NewCycle => NothingThought'
      /\ \A b : cyc' = [NewCycle EXCEPT !.wasSynced = b] => NothingThought'
  BY DEF NewCycle, NothingThought
<1>3. cyc' = cyc \/ cyc' = [cyc EXCEPT !.exit = "error"] => UNCHANGED Thoughts
  BY <1>1 DEF Cycles, Thoughts, Reasons
<1>4. ASSUME NEW p \in Policies, Dequeue(p)
      PROVE  \/ pc' = "ensureFinalizer" /\ NothingThought'
             \/ UNCHANGED <<Thoughts, pc>> /\ obj'.spec = obj.spec
  BY <1>2, <1>3, <1>4 DEF Dequeue
<1>5. ReleaseFinalizer \/ RejectSpec \/ PersistStatus
        => \/ pc' = "idle" /\ NothingThought'
           \/ pc' = "persistStatus" /\ UNCHANGED Thoughts
  BY <1>2, <1>3 DEF ReleaseFinalizer, RejectSpec, FailUnanswered, PersistStatus, Return, Fail, Goto
<1>6. CASE AddFinalizer \/ Actuate
  <2>1. \/ pc' = "persistStatus"
        \/ pc = "ensureFinalizer" /\ pc' = "checkCooldown"
        \/ pc = "actuate" /\ pc' = "recordAudit"
    BY <1>6 DEF AddFinalizer, FailUnanswered, Actuate, Proceed, Fail, Goto
  <2> QED BY <1>6, <2>1, ThoughtlessSteps
<1>7. Environment \/ User \/ UNCHANGED vars
        => UNCHANGED <<Thoughts, pc>> /\ obj'.spec = obj.spec
  <2>1. Aged(obj).spec = obj.spec
    BY DEF Aged, TypeInv, TypeOK, CycleTypes, Objects
  <2>2. Environment \/ User \/ UNCHANGED vars
          => UNCHANGED <<cyc, pc>> /\ obj'.spec = obj.spec
    BY <2>1 DEF Environment, User, SyncPolicy, TimerFires, SyncDeployment,
                SyncAudit, Rollout, Tick, EditSpec, DeletePolicy, WrittenByUser,
                ScaleExternally, Freeze, DeploymentWritten, vars, cycVars
  <2> QED BY <1>3, <2>2
<1>8. Restart => pc' = "idle" /\ NothingThought'
  BY <1>2 DEF Restart
<1> QED BY <1>4, <1>5, <1>6, <1>7, <1>8 DEF Next, Worker, Deliberation

-----------------------------------------------------------------------------
(* Who has spoken at which step.                                           *)
BeforeAnswer == {"idle", "ensureFinalizer", "checkCooldown", "collectSignals",
                 "fetchDecision"}

Final == {"validateDecision", "checkCoordination", "actuate"}

AfterApproval == Final \cup {"resolveFinal", "recordAudit", "persistStatus"}

SafetyInTurn ==
  /\ pc \in BeforeAnswer => cyc.cand = NoCandidates
  /\ pc = "checkOscillation" => cyc.cand["safety"] = NoDecision

ScheduleIsSilent == cyc.cand["schedule"] = NoDecision

(* A human who speaks asks for the present count.                          *)
HumanHolds ==
  cyc.cand["human"] # NoDecision
    => cyc.cand["human"].target = cyc.current /\ pc \in AfterApproval

OpinionInv == SafetyInTurn /\ ScheduleIsSilent /\ HumanHolds

LEMMA NobodySpoke ==
  ASSUME cyc.cand = NoCandidates
  PROVE  /\ ScheduleIsSilent /\ HumanHolds /\ cyc.cand["safety"] = NoDecision
BY DEF NoCandidates, Layers, ScheduleIsSilent, HumanHolds

LEMMA OpinionKept ==
  ASSUME OpinionInv, UNCHANGED Thoughts,
         pc' \in BeforeAnswer => pc \in BeforeAnswer,
         pc' = "checkOscillation" => pc = "checkOscillation",
         pc \in AfterApproval => pc' \in AfterApproval
  PROVE  OpinionInv'
BY DEF Thoughts, Reasons, OpinionInv, SafetyInTurn, ScheduleIsSilent, HumanHolds

LEMMA OpinionStep == TypeInv /\ OpinionInv /\ [Next]_vars => OpinionInv'
<1> SUFFICES ASSUME TypeInv, OpinionInv, [Next]_vars PROVE OpinionInv'
  OBVIOUS
<1> USE DEF BeforeAnswer, AfterApproval, Final
<1>1. CASE ~Deliberation
  <2>1. CASE NothingThought'
    <3>1. cyc'.cand = NoCandidates
      BY <2>1 DEF NothingThought
    <3>2. /\ cyc'.cand["schedule"] = NoDecision /\ cyc'.cand["human"] = NoDecision
          /\ cyc'.cand["safety"] = NoDecision
      BY <3>1 DEF NoCandidates, Layers
    <3> QED BY <3>1, <3>2 DEF OpinionInv, SafetyInTurn, ScheduleIsSilent, HumanHolds
  <2>2. CASE ~NothingThought'
    BY <1>1, <2>2, OtherSteps, OpinionKept
  <2> QED BY <2>1, <2>2
<1>2. CASE CheckCooldown \/ ValidateDecision \/ CheckCoordination \/ RecordAudit
  BY <1>2, ThoughtlessSteps, OpinionKept
<1>3. CASE CollectSignals
  <2>1. /\ pc = "collectSignals" /\ pc' \in {"fetchDecision", "persistStatus"}
        /\ cyc'.cand = cyc.cand
    BY <1>3, CollectSignalsEffect
  <2>2. cyc.cand = NoCandidates
    BY <2>1 DEF OpinionInv, SafetyInTurn
  <2>3. cyc'.cand["schedule"] = NoDecision /\ cyc'.cand["human"] = NoDecision
    BY <2>1, <2>2 DEF NoCandidates, Layers
  <2> QED BY <2>1, <2>2, <2>3 DEF OpinionInv, SafetyInTurn, ScheduleIsSilent, HumanHolds
<1>4. CASE FetchDecision
  <2>1. /\ pc = "fetchDecision" /\ pc' \in {"checkOscillation", "persistStatus"}
        /\ \A l \in {"safety", "human", "schedule", "slo"} :
             cyc'.cand[l] = cyc.cand[l]
    BY <1>4, FetchDecisionEffect
  <2>2. cyc.cand = NoCandidates
    BY <2>1 DEF OpinionInv, SafetyInTurn
  <2>3. /\ cyc'.cand["schedule"] = NoDecision /\ cyc'.cand["human"] = NoDecision
        /\ cyc'.cand["safety"] = NoDecision
    BY <2>1, <2>2 DEF NoCandidates, Layers
  <2> QED BY <2>1, <2>3 DEF OpinionInv, SafetyInTurn, ScheduleIsSilent, HumanHolds
<1>5. CASE CheckOscillation \/ CheckRollback
  <2>1. /\ pc \in {"checkOscillation", "checkRollback"}
        /\ pc' \in {"checkRollback", "resolveTentative"}
        /\ \A l \in Layers \ {"safety"} : cyc'.cand[l] = cyc.cand[l]
    BY <1>5, CheckOscillationEffect, CheckRollbackEffect
  <2>2. /\ cyc'.cand["schedule"] = cyc.cand["schedule"]
        /\ cyc'.cand["human"] = cyc.cand["human"]
    BY <2>1 DEF Layers
  <2> QED BY <2>1, <2>2 DEF OpinionInv, SafetyInTurn, ScheduleIsSilent, HumanHolds
<1>6. CASE ResolveTentative \/ EstimateCost
  <2>1. /\ pc \in {"resolveTentative", "estimateCost"}
        /\ pc' \in {"estimateCost", "checkApproval"}
        /\ cyc'.cand = cyc.cand
    BY <1>6, ResolveTentativeEffect, EstimateCostEffect DEF Reasons
  <2> QED BY <2>1 DEF OpinionInv, SafetyInTurn, ScheduleIsSilent, HumanHolds
<1>7. CASE CheckApproval
  <2>1. /\ pc = "checkApproval" /\ pc' = "resolveFinal"
        /\ UNCHANGED cyc.current
        /\ \/ cyc'.cand["human"] = cyc.cand["human"]
           \/ cyc'.cand["human"].target = cyc.current
        /\ cyc'.cand["schedule"] = cyc.cand["schedule"]
    BY <1>7, CheckApprovalEffect DEF Layers
  <2> QED BY <2>1 DEF OpinionInv, SafetyInTurn, ScheduleIsSilent, HumanHolds
<1>8. CASE ResolveFinal
  <2>1. /\ pc = "resolveFinal" /\ pc' \in {"persistStatus", "validateDecision"}
        /\ UNCHANGED <<cyc.current, cyc.cand>>
    BY <1>8, ResolveFinalEffect DEF Reasons
  <2> QED BY <2>1 DEF OpinionInv, SafetyInTurn, ScheduleIsSilent, HumanHolds
<1> QED
  BY <1>1, <1>2, <1>3, <1>4, <1>5, <1>6, <1>7, <1>8 DEF Deliberation

LEMMA OpinionInvHolds == Spec => [](TypeInv /\ DecisionInv /\ OpinionInv)
<1>1. Init => OpinionInv
  <2>1. Init => pc = "idle" /\ cyc.cand = NoCandidates
    <3>1. NewCycle.cand = NoCandidates
      BY DEF NewCycle
    <3> QED BY <3>1 DEF Init
  <2>2. NoCandidates["schedule"] = NoDecision /\ NoCandidates["human"] = NoDecision
    BY DEF NoCandidates, Layers
  <2> QED BY <2>1, <2>2 DEF OpinionInv, SafetyInTurn, ScheduleIsSilent, HumanHolds
<1>2. Spec => [](TypeInv /\ DecisionInv)
  BY DecisionInvHolds
<1>3. Spec => []OpinionInv
  BY <1>1, <1>2, OpinionStep, PTL DEF Spec
<1> QED BY <1>2, <1>3, PTL

-----------------------------------------------------------------------------
(* What the cycle knows of the cost at which step.                         *)
BeforePrice == BeforeAnswer \cup {"checkOscillation", "checkRollback",
                                  "resolveTentative", "estimateCost"}

Priced == Final \cup {"checkApproval", "resolveFinal"}

Unpriced ==
  pc \in BeforePrice
    => cyc.wc = NoTarget /\ cyc.est = NoTarget /\ cyc.ceiling = NoTarget

TentativeKept == pc = "estimateCost" => cyc.dec.target = TentativeTarget

FinalIsResolved == pc \in Final => cyc.dec = Resolved(TRUE, TRUE)

(* resolveFinalDecision lets no estimate for a workload without replicas   *)
(* pass.                                                                   *)
PricedFinally == pc \in Final /\ cyc.est # NoTarget => cyc.current > 0

(* With a known cost, under hard enforcement, there is a ceiling or the    *)
(* tentative decision, which a hold of a human does not move, is paid for. *)
CeilingOrCovered ==
  pc \in Priced /\ cyc.wc # NoTarget /\ cyc.current > 0 /\ obj.spec.hard
    => IF cyc.ceiling = NoTarget
       THEN ~OverBudget(obj.spec, cyc.wc, cyc.current, TentativeTarget)
       ELSE cyc.ceiling = CostCeiling(obj.spec, cyc.wc, cyc.current)

PriceInv == /\ Unpriced /\ TentativeKept /\ FinalIsResolved
            /\ PricedFinally /\ CeilingOrCovered

LEMMA PriceKept ==
  ASSUME TypeInv, TypeInv', PriceInv, UNCHANGED Thoughts, obj'.spec = obj.spec,
         pc' \in BeforePrice => pc \in BeforePrice,
         pc' = "estimateCost" => pc = "estimateCost",
         pc' \in Final => pc \in Final,
         pc' \in Priced => pc \in Priced
  PROVE  PriceInv'
<1>1. /\ TentativeTarget' = TentativeTarget
      /\ Resolved(TRUE, TRUE)' = Resolved(TRUE, TRUE)
  BY TentativeUnmoved, ResolutionKept
  DEF Thoughts, Reasons, TypeInv, TypeOK, CycleTypes
<1> QED
  BY <1>1 DEF Thoughts, Reasons, PriceInv, Unpriced, TentativeKept,
              FinalIsResolved, PricedFinally, CeilingOrCovered

(* Before a price is asked for only the tentative decision matters.        *)
LEMMA StillUnpriced ==
  ASSUME PriceInv, pc \in BeforePrice, UNCHANGED <<cyc.wc, cyc.est, cyc.ceiling>>,
         pc' \in (BeforePrice \ {"estimateCost"}) \cup {"persistStatus"}
  PROVE  PriceInv'
BY DEF PriceInv, Unpriced, TentativeKept, FinalIsResolved, PricedFinally,
       CeilingOrCovered, BeforePrice, BeforeAnswer, Priced, Final

LEMMA ResolveTentativePrice ==
  ASSUME TypeInv, TypeInv', OpinionInv, PriceInv, ResolveTentative,
         obj' = obj
  PROVE  PriceInv'
<1>1. /\ UNCHANGED <<Reasons, cyc.wc, cyc.est>>
      /\ cyc'.dec = Resolved(FALSE, FALSE)
      /\ pc = "resolveTentative" /\ pc' = "estimateCost"
  BY ResolveTentativeEffect
<1>2. cyc.cand["human"] = NoDecision
  BY <1>1 DEF OpinionInv, HumanHolds, AfterApproval, Final
<1>3. Resolved(FALSE, FALSE).target = TentativeTarget
  BY <1>2 DEF Resolved, TentativeTarget, Hold
<1>4. TentativeTarget' = TentativeTarget
  BY <1>1, TentativeUnmoved DEF Reasons, TypeInv, TypeOK, CycleTypes
<1>5. Unpriced' /\ TentativeKept'
  BY <1>1, <1>3, <1>4
  DEF PriceInv, Unpriced, TentativeKept, Reasons, BeforePrice, BeforeAnswer
<1> QED
  BY <1>1, <1>5 DEF PriceInv, FinalIsResolved, PricedFinally, CeilingOrCovered,
                    Final, Priced

LEMMA EstimateCostPrice ==
  ASSUME TypeInv, TypeInv', PriceInv, EstimateCost, obj' = obj
  PROVE  PriceInv'
<1>1. /\ UNCHANGED <<cyc.current, cyc.sig, cyc.slosKnown, cyc.cand, cyc.dec>>
      /\ pc = "estimateCost" /\ pc' = "checkApproval"
  BY EstimateCostEffect
<1>2. TentativeTarget' = TentativeTarget
  BY <1>1, TentativeUnmoved DEF TypeInv, TypeOK, CycleTypes
<1>3. cyc.wc = NoTarget /\ cyc.dec.target = TentativeTarget
  BY <1>1 DEF PriceInv, Unpriced, TentativeKept, BeforePrice
<1>4. CeilingOrCovered'
  <2> SUFFICES ASSUME cyc'.wc # NoTarget, cyc'.current > 0, obj'.spec.hard
               PROVE  IF cyc'.ceiling = NoTarget
                      THEN ~OverBudget(obj'.spec, cyc'.wc, cyc'.current,
                                       TentativeTarget')
                      ELSE cyc'.ceiling = CostCeiling(obj'.spec, cyc'.wc,
                                                      cyc'.current)
    BY DEF CeilingOrCovered
  <2>1. cyc.current \in Nat /\ obj.spec.hard
    BY DEF TypeInv, TypeOK, CycleTypes, Cycles
  <2> DEFINE over == OverBudget(obj.spec, cyc'.wc, cyc.current, cyc.dec.target)
             cap == CostCeiling(obj.spec, cyc'.wc, cyc.current)
  <2>2. /\ cyc'.wc \in Nat
        /\ cyc'.ceiling = IF ~over THEN NoTarget
                          ELSE IF cap = NoTarget THEN cyc.current ELSE cap
    BY <1>1, <1>3, <2>1, EstimateCostEffect
  <2>3. over => cap # NoTarget
    <3>1. cyc.dec.target \in Int
      BY <1>1 DEF TypeInv, Progress
    <3>2. obj.spec.min \in Nat /\ obj.spec.maxHourly \in Nat
          /\ obj.spec.maxMonthly \in Nat
      BY SpecFields DEF TypeInv, TypeOK, CycleTypes, Objects, SpecType
    <3> QED BY <1>1, <2>1, <2>2, <3>1, <3>2, OverBudgetHasCeiling
  <2> QED BY <1>1, <1>2, <1>3, <2>2, <2>3
<1> QED
  BY <1>1, <1>4 DEF PriceInv, Unpriced, TentativeKept, FinalIsResolved,
                    PricedFinally, BeforePrice, BeforeAnswer, Final

LEMMA CheckApprovalPrice ==
  ASSUME TypeInv, TypeInv', PriceInv, CheckApproval, obj' = obj
  PROVE  PriceInv'
<1>1. /\ UNCHANGED <<cyc.current, cyc.sig, cyc.slosKnown, cyc.ceiling, cyc.dec,
                     cyc.wc, cyc.est>>
      /\ \A l \in Layers \ {"human"} : cyc'.cand[l] = cyc.cand[l]
      /\ pc = "checkApproval" /\ pc' = "resolveFinal"
  BY CheckApprovalEffect
<1>2. TentativeTarget' = TentativeTarget
  BY <1>1, TentativeUnmoved DEF TypeInv, TypeOK, CycleTypes
<1>3. CeilingOrCovered'
  BY <1>1, <1>2 DEF PriceInv, CeilingOrCovered, Priced
<1> QED
  BY <1>1, <1>3 DEF PriceInv, Unpriced, TentativeKept, FinalIsResolved,
                    PricedFinally, BeforePrice, BeforeAnswer, Final

LEMMA ResolveFinalPrice ==
  ASSUME TypeInv, TypeInv', PriceInv, ResolveFinal, obj' = obj
  PROVE  PriceInv'
<1>1. /\ UNCHANGED <<Reasons, cyc.wc>>
      /\ cyc'.dec = Resolved(TRUE, TRUE)
      /\ pc = "resolveFinal"
      /\ \/ pc' = "persistStatus"
         \/ pc' = "validateDecision" /\ ~(cyc.wc # NoTarget /\ cyc.current <= 0)
  BY ResolveFinalEffect
<1>2. /\ TentativeTarget' = TentativeTarget
      /\ Resolved(TRUE, TRUE)' = Resolved(TRUE, TRUE)
  BY <1>1, TentativeUnmoved, ResolutionKept DEF Reasons, TypeInv, TypeOK, CycleTypes
<1>3. CeilingOrCovered'
  BY <1>1, <1>2 DEF PriceInv, CeilingOrCovered, Priced, Final, Reasons
<1>4. PricedFinally'
  <2>1. cyc'.est # NoTarget => cyc'.wc # NoTarget
    BY DEF TypeInv, Progress
  <2>2. cyc.current \in Nat
    BY DEF TypeInv, TypeOK, CycleTypes, Cycles
  <2> QED BY <1>1, <2>1, <2>2 DEF PricedFinally, Final, Reasons
<1> QED
  BY <1>1, <1>2, <1>3, <1>4 DEF PriceInv, Unpriced, TentativeKept,
     FinalIsResolved, BeforePrice, BeforeAnswer, Final

LEMMA PriceStep ==
  TypeInv /\ TypeInv' /\ OpinionInv /\ PriceInv /\ [Next]_vars => PriceInv'
<1> SUFFICES ASSUME TypeInv, TypeInv', OpinionInv, PriceInv, [Next]_vars
             PROVE  PriceInv'
  OBVIOUS
<1> USE DEF BeforePrice, BeforeAnswer, Final, Priced
<1>1. CASE ~Deliberation
  <2>1. CASE NothingThought' /\ pc' \in {"idle", "ensureFinalizer"}
    BY <2>1 DEF NothingThought, PriceInv, Unpriced, TentativeKept,
                FinalIsResolved, PricedFinally, CeilingOrCovered
  <2>2. CASE pc' \in {"persistStatus", "recordAudit"}
    BY <2>2 DEF PriceInv, Unpriced, TentativeKept, FinalIsResolved,
                PricedFinally, CeilingOrCovered
  <2>3. CASE pc = "ensureFinalizer" /\ pc' = "checkCooldown" /\ UNCHANGED Thoughts
    BY <2>3, StillUnpriced DEF Thoughts, Reasons
  <2>4. CASE UNCHANGED <<Thoughts, pc>> /\ obj'.spec = obj.spec
    BY <2>4, PriceKept
  <2> QED BY <1>1, <2>1, <2>2, <2>3, <2>4, OtherSteps
<1>2. CASE Deliberation
  <2>1. obj' = obj
    BY <1>2, DeliberationWritesNothing
  <2>2. CASE CheckCooldown \/ ValidateDecision \/ CheckCoordination \/ RecordAudit
    <3>1. CASE pc' = "persistStatus"
      BY <3>1 DEF PriceInv, Unpriced, TentativeKept, FinalIsResolved,
                  PricedFinally, CeilingOrCovered
    <3>2. CASE pc' # "persistStatus"
      BY <2>1, <2>2, <3>2, ThoughtlessSteps, PriceKept
    <3> QED BY <3>1, <3>2
  <2>3. CASE CollectSignals
    BY <2>3, CollectSignalsEffect, StillUnpriced
  <2>4. CASE FetchDecision
    BY <2>4, FetchDecisionEffect, StillUnpriced
  <2>5. CASE CheckOscillation \/ CheckRollback
    BY <2>5, CheckOscillationEffect, CheckRollbackEffect, StillUnpriced
  <2>6. CASE ResolveTentative
    BY <2>1, <2>6, ResolveTentativePrice
  <2>7. CASE EstimateCost
    BY <2>1, <2>7, EstimateCostPrice
  <2>8. CASE CheckApproval
    BY <2>1, <2>8, CheckApprovalPrice
  <2>9. CASE ResolveFinal
    BY <2>1, <2>9, ResolveFinalPrice
  <2> QED
    BY <1>2, <2>2, <2>3, <2>4, <2>5, <2>6, <2>7, <2>8, <2>9 DEF Deliberation
<1> QED BY <1>1, <1>2

LEMMA PriceInvHolds ==
  Spec => [](TypeInv /\ DecisionInv /\ OpinionInv /\ PriceInv)
<1>1. Init => PriceInv
  <2>1. /\ NewCycle.wc = NoTarget /\ NewCycle.est = NoTarget
        /\ NewCycle.ceiling = NoTarget
    BY DEF NewCycle
  <2>2. Init => pc = "idle" /\ cyc = NewCycle
    BY DEF Init
  <2> QED
    BY <2>1, <2>2 DEF PriceInv, Unpriced, TentativeKept, FinalIsResolved,
                      PricedFinally, CeilingOrCovered, Final, Priced
<1>2. Spec => [](TypeInv /\ DecisionInv /\ OpinionInv)
  BY OpinionInvHolds
<1>3. Spec => []PriceInv
  BY <1>1, <1>2, PriceStep, PTL DEF Spec
<1> QED BY <1>2, <1>3, PTL

-----------------------------------------------------------------------------
(* What the final decision is.                                             *)
LEMMA InputsWanted ==
  ASSUME TypeInv, NEW human \in BOOLEAN
  PROVE  LET wants == Wants(Inputs(human))
         IN  /\ wants \in [Layers -> Optional(Int)]
             /\ wants["safety"] = cyc.cand["safety"].target
             /\ human => wants["human"] = cyc.cand["human"].target
             /\ ~human => wants["human"] = NoTarget
             /\ wants["schedule"] = cyc.cand["schedule"].target
             /\ wants["slo"] = SLODecision.target
<1>1. /\ cyc.cand \in [Layers -> CandidateType] /\ SLODecision \in CandidateType
      /\ NoDecision \in CandidateType /\ NoDecision.target = NoTarget
  BY SLODecisionType, CandidateTypes DEF TypeInv, TypeOK, CycleTypes, Cycles,
                                         NoDecision
<1>2. /\ Inputs(human) \in [Layers -> CandidateType]
      /\ Inputs(human)["safety"] = cyc.cand["safety"]
      /\ Inputs(human)["schedule"] = cyc.cand["schedule"]
      /\ Inputs(human)["slo"] = SLODecision
      /\ Inputs(human)["human"] = IF human THEN cyc.cand["human"] ELSE NoDecision
  BY <1>1 DEF Inputs, Layers
<1> QED BY <1>1, <1>2, CandidateTypes DEF Wants, Layers

LEMMA SpokenCandidates ==
  ASSUME TypeInv, NEW l \in Layers
  PROVE  /\ cyc.cand[l] = NoDecision <=> cyc.cand[l].target = NoTarget
         /\ cyc.cand[l] # NoDecision => cyc.cand[l].target \in Int
<1>1. cyc.cand[l] \in CandidateType
  BY DEF TypeInv, TypeOK, CycleTypes, Cycles
<1> QED BY <1>1, NoTargetAssumption DEF CandidateType, Decisions, NoDecision

LEMMA PolicyFields ==
  ASSUME TypeInv
  PROVE  /\ FlagsOf(obj.spec) \in Flags
         /\ obj.spec.min \in Nat /\ obj.spec.max \in Nat
         /\ obj.spec.maxHourly \in Nat /\ obj.spec.maxMonthly \in Nat
<1>1. obj.spec \in Specs
  BY DEF TypeInv, TypeOK, CycleTypes, Objects
<1> QED BY <1>1, SpecFields DEF SpecType, FlagsOf, Flags, DefaultFlags

LEMMA FinalTarget ==
  ASSUME TypeInv
  PROVE  LET wants == Wants(Inputs(TRUE))
         IN  Resolved(TRUE, TRUE).target
               = IF Present(wants) = {} THEN cyc.current
                 ELSE Resolve(wants, cyc.ceiling, obj.spec.min, obj.spec.max,
                              FlagsOf(obj.spec))
<1> DEFINE wants == Wants(Inputs(TRUE))
<1>1. CASE Present(wants) = {}
  <2>1. wants["human"] = NoTarget
    BY <1>1 DEF Present, Layers
  <2>2. cyc.cand["human"] = NoDecision
    BY <2>1, InputsWanted, SpokenCandidates DEF Layers
  <2> QED BY <1>1, <2>2 DEF Resolved, Hold
<1>2. CASE Present(wants) # {}
  BY <1>2 DEF Resolved
<1> QED BY <1>1, <1>2

LEMMA BetweenOnTheWay ==
  ASSUME NEW c \in Int, NEW goal \in Int, NEW t \in Int, NEW v \in Int,
         c <= goal => c <= t /\ t <= goal, goal <= c => goal <= t /\ t <= c,
         c <= t => c <= v /\ v <= t, t <= c => v <= c /\ t <= v
  PROVE  Between(v, c, goal)
BY DEF Between

(* A strongest opinion decides: from within the bounds the count stays or  *)
(* goes towards it.                                                        *)
LEMMA StrongestInBounds ==
  ASSUME TypeInv, PriceInv, DecisionInv, Decided, cyc.ceiling = NoTarget,
         InBounds(cyc.current),
         NEW wants, wants = Wants(Inputs(TRUE)), Present(wants) # {},
         NEW winning, winning = WinningTarget(wants, FlagsOf(obj.spec)),
         winning \in Int
  PROVE  /\ winning = cyc.current => cyc.validated = cyc.current
         /\ winning >= cyc.current => cyc.validated >= cyc.current
         /\ Between(cyc.validated, cyc.current, winning)
<1> DEFINE min == obj.spec.min
           max == obj.spec.max
<1>1. /\ min \in Int /\ max \in Int /\ max > 0 /\ cyc.current \in Int
      /\ min <= cyc.current /\ cyc.current <= max
      /\ Bounded(obj.spec)
  BY CycleNumbers DEF InBounds, Bounded
<1>2. cyc.dec.target = Resolve(wants, NoTarget, min, max, FlagsOf(obj.spec))
  BY FinalTarget DEF PriceInv, FinalIsResolved, Final, Decided
<1>3. /\ cyc.dec.target \in Int
      /\ cyc.validated = ValidatedReplicas(cyc.dec, cyc.current, obj.spec)
  BY DEF DecisionInv, ValidatedIsCurrent
<1>4. /\ min <= cyc.dec.target /\ cyc.dec.target <= max
      /\ cyc.current <= winning
           => cyc.current <= cyc.dec.target /\ cyc.dec.target <= winning
      /\ winning <= cyc.current
           => winning <= cyc.dec.target /\ cyc.dec.target <= cyc.current
  <2>1. cyc.current \in min..max
    BY <1>1
  <2> HIDE DEF min, max
  <2> QED BY <1>1, <1>2, <2>1, ResolveGoesTowards
<1> DEFINE v == ValidatedReplicas(cyc.dec, cyc.current, obj.spec)
<1>5. v \in Int
  BY <1>1, <1>3, ValidatedWithinBounds DEF min, max
<1>6. /\ cyc.current <= cyc.dec.target
           => cyc.current <= v /\ v <= cyc.dec.target
      /\ cyc.dec.target <= cyc.current
           => v <= cyc.current /\ cyc.dec.target <= v
  BY <1>1, <1>3, <1>4, ValidateKeepsFloors, ValidateKeepsCeilings,
     ValidateStopsAtGoals DEF min, max
<1>7. cyc.validated = v
  BY <1>3
<1> HIDE DEF v, min, max
<1>8. Between(v, cyc.current, winning)
  BY <1>1, <1>3, <1>4, <1>5, <1>6, BetweenOnTheWay
<1>9. /\ winning = cyc.current => cyc.dec.target = cyc.current
      /\ winning >= cyc.current => cyc.dec.target >= cyc.current
  <2> DEFINE r == Resolve(wants, NoTarget, min, max, FlagsOf(obj.spec))
  <2>1. /\ \A n \in min..max : n <= winning => n <= r
        /\ winning \in min..max => r = winning
    BY <1>1, ResolveInBounds
  <2>2. cyc.dec.target = r /\ cyc.current \in min..max
    BY <1>1, <1>2
  <2> HIDE DEF r
  <2> QED BY <2>1, <2>2
<1>10. winning = cyc.current => cyc.validated = cyc.current
  BY <1>1, <1>3, <1>9, ValidateKeepsHolds DEF min, max
<1>11. winning >= cyc.current => cyc.validated >= cyc.current
  BY <1>3, <1>6, <1>7, <1>9
<1> QED BY <1>7, <1>8, <1>10, <1>11

(* Approval: a change that needs a human stays at the reported count,      *)
(* whatever SLOs, rules, LLM and KEDA want, unless safety or the budget    *)
(* objects: checkApproval's hold outranks all of them in resolveFinal, and *)
(* the validator keeps a hold.                                             *)
THEOREM ApprovalsAreHeld == Spec => []ApprovalHeld
<1>1. TypeInv /\ DecisionInv /\ OpinionInv /\ PriceInv => ApprovalHeld
  <2> SUFFICES ASSUME TypeInv, DecisionInv, OpinionInv, PriceInv, Decided,
                      cyc.cand["human"] # NoDecision,
                      cyc.cand["safety"] = NoDecision, cyc.ceiling = NoTarget,
                      InBounds(cyc.current)
               PROVE  cyc.validated = cyc.current
    BY DEF ApprovalHeld
  <2> DEFINE wants == Wants(Inputs(TRUE))
  <2>1. wants["safety"] = NoTarget /\ wants["human"] = cyc.current
    BY InputsWanted, SpokenCandidates DEF OpinionInv, HumanHolds, Layers
  <2>2. cyc.current \in Int /\ cyc.current # NoTarget
    BY CycleNumbers, NoTargetAssumption
  <2>3. /\ Present(wants) # {}
        /\ WinningTarget(wants, FlagsOf(obj.spec)) = cyc.current
    BY <2>1, <2>2, PolicyFields, StrongestDecides DEF Present, Layers
  <2> QED BY <2>2, <2>3, StrongestInBounds
<1> QED BY <1>1, PriceInvHolds, PTL

(* SLO protection: with the SLO layer in its default place, a breach the   *)
(* cycle knows of keeps rules, LLM and KEDA from scaling down: the layer   *)
(* asks for the highest of the present count and what they want.           *)
THEOREM BreachesAreProtected == Spec => []SLOProtected
<1>1. TypeInv /\ DecisionInv /\ OpinionInv /\ PriceInv => SLOProtected
  <2> SUFFICES ASSUME TypeInv, DecisionInv, OpinionInv, PriceInv, Decided,
                      SLOBreached, FlagsOf(obj.spec).slo,
                      cyc.cand["safety"] = NoDecision,
                      cyc.cand["human"] = NoDecision, cyc.ceiling = NoTarget,
                      InBounds(cyc.current)
               PROVE  cyc.validated >= cyc.current
    BY DEF SLOProtected
  <2> DEFINE wants == Wants(Inputs(TRUE))
             slo == SLODecision.target
  <2>1. cyc.cand \in [Layers -> CandidateType] /\ cyc.current \in Int
    BY CycleNumbers DEF TypeInv, TypeOK, CycleTypes, Cycles
  <2>2. slo \in Int /\ slo >= cyc.current
    <3>1. \A t \in Int, d \in CandidateType : Raise(t, d) \in Int /\ Raise(t, d) >= t
      BY CandidateTypes DEF Raise, Larger, Optional
    <3>2. /\ cyc.cand["reactive"] \in CandidateType
          /\ cyc.cand["llm"] \in CandidateType
          /\ cyc.cand["deterministic"] \in CandidateType
      BY <2>1 DEF Layers
    <3> DEFINE a == Raise(cyc.current, cyc.cand["reactive"])
               b == Raise(a, cyc.cand["llm"])
               c == Raise(b, cyc.cand["deterministic"])
    <3>3. a \in Int /\ a >= cyc.current
      BY <2>1, <3>1, <3>2
    <3> HIDE DEF a
    <3>4. b \in Int /\ b >= a
      BY <3>1, <3>2, <3>3
    <3> HIDE DEF b
    <3>5. c \in Int /\ c >= b
      BY <3>1, <3>2, <3>4
    <3> HIDE DEF c
    <3>6. slo = c
      BY DEF SLODecision, Sure, a, b, c
    <3> QED BY <2>1, <3>3, <3>4, <3>5, <3>6
  <2> HIDE DEF slo
  <2>3. /\ wants["safety"] = NoTarget /\ wants["human"] = NoTarget
        /\ wants["schedule"] = NoTarget /\ wants["slo"] = slo
    BY InputsWanted, SpokenCandidates DEF OpinionInv, ScheduleIsSilent, Layers, slo
  <2>4. slo # NoTarget /\ FlagsOf(obj.spec) \in Flags
    BY <2>2, NoTargetAssumption, PolicyFields
  <2>5. WinningTarget(wants, FlagsOf(obj.spec)) = slo
    BY <2>3, <2>4, StrongestDecides, Zenon
  <2>6. Present(wants) # {}
    BY <2>3, <2>4 DEF Present, Layers
  <2> HIDE DEF wants
  <2> QED BY <2>2, <2>5, <2>6, StrongestInBounds DEF wants
<1> QED BY <1>1, PriceInvHolds, PTL

(* A decision to scale up without ceiling is the tentative one.            *)
LEMMA UncappedIsTentative ==
  ASSUME TypeInv, OpinionInv, PriceInv, Decided, cyc.ceiling = NoTarget,
         obj.spec.min < cyc.dec.target, cyc.current < cyc.dec.target
  PROVE  cyc.dec.target = TentativeTarget
<1> DEFINE wants == Wants(Inputs(TRUE))
           before == Wants(Inputs(FALSE))
           flags == FlagsOf(obj.spec)
           min == obj.spec.min
           max == obj.spec.max
<1>1. /\ cyc.current \in Int /\ min \in Int /\ max \in Int /\ flags \in Flags
  BY CycleNumbers, PolicyFields
<1>2. cyc.dec.target = IF Present(wants) = {} THEN cyc.current
                       ELSE Resolve(wants, NoTarget, min, max, flags)
  BY FinalTarget DEF PriceInv, FinalIsResolved, Final, Decided
<1>3. TentativeTarget = IF Present(before) = {} THEN cyc.current
                        ELSE Resolve(before, NoTarget, min, max, flags)
  BY DEF TentativeTarget
<1>4. /\ wants \in [Layers -> Optional(Int)] /\ before \in [Layers -> Optional(Int)]
      /\ wants["safety"] = cyc.cand["safety"].target
      /\ before["safety"] = cyc.cand["safety"].target
      /\ wants["human"] = cyc.cand["human"].target
  BY InputsWanted
<1>5. CASE cyc.cand["human"] = NoDecision
  <2>1. Inputs(TRUE) = Inputs(FALSE)
    <3>1. cyc.cand \in [Layers -> CandidateType]
      BY DEF TypeInv, TypeOK, CycleTypes, Cycles
    <3> QED BY <1>5, <3>1 DEF Inputs
  <2> QED BY <1>2, <1>3, <2>1
<1> HIDE DEF wants, before, flags, min, max
<1>6. Present(wants) # {}
  BY <1>1, <1>2 DEF min
<1>7. Resolve(wants, NoTarget, min, max, flags) <= WinningTarget(wants, flags)
  <2>1. min < Resolve(wants, NoTarget, min, max, flags)
    BY <1>2, <1>6 DEF min
  <2> QED BY <1>1, <1>4, <2>1, ResolveAboveMin DEF Optional
<1>8. CASE cyc.cand["human"] # NoDecision /\ cyc.cand["safety"] = NoDecision
  <2>1. cyc.cand["human"].target = cyc.current
    BY <1>8 DEF OpinionInv, HumanHolds
  <2>2. wants["safety"] = NoTarget /\ wants["human"] = cyc.current
    BY <1>4, <1>8, <2>1, SpokenCandidates DEF Layers
  <2>3. WinningTarget(wants, flags) = cyc.current
    BY <1>1, <2>2, NoTargetAssumption, StrongestDecides
  <2>4. NoTarget \in Optional(Int)
    BY DEF Optional
  <2>5. Resolve(wants, NoTarget, min, max, flags) \in Int
    BY <1>1, <1>4, <2>4, ResolveIsInt
  <2>6. cyc.dec.target = Resolve(wants, NoTarget, min, max, flags)
    BY <1>2, <1>6
  <2> QED BY <1>1, <1>7, <2>3, <2>5, <2>6
<1>9. CASE cyc.cand["safety"] # NoDecision
  <2>1. wants["safety"] # NoTarget /\ before["safety"] = wants["safety"]
    BY <1>4, <1>9, SpokenCandidates DEF Layers
  <2>2. WinningTarget(wants, flags) = WinningTarget(before, flags)
    BY <1>1, <2>1, StrongestDecides
  <2>3. Present(before) # {}
    BY <2>1 DEF Present, Layers
  <2> QED BY <1>2, <1>3, <1>6, <2>2, <2>3 DEF Resolve
<1> QED BY <1>5, <1>8, <1>9

(* Budget: under hard enforcement, with an estimate, scaling up beyond     *)
(* minReplicas never brings the projected cost over a limit.  The ceiling  *)
(* is computed once, for the tentative decision, and the final one may be  *)
(* another: but only a human's hold comes between them.                    *)
THEOREM BudgetIsHard == Spec => []HardBudget
<1>1. TypeInv /\ DecisionInv /\ OpinionInv /\ PriceInv => HardBudget
  <2> DEFINE n == cyc.validated
  <2> SUFFICES ASSUME TypeInv, DecisionInv, OpinionInv, PriceInv, Decided,
                      obj.spec.hard, cyc.est # NoTarget, n > cyc.current,
                      n > obj.spec.min
               PROVE  ~OverBudget(obj.spec, cyc.wc, cyc.current, n)
    BY DEF HardBudget
  <2>1. /\ cyc.dec.target \in Int
        /\ n = ValidatedReplicas(cyc.dec, cyc.current, obj.spec)
    BY DEF DecisionInv, ValidatedIsCurrent
  <2>2. /\ cyc.current \in Nat /\ obj.spec.min \in Nat /\ Bounded(obj.spec)
        /\ obj.spec.maxHourly \in Nat /\ obj.spec.maxMonthly \in Nat
        /\ obj.spec.max \in Int /\ FlagsOf(obj.spec) \in Flags
    BY CycleNumbers, PolicyFields DEF TypeInv, TypeOK, CycleTypes, Cycles
  <2>3. n \in Nat /\ n <= cyc.dec.target
    BY <2>1, <2>2, ValidatedWithinBounds, ValidateNeverOvershoots
  <2>4. cyc.wc # NoTarget /\ cyc.wc \in Nat /\ cyc.current > 0
    BY DEF TypeInv, Progress, TypeOK, CycleTypes, Cycles, Optional, PriceInv,
           PricedFinally, Final, Decided
  <2>5. IF cyc.ceiling = NoTarget
        THEN ~OverBudget(obj.spec, cyc.wc, cyc.current, TentativeTarget)
        ELSE cyc.ceiling = CostCeiling(obj.spec, cyc.wc, cyc.current)
    BY <2>4 DEF PriceInv, CeilingOrCovered, Priced, Final, Decided
  <2> HIDE DEF n
  <2>6. CASE cyc.ceiling = NoTarget
    <3>1. cyc.dec.target = TentativeTarget
      BY <2>1, <2>2, <2>3, <2>6, UncappedIsTentative DEF n
    <3> QED BY <2>1, <2>2, <2>3, <2>4, <2>5, <2>6, <3>1, OverBudgetGrows
  <2>7. CASE cyc.ceiling # NoTarget
    <3> DEFINE wants == Wants(Inputs(TRUE))
    <3>1. cyc.dec.target = IF Present(wants) = {} THEN cyc.current
                           ELSE Resolve(wants, cyc.ceiling, obj.spec.min,
                                        obj.spec.max, FlagsOf(obj.spec))
      BY FinalTarget DEF PriceInv, FinalIsResolved, Final, Decided
    <3>2. wants \in [Layers -> Optional(Int)]
      BY InputsWanted
    <3>3. cyc.ceiling \in Optional(Int)
      BY DEF TypeInv, TypeOK, CycleTypes, Cycles
    <3> HIDE DEF wants
    <3>4. cyc.dec.target > cyc.current /\ cyc.dec.target > obj.spec.min
      BY <2>1, <2>2, <2>3 DEF n
    <3>5. cyc.dec.target <= cyc.ceiling /\ cyc.ceiling \in Int
      BY <2>1, <2>2, <2>7, <3>1, <3>2, <3>3, <3>4, ResolveAboveMin DEF Optional
    <3>6. n <= CostCeiling(obj.spec, cyc.wc, cyc.current)
      BY <2>1, <2>3, <2>5, <2>7, <3>5
    <3> QED BY <2>2, <2>3, <2>4, <2>5, <2>7, <3>6, CeilingIsAffordable DEF n
  <2> QED BY <2>6, <2>7 DEF n
<1> QED BY <1>1, PriceInvHolds, PTL

-----------------------------------------------------------------------------
(* What safety is told: by the detector, and by the audit store.           *)

EventsInv == Ordered(events)

(* The informer's copy of the records is at most one record behind.        *)
AuditLag ==
  \A w \in Workloads :
    /\ auditSynced[w] => auditSeen[w] = audit[w]
    /\ ~auditSynced[w]
         => \A i \in DOMAIN auditSeen[w] :
              i < AuditSize => /\ i + 1 \in DOMAIN audit[w]
                               /\ audit[w][i + 1] = auditSeen[w][i]

(* A record of a live scaling from n to the present count.  While the      *)
(* informer is behind it is one of those checkRollback asked for.          *)
Listed(n) ==
  \E i \in DOMAIN ListedRecords :
    /\ ~auditSynced[Workload[obj.spec.target]] => i <= ListLimit
    /\ ListedRecords[i].prev = n /\ ListedRecords[i].new = cyc.current
    /\ ~ListedRecords[i].dry

AfterDetector == Final \cup {"checkRollback", "resolveTentative", "estimateCost",
                             "checkApproval", "resolveFinal"}

SafetySpeaks ==
  pc \in AfterDetector /\ Has("oscillation") /\ IsOscillating(events, Window)
    => cyc.cand["safety"] # NoDecision

SafetyIsGrounded ==
  /\ pc \in AfterDetector /\ cyc.cand["safety"] # NoDecision
  /\ cyc.cand["safety"].target # cyc.current
  => Listed(cyc.cand["safety"].target)

SafetyInv == EventsInv /\ AuditLag /\ SafetySpeaks /\ SafetyIsGrounded

(* The detector's events: time only makes them older.                      *)
LEMMA EventsStep ==
  ASSUME TypeInv, EventsInv, [Next]_vars
  PROVE  /\ EventsInv'
         /\ Actuate \/ (IsOscillating(events, Window)' => IsOscillating(events, Window))
<1>1. /\ events \in Seq(Events) /\ DetectorSize \in Nat \ {0} /\ Window \in Nat
      /\ MaxAge \in Nat
  BY ReconcilerAssumption DEF TypeInv, TypeOK, MemoryTypes
<1>2. CASE UNCHANGED events
  BY <1>2 DEF EventsInv
<1>3. CASE events' = <<>>
  <2>1. Ordered(<<>>) /\ ~IsOscillating(<<>>, Window)
    <3>1. RecentEvents(<<>>, Window) = {}
      BY DEF RecentEvents
    <3>2. Cardinality({}) = 0
      BY FS_EmptySet
    <3> QED BY <3>1, <3>2 DEF Ordered, IsOscillating
  <2> QED BY <1>3, <2>1 DEF EventsInv
<1>4. CASE Tick
  <2> DEFINE n == Len(events)
             aged == [i \in DOMAIN events |-> [events[i] EXCEPT !.age = Older(@)]]
  <2>1. events' = aged /\ n \in Nat /\ DOMAIN events = 1..n /\ DOMAIN aged = 1..n
    BY <1>1, <1>4 DEF Tick
  <2>2. \A i \in 1..n : /\ events[i].age \in Nat /\ aged[i].age \in Nat
                        /\ events[i].age <= aged[i].age
                        /\ aged[i].age = Older(events[i].age)
                        /\ aged[i].dir = events[i].dir
    <3> SUFFICES ASSUME NEW i \in 1..n
                 PROVE  /\ events[i].age \in Nat /\ aged[i].age \in Nat
                        /\ events[i].age <= aged[i].age
                        /\ aged[i].age = Older(events[i].age)
                        /\ aged[i].dir = events[i].dir
      OBVIOUS
    <3>1. events[i] \in Events /\ aged[i] = [events[i] EXCEPT !.age = Older(@)]
      BY <1>1, <2>1
    <3>2. /\ events[i].age \in 0..MaxAge /\ aged[i].age = Older(events[i].age)
          /\ aged[i].dir = events[i].dir
      BY <3>1 DEF Events, Ages
    <3> QED BY <1>1, <3>2 DEF Older
  <2>3. Ordered(aged)
    <3>1. \A a, b \in 0..MaxAge : a <= b => Older(a) <= Older(b)
      BY <1>1 DEF Older
    <3>2. \A i \in 1..n : events[i].age \in 0..MaxAge
      <4>1. \A i \in 1..n : events[i] \in Events
        BY <1>1, <2>1
      <4> QED BY <4>1 DEF Events, Ages
    <3> HIDE DEF aged
    <3> QED BY <2>1, <2>2, <3>1, <3>2 DEF EventsInv, Ordered
  <2> HIDE DEF aged, n
  <2>4. IsOscillating(aged, Window) => IsOscillating(events, Window)
    BY <1>1, <2>1, <2>2, <2>3, ThrashingFades
  <2> QED BY <2>1, <2>3, <2>4 DEF EventsInv
<1>5. CASE Actuate
  <2>1. \/ UNCHANGED events
        \/ events' = RecordEvent(events, [dir |-> Direction, age |-> 0], DetectorSize)
    BY <1>5 DEF Actuate
  <2>2. [dir |-> Direction, age |-> 0] \in Events
    BY <1>1 DEF Direction, Events, Ages
  <2>3. \A e \in Events : e.age \in Nat
    BY <1>1 DEF Events, Ages
  <2>4. Ordered(RecordEvent(events, [dir |-> Direction, age |-> 0], DetectorSize))
    BY <1>1, <2>2, <2>3, RecordEventKeepsOrder DEF EventsInv
  <2> QED BY <1>5, <2>1, <2>4 DEF EventsInv
<1>6. [Next]_vars => \/ UNCHANGED events \/ events' = <<>> \/ Tick \/ Actuate
  BY DEF Next, vars, memVars, Worker, Environment, User, Restart, Dequeue,
         ReleaseFinalizer, RejectSpec, AddFinalizer, FailUnanswered, CheckCooldown,
         CollectSignals, FetchDecision, CheckOscillation, CheckRollback,
         ResolveTentative, EstimateCost, CheckApproval, ResolveFinal,
         ValidateDecision, CheckCoordination, RecordAudit, PersistStatus,
         SyncPolicy, TimerFires, SyncDeployment, SyncAudit, Rollout, EditSpec,
         DeletePolicy, WrittenByUser, ScaleExternally, Freeze,
         DeploymentWritten, Return, OnlyCycle
<1> QED BY <1>2, <1>3, <1>4, <1>5, <1>6

LEMMA NewestFirstShifts ==
  ASSUME NEW S, NEW a \in Seq(S), NEW r \in S, NEW k \in 0..Len(a)
  PROVE  LET s == <<r>> \o SubSeq(a, 1, k)
         IN  \A i \in 1..k : i + 1 \in DOMAIN s /\ s[i + 1] = a[i]
<1> DEFINE kept == SubSeq(a, 1, k)
           one == <<r>>
<1>1. kept \in Seq(S) /\ Len(kept) = k /\ \A i \in 1..k : kept[i] = a[i]
  BY SubSeqProperties
<1>2. one \in Seq(S) /\ Len(one) = 1
  OBVIOUS
<1> HIDE DEF kept, one
<1> DEFINE s == one \o kept
<1>3. /\ s \in Seq(S) /\ Len(s) = Len(one) + Len(kept)
      /\ \A i \in 1..Len(one) + Len(kept) :
           s[i] = IF i <= Len(one) THEN one[i] ELSE kept[i - Len(one)]
  BY <1>1, <1>2, ConcatProperties
<1> HIDE DEF s
<1>4. /\ DOMAIN s = 1..1 + k
      /\ \A i \in 1..1 + k : s[i] = IF i <= 1 THEN one[i] ELSE kept[i - 1]
  BY <1>1, <1>2, <1>3
<1>5. \A i \in 1..k : i + 1 \in DOMAIN s /\ s[i + 1] = a[i]
  BY <1>1, <1>4
<1> QED BY <1>5 DEF s, kept, one

LEMMA AuditSteps ==
  ASSUME [Next]_vars
  PROVE  \/ UNCHANGED auditVars \/ RecordAudit \/ Restart
         \/ \E w \in Workloads : SyncAudit(w)
BY DEF Next, vars, memVars, auditVars, Worker, Environment, User, Dequeue,
       ReleaseFinalizer, RejectSpec, AddFinalizer, FailUnanswered, CheckCooldown,
       CollectSignals, FetchDecision, CheckOscillation, CheckRollback,
       ResolveTentative, EstimateCost, CheckApproval, ResolveFinal,
       ValidateDecision, CheckCoordination, Actuate, PersistStatus,
       SyncPolicy, TimerFires, SyncDeployment, Rollout, Tick, EditSpec,
       DeletePolicy, WrittenByUser, ScaleExternally, Freeze,
       DeploymentWritten, Return, OnlyCycle

LEMMA AuditLagStep ==
  ASSUME TypeInv, AuditLag, [Next]_vars
  PROVE  AuditLag'
<1>1. CASE UNCHANGED auditVars
  BY <1>1 DEF AuditLag, auditVars
<1>2. CASE RecordAudit
  <2> DEFINE w == Workload[obj.spec.target]
             record == [prev |-> cyc.current, new |-> cyc.validated,
                        dry |-> obj.spec.dryRun, sig |-> cyc.sig]
             a == audit[w]
             k == IF Len(a) < AuditSize THEN Len(a) ELSE AuditSize - 1
             stored == <<record>> \o SubSeq(a, 1, k)
  <2>1. \/ UNCHANGED <<audit, auditSynced>>
        \/ /\ auditSynced[w] /\ audit' = [audit EXCEPT ![w] = stored]
           /\ auditSynced' = [auditSynced EXCEPT ![w] = FALSE]
    BY <1>2 DEF RecordAudit, Store, Unpruned
  <2>2. UNCHANGED auditSeen
    BY <1>2 DEF RecordAudit
  <2>3. w \in Workloads /\ a \in Seq(Records) /\ record \in Records
    <3>1. pc = "recordAudit"
      BY <1>2 DEF RecordAudit
    <3>2. w \in Workloads
      BY TargetTypes DEF TypeInv, TypeOK
    <3>3. /\ cyc.current \in Nat /\ cyc.validated \in Nat
          /\ cyc.sig \in SignalType /\ obj.spec.dryRun \in BOOLEAN
      BY <3>1, SpecFields DEF TypeInv, TypeOK, CycleTypes, Objects, Progress,
                              Cycles, SpecType
    <3>4. a \in Seq(Records)
      BY <3>2 DEF TypeInv, TypeOK, MemoryTypes
    <3> QED BY <3>2, <3>3, <3>4 DEF Records
  <2>4. k \in 0..Len(a) /\ \A i \in 1..Len(a) : i < AuditSize => i \in 1..k
    <3>1. Len(a) \in Nat /\ AuditSize \in Nat \ {0}
      BY <2>3, LimitsAreNat
    <3> HIDE DEF a
    <3> QED BY <3>1
  <2>5. DOMAIN a = 1..Len(a)
    BY <2>3
  <2> HIDE DEF a, k, record
  <2>6. \A i \in 1..k : i + 1 \in DOMAIN stored /\ stored[i + 1] = a[i]
    BY <2>3, <2>4, NewestFirstShifts
  <2> HIDE DEF stored, w
  <2>7. CASE UNCHANGED <<audit, auditSynced>>
    BY <2>2, <2>7 DEF AuditLag
  <2>8. CASE /\ auditSynced[w] /\ audit' = [audit EXCEPT ![w] = stored]
             /\ auditSynced' = [auditSynced EXCEPT ![w] = FALSE]
    <3>1. /\ audit \in [Workloads -> Seq(Records)]
          /\ auditSynced \in [Workloads -> BOOLEAN]
      BY DEF TypeInv, TypeOK, MemoryTypes
    <3>2. auditSeen[w] = audit[w]
      BY <2>3, <2>8 DEF AuditLag
    <3>3. audit[w] = a
      BY DEF a, w
    <3> SUFFICES ASSUME NEW v \in Workloads
                 PROVE  /\ auditSynced'[v] => auditSeen'[v] = audit'[v]
                        /\ ~auditSynced'[v]
                             => \A i \in DOMAIN auditSeen'[v] :
                                  i < AuditSize => /\ i + 1 \in DOMAIN audit'[v]
                                                   /\ audit'[v][i + 1] = auditSeen'[v][i]
      BY DEF AuditLag
    <3>4. CASE v = w
      <4>1. auditSynced'[v] = FALSE /\ audit'[v] = stored /\ auditSeen'[v] = a
        BY <2>2, <2>3, <2>8, <3>1, <3>2, <3>3, <3>4
      <4> QED BY <2>4, <2>5, <2>6, <4>1
    <3>5. CASE v # w
      <4>1. /\ auditSynced'[v] = auditSynced[v] /\ audit'[v] = audit[v]
            /\ auditSeen'[v] = auditSeen[v]
        BY <2>2, <2>8, <3>1, <3>5
      <4> QED BY <4>1 DEF AuditLag
    <3> QED BY <3>4, <3>5
  <2> QED BY <2>1, <2>7, <2>8
<1>3. CASE \E w \in Workloads : SyncAudit(w)
  <2>1. PICK w \in Workloads : SyncAudit(w)
    BY <1>3
  <2>2. /\ auditSeen \in [Workloads -> Seq(Records)]
        /\ auditSynced \in [Workloads -> BOOLEAN]
        /\ auditSeen' = [auditSeen EXCEPT ![w] = audit[w]]
        /\ auditSynced' = [auditSynced EXCEPT ![w] = TRUE]
        /\ audit' = audit
    BY <2>1 DEF SyncAudit, TypeInv, TypeOK, MemoryTypes
  <2>3. \A v \in Workloads \ {w} : /\ auditSeen'[v] = auditSeen[v]
                                   /\ auditSynced'[v] = auditSynced[v]
    BY <2>2
  <2>4. auditSeen'[w] = audit'[w] /\ auditSynced'[w] = TRUE
    BY <2>2
  <2> QED BY <2>2, <2>3, <2>4 DEF AuditLag
<1>4. CASE Restart
  BY <1>4 DEF Restart, AuditLag
<1> QED BY <1>1, <1>2, <1>3, <1>4, AuditSteps

LEMMA SafetyKept ==
  ASSUME SafetyInv, EventsInv', AuditLag',
         IsOscillating(events, Window)' => IsOscillating(events, Window),
         UNCHANGED <<auditSeen, auditSynced, cyc.current>>,
         cyc'.cand["safety"] = cyc.cand["safety"], obj'.spec = obj.spec,
         pc' \in AfterDetector => pc \in AfterDetector
  PROVE  SafetyInv'
<1>1. SafetySpeaks'
  BY DEF SafetyInv, SafetySpeaks
<1>2. SafetyIsGrounded'
  BY DEF SafetyInv, SafetyIsGrounded, Listed, ListedRecords
<1> QED BY <1>1, <1>2 DEF SafetyInv

(* While the informer is behind, its next copy still holds the records     *)
(* checkRollback asked for, one place further down.                        *)
LEMMA SyncKeepsListed ==
  ASSUME TypeInv, ListLimit < AuditSize, AuditLag, NEW v \in Workloads,
         SyncAudit(v), NEW n, Listed(n)
  PROVE  Listed(n)'
<1> DEFINE w == Workload[obj.spec.target]
<1>1. PICK i \in DOMAIN ListedRecords :
        /\ ~auditSynced[w] => i <= ListLimit
        /\ ListedRecords[i].prev = n /\ ListedRecords[i].new = cyc.current
        /\ ~ListedRecords[i].dry
  BY DEF Listed
<1>2. /\ w \in Workloads /\ auditSeen \in [Workloads -> Seq(Records)]
      /\ auditSynced \in [Workloads -> BOOLEAN] /\ AuditSize \in Nat
  BY TargetTypes, LimitsAreNat DEF TypeInv, TypeOK, MemoryTypes
<1>3. /\ UNCHANGED <<obj, cyc, audit>> /\ ~auditSynced[v]
      /\ auditSeen' = [auditSeen EXCEPT ![v] = audit[v]]
      /\ auditSynced' = [auditSynced EXCEPT ![v] = TRUE]
  BY DEF SyncAudit, cycVars
<1>4. w' = w /\ ListedRecords = auditSeen[w] /\ ListedRecords' = auditSeen'[w]
  BY <1>3 DEF ListedRecords
<1> HIDE DEF w
<1>5. CASE v # w
  <2>1. ListedRecords' = ListedRecords /\ auditSynced'[w] = auditSynced[w]
    BY <1>2, <1>3, <1>4, <1>5
  <2> QED BY <1>1, <1>3, <1>4, <2>1 DEF Listed, w
<1>6. CASE v = w
  <2>1. ListedRecords' = audit[w] /\ auditSynced'[w] = TRUE
    BY <1>2, <1>3, <1>4, <1>6
  <2>2. i <= ListLimit /\ i \in Nat
    BY <1>1, <1>2, <1>3, <1>4, <1>6
  <2>3. i < AuditSize
    BY <1>2, <2>2 DEF ListLimit
  <2>4. i + 1 \in DOMAIN audit[w] /\ audit[w][i + 1] = ListedRecords[i]
    BY <1>1, <1>2, <1>3, <1>4, <1>6, <2>3 DEF AuditLag
  <2>5. /\ i + 1 \in DOMAIN ListedRecords'
        /\ ListedRecords'[i + 1].prev = n /\ ListedRecords'[i + 1].new = cyc'.current
        /\ ~ListedRecords'[i + 1].dry
    BY <1>1, <1>3, <2>1, <2>4, Zenon
  <2> QED BY <1>4, <2>1, <2>5 DEF Listed, w
<1> QED BY <1>5, <1>6

LEMMA SafetySync ==
  ASSUME TypeInv, ListLimit < AuditSize, SafetyInv, EventsInv', AuditLag',
         NEW v \in Workloads, SyncAudit(v)
  PROVE  SafetyInv'
<1>1. UNCHANGED <<events, cyc, pc>>
  BY DEF SyncAudit, cycVars
<1>2. SafetySpeaks'
  BY <1>1 DEF SafetyInv, SafetySpeaks
<1>3. SafetyIsGrounded'
  <2> SUFFICES ASSUME pc' \in AfterDetector, cyc'.cand["safety"] # NoDecision,
                      cyc'.cand["safety"].target # cyc'.current
               PROVE  Listed(cyc.cand["safety"].target)'
    BY DEF SafetyIsGrounded
  <2>1. PICK n : n = cyc.cand["safety"].target
    OBVIOUS
  <2>2. Listed(n)
    BY <1>1, <2>1 DEF SafetyInv, SafetyIsGrounded
  <2>3. Listed(n)'
    BY <2>2, SyncKeepsListed DEF SafetyInv
  <2> QED BY <1>1, <2>1, <2>3 DEF Listed
<1> QED BY <1>2, <1>3 DEF SafetyInv

LEMMA DetectorSafety ==
  ASSUME TypeInv, OpinionInv, SafetyInv, CheckOscillation, EventsInv', AuditLag',
         UNCHANGED events
  PROVE  SafetyInv'
<1>1. /\ UNCHANGED cyc.current
      /\ cyc'.cand["safety"] = IF Has("oscillation") /\ IsOscillating(events, Window)
                               THEN Hold(MaxConf) ELSE cyc.cand["safety"]
      /\ pc = "checkOscillation"
  BY CheckOscillationEffect
<1>2. cyc.cand["safety"] = NoDecision
  BY <1>1 DEF OpinionInv, SafetyInTurn
<1>3. Hold(MaxConf) # NoDecision /\ Hold(MaxConf).target = cyc.current
  BY SpokenDecisions DEF TypeInv, TypeOK, CycleTypes
<1> QED BY <1>1, <1>2, <1>3 DEF SafetyInv, SafetySpeaks, SafetyIsGrounded

LEMMA RollbackSafety ==
  ASSUME TypeInv, SafetyInv, CheckRollback, EventsInv', AuditLag',
         UNCHANGED <<events, auditSeen, auditSynced, obj>>
  PROVE  SafetyInv'
<1>1. /\ UNCHANGED cyc.current
      /\ pc = "checkRollback"
      /\ \/ cyc'.cand["safety"] = cyc.cand["safety"]
         \/ /\ cyc'.cand["safety"] # NoDecision
            /\ \E i \in DOMAIN ListedRecords :
                 /\ i <= ListLimit
                 /\ ListedRecords[i].prev = cyc'.cand["safety"].target
                 /\ ListedRecords[i].new = cyc.current
                 /\ ~ListedRecords[i].dry
  BY CheckRollbackEffect
<1>2. CASE cyc'.cand["safety"] = cyc.cand["safety"]
  BY <1>1, <1>2, SafetyKept DEF AfterDetector
<1>3. CASE cyc'.cand["safety"] # cyc.cand["safety"]
  <2>1. SafetySpeaks'
    BY <1>1, <1>3 DEF SafetySpeaks
  <2>2. ListedRecords' = ListedRecords
    BY DEF ListedRecords
  <2>3. SafetyIsGrounded'
    BY <1>1, <1>3, <2>2 DEF SafetyIsGrounded, Listed
  <2> QED BY <2>1, <2>3 DEF SafetyInv
<1> QED BY <1>2, <1>3

LEMMA SafetyStep ==
  ASSUME ListLimit < AuditSize
  PROVE  TypeInv /\ OpinionInv /\ SafetyInv /\ [Next]_vars => SafetyInv'
<1> SUFFICES ASSUME TypeInv, OpinionInv, SafetyInv, [Next]_vars PROVE SafetyInv'
  OBVIOUS
<1>1. EventsInv' /\ AuditLag'
  BY EventsStep, AuditLagStep DEF SafetyInv
<1> USE DEF AfterDetector, Final
<1>2. CASE pc' \notin AfterDetector
  BY <1>1, <1>2 DEF SafetyInv, SafetySpeaks, SafetyIsGrounded
<1>3. CASE pc' \in AfterDetector
  <2>1. ~RecordAudit /\ ~Restart /\ ~Actuate
    BY <1>3 DEF RecordAudit, Restart, Actuate, Proceed, Fail, Goto
  <2>2. CASE \E v \in Workloads : SyncAudit(v)
    BY <1>1, <2>2, SafetySync
  <2>3. CASE ~ \E v \in Workloads : SyncAudit(v)
    <3>1. /\ UNCHANGED <<auditSeen, auditSynced>>
          /\ IsOscillating(events, Window)' => IsOscillating(events, Window)
      BY <2>1, <2>3, AuditSteps, EventsStep DEF auditVars, SafetyInv
    <3>2. CASE ~Deliberation
      <4>1. UNCHANGED <<Thoughts, pc>> /\ obj'.spec = obj.spec
        BY <1>3, <3>2, OtherSteps
      <4> QED BY <1>1, <3>1, <4>1, SafetyKept DEF Thoughts, Reasons
    <3>3. CASE Deliberation
      <4>1. obj' = obj
        BY <3>3, DeliberationWritesNothing
      <4>2. CASE CheckCooldown \/ ValidateDecision \/ CheckCoordination \/ RecordAudit
        <5>1. /\ UNCHANGED Thoughts
              /\ pc \in {"validateDecision", "checkCoordination"}
          BY <1>3, <4>2, ThoughtlessSteps
        <5> QED BY <1>1, <3>1, <4>1, <5>1, SafetyKept DEF Thoughts, Reasons
      <4>3. CASE CollectSignals \/ FetchDecision
        BY <1>3, <4>3, CollectSignalsEffect, FetchDecisionEffect
      <4>4. CASE CheckOscillation
        <5>1. UNCHANGED events
          BY <4>4 DEF CheckOscillation, OnlyCycle, memVars
        <5> QED BY <1>1, <4>4, <5>1, DetectorSafety
      <4>5. CASE CheckRollback
        <5>1. UNCHANGED events
          BY <4>5 DEF CheckRollback, OnlyCycle, memVars
        <5> QED BY <1>1, <3>1, <4>1, <4>5, <5>1, RollbackSafety
      <4>6. CASE ResolveTentative
        <5>1. UNCHANGED Reasons /\ pc = "resolveTentative"
          BY <4>6, ResolveTentativeEffect
        <5> QED BY <1>1, <3>1, <4>1, <5>1, SafetyKept DEF Reasons
      <4>7. CASE EstimateCost
        <5>1. UNCHANGED <<cyc.current, cyc.cand>> /\ pc = "estimateCost"
          BY <4>7, EstimateCostEffect
        <5> QED BY <1>1, <3>1, <4>1, <5>1, SafetyKept
      <4>8. CASE CheckApproval
        <5>1. /\ UNCHANGED cyc.current /\ pc = "checkApproval"
              /\ cyc'.cand["safety"] = cyc.cand["safety"]
          BY <4>8, CheckApprovalEffect DEF Layers
        <5> QED BY <1>1, <3>1, <4>1, <5>1, SafetyKept
      <4>9. CASE ResolveFinal
        <5>1. UNCHANGED Reasons /\ pc = "resolveFinal"
          BY <4>9, ResolveFinalEffect
        <5> QED BY <1>1, <3>1, <4>1, <5>1, SafetyKept DEF Reasons
      <4> QED
        BY <3>3, <4>2, <4>3, <4>4, <4>5, <4>6, <4>7, <4>8, <4>9 DEF Deliberation
    <3> QED BY <3>2, <3>3
  <2> QED BY <2>2, <2>3
<1> QED BY <1>2, <1>3

LEMMA SafetyInvHolds ==
  ASSUME ListLimit < AuditSize
  PROVE  Spec => [](TypeInv /\ DecisionInv /\ OpinionInv /\ PriceInv /\ SafetyInv)
<1>1. Init => SafetyInv
  <2>1. Init => /\ pc = "idle" /\ events = <<>> /\ auditSeen = audit
                /\ auditSynced = [w \in Workloads |-> TRUE]
    BY DEF Init
  <2> QED
    BY <2>1 DEF SafetyInv, EventsInv, Ordered, AuditLag, SafetySpeaks,
                SafetyIsGrounded, AfterDetector, Final
<1>2. Spec => [](TypeInv /\ DecisionInv /\ OpinionInv /\ PriceInv)
  BY PriceInvHolds
<1>3. TypeInv /\ OpinionInv /\ SafetyInv /\ [Next]_vars => SafetyInv'
  BY SafetyStep
<1>4. Spec => []SafetyInv
  BY <1>1, <1>2, <1>3, PTL DEF Spec
<1> QED BY <1>2, <1>4, PTL

(* Oscillation: while the detector's events show thrashing, from the check *)
(* to the patch, safety decides and has asked for the reported count or,   *)
(* to undo a listed scaling, for the one before it, provided the store     *)
(* keeps more records than checkRollback asks for (50 and 5 in the         *)
(* operator); events recorded earlier can only leave the window.           *)
THEOREM ThrashingIsHeld ==
  ASSUME ListLimit < AuditSize
  PROVE  Spec => []ThrashingHeld
<1>1. TypeInv /\ DecisionInv /\ OpinionInv /\ PriceInv /\ SafetyInv => ThrashingHeld
  <2> SUFFICES ASSUME TypeInv, DecisionInv, OpinionInv, PriceInv, SafetyInv,
                      Decided, Has("oscillation"), IsOscillating(events, Window),
                      cyc.ceiling = NoTarget, InBounds(cyc.current),
                      NEW asked, asked = cyc.cand["safety"]
               PROVE  /\ asked # NoDecision
                      /\ Between(cyc.validated, cyc.current, asked.target)
                      /\ asked.target # cyc.current => LedFrom(asked.target)
    BY DEF ThrashingHeld
  <2> DEFINE wants == Wants(Inputs(TRUE))
  <2>1. asked # NoDecision
    BY DEF SafetyInv, SafetySpeaks, Decided, AfterDetector, Final
  <2>2. asked.target # cyc.current => LedFrom(asked.target)
    <3>1. asked.target # cyc.current => Listed(asked.target)
      BY <2>1 DEF SafetyInv, SafetyIsGrounded, Decided, AfterDetector, Final
    <3> QED BY <3>1 DEF Listed, LedFrom
  <2>3. Between(cyc.validated, cyc.current, asked.target)
    <3>1. /\ asked.target \in Int /\ asked.target # NoTarget
          /\ wants["safety"] = asked.target
      BY <2>1, InputsWanted, SpokenCandidates, NoTargetAssumption DEF Layers
    <3>2. /\ Present(wants) # {}
          /\ WinningTarget(wants, FlagsOf(obj.spec)) = asked.target
      BY <3>1, PolicyFields, StrongestDecides DEF Present, Layers
    <3> QED BY <3>1, <3>2, StrongestInBounds
  <2> QED BY <2>1, <2>2, <2>3
<1>2. Spec => [](TypeInv /\ DecisionInv /\ OpinionInv /\ PriceInv /\ SafetyInv)
  BY SafetyInvHolds
<1> QED BY <1>1, <1>2, PTL

-----------------------------------------------------------------------------
(* What rollbacks rest on: every count that is reported, recorded or asked *)
(* for by safety is one the workload has had.                              *)
Known(w) == had[w] \cup {0}

WorldKnown ==
  \A d \in Deployments : /\ dep[d].status \in had[Workload[d]]
                         /\ seen[d].status \in had[Workload[d]]

Grounded(counts) == {r \in Records : r.prev \in counts}

RecordsKnown ==
  \A w \in Workloads : /\ audit[w] \in Seq(Grounded(Known(w)))
                       /\ auditSeen[w] \in Seq(Grounded(Known(w)))

AfterAnswer == AfterDetector \cup {"checkOscillation"}

AfterSignals == AfterAnswer \cup {"fetchDecision", "recordAudit"}

CycleKnown ==
  /\ pc \in AfterSignals => cyc.current \in Known(Workload[obj.spec.target])
  /\ pc \in AfterAnswer /\ cyc.cand["safety"] # NoDecision
       => cyc.cand["safety"].target \in Known(Workload[obj.spec.target])

HadInv == /\ had \in [Workloads -> SUBSET Nat]
          /\ WorldKnown /\ RecordsKnown /\ CycleKnown

(* History only grows, and takes in what runs after the step.              *)
LEMMA HistoryGrows ==
  ASSUME had \in [Workloads -> SUBSET Nat], HistoryNext, TypeInv, TypeInv'
  PROVE  /\ had' \in [Workloads -> SUBSET Nat]
         /\ \A w \in Workloads : had[w] \subseteq had'[w]
         /\ \A d \in Deployments : dep'[d].status \in had'[Workload[d]]
<1>1. had' = [w \in Workloads |->
                had[w] \cup {dep'[d].status : d \in {e \in Deployments : Workload[e] = w}}]
  BY DEF HistoryNext, Running
<1>2. \A d \in Deployments : Workload[d] \in Workloads /\ dep'[d].status \in Nat
  BY DEF Workloads, TypeInv, TypeOK, WorldTypes, WorkloadStates
<1> QED BY <1>1, <1>2

LEMMA SeenFollows ==
  ASSUME TypeInv, [Next]_vars
  PROVE  \A d \in Deployments :
           seen'[d].status = seen[d].status \/ seen'[d].status = dep[d].status
<1>1. dep \in [Deployments -> WorkloadStates] /\ seen \in [Deployments -> WorkloadStates]
  BY DEF TypeInv, TypeOK, WorldTypes
<1>2. ASSUME NEW d \in Deployments, SyncDeployment(d)
      PROVE  seen' = [seen EXCEPT ![d] = dep[d]]
  BY <1>2 DEF SyncDeployment
<1>3. Restart => seen' = dep
  BY DEF Restart
<1>4. Tick => \A d \in Deployments : seen'[d].status = seen[d].status
  <2>1. \A d \in Deployments : Thawed(seen[d]).status = seen[d].status
    BY <1>1 DEF Thawed, WorkloadStates
  <2> QED BY <2>1 DEF Tick
<1>5. \/ UNCHANGED seen \/ Restart \/ Tick
      \/ \E d \in Deployments : SyncDeployment(d)
  BY DEF Next, vars, envVars, Worker, Environment, User, Dequeue,
         ReleaseFinalizer, RejectSpec, AddFinalizer, CheckCooldown,
         CollectSignals, FetchDecision, CheckOscillation, CheckRollback,
         ResolveTentative, EstimateCost, CheckApproval, ResolveFinal,
         ValidateDecision, CheckCoordination, Actuate, RecordAudit,
         PersistStatus, SyncPolicy, TimerFires, SyncAudit, Rollout, EditSpec,
         DeletePolicy, WrittenByUser, ScaleExternally, Freeze,
         DeploymentWritten, OnlyCycle
<1> QED BY <1>1, <1>2, <1>3, <1>4, <1>5

LEMMA LongerSequences ==
  ASSUME NEW S, NEW T, S \subseteq T, NEW s \in Seq(S)
  PROVE  s \in Seq(T)
<1>1. /\ Len(s) \in Nat /\ DOMAIN s = 1..Len(s)
      /\ \A i \in 1..Len(s) : s[i] \in T
  OBVIOUS
<1>2. s = [i \in 1..Len(s) |-> s[i]]
  OBVIOUS
<1> QED BY <1>1, <1>2

(* The record of a cycle has the count the cycle read.                     *)
LEMMA RecordsStep ==
  ASSUME TypeInv, RecordsKnown, CycleKnown, [Next]_vars,
         \A w \in Workloads : had[w] \subseteq had'[w]
  PROVE  RecordsKnown'
<1> USE DEF Known
<1>1. \A w \in Workloads : Grounded(Known(w)) \subseteq Grounded(Known(w)')
  BY DEF Grounded
<1>2. /\ \A w \in Workloads : audit[w] \in Seq(Grounded(Known(w)'))
      /\ \A w \in Workloads : auditSeen[w] \in Seq(Grounded(Known(w)'))
  BY <1>1, LongerSequences DEF RecordsKnown
<1>3. /\ audit \in [Workloads -> Seq(Records)]
      /\ auditSeen \in [Workloads -> Seq(Records)]
  BY DEF TypeInv, TypeOK, MemoryTypes
<1>4. CASE UNCHANGED auditVars
  BY <1>2, <1>4 DEF RecordsKnown, auditVars
<1>5. CASE RecordAudit
  <2>1. PICK w : w = Workload[obj.spec.target]
    OBVIOUS
  <2> DEFINE record == [prev |-> cyc.current, new |-> cyc.validated,
                        dry |-> obj.spec.dryRun, sig |-> cyc.sig]
             stored == <<record>> \o Unpruned(w)
  <2>2. /\ pc = "recordAudit" /\ w \in Workloads /\ UNCHANGED auditSeen
        /\ audit' = audit \/ audit' = [audit EXCEPT ![w] = stored]
    BY <1>5, <2>1, TargetTypes DEF RecordAudit, Store
  <2>3. record \in Grounded(Known(w))
    <3>1. /\ cyc.current \in Nat /\ cyc.validated \in Nat
          /\ cyc.sig \in SignalType /\ obj.spec.dryRun \in BOOLEAN
      BY <2>2, SpecFields DEF TypeInv, TypeOK, CycleTypes, Objects, Progress,
                              Cycles, SpecType
    <3>2. cyc.current \in Known(w)
      BY <2>2, <2>1 DEF CycleKnown, AfterSignals
    <3> QED BY <3>1, <3>2 DEF Grounded, Records
  <2>4. audit[w] \in Seq(Grounded(Known(w))) /\ Len(audit[w]) <= AuditSize
    BY <2>2 DEF RecordsKnown, TypeInv, TypeOK, MemoryTypes
  <2> HIDE DEF record
  <2>5. stored \in Seq(Grounded(Known(w)))
    BY <2>3, <2>4, LimitsAreNat, NewestFirst DEF Unpruned
  <2> HIDE DEF stored
  <2>6. stored \in Seq(Grounded(Known(w)'))
    BY <1>1, <2>2, <2>5, LongerSequences
  <2>7. \A v \in Workloads : audit'[v] = audit[v] \/ (v = w /\ audit'[v] = stored)
    BY <1>3, <2>2
  <2> QED BY <1>2, <2>2, <2>6, <2>7 DEF RecordsKnown
<1>6. ASSUME NEW w \in Workloads, SyncAudit(w) PROVE RecordsKnown'
  <2>1. /\ auditSeen' = [auditSeen EXCEPT ![w] = audit[w]]
        /\ UNCHANGED audit
    BY <1>6 DEF SyncAudit
  <2>2. \A v \in Workloads : \/ auditSeen'[v] = auditSeen[v]
                             \/ auditSeen'[v] = audit[v]
    BY <1>3, <2>1
  <2> QED BY <1>2, <2>1, <2>2 DEF RecordsKnown
<1>7. CASE Restart
  BY <1>2, <1>7 DEF Restart, RecordsKnown
<1> QED BY <1>4, <1>5, <1>6, <1>7, AuditSteps

(* The count a cycle reads is the one its copy of the Deployment reports.  *)
LEMMA ReportedCount ==
  ASSUME TypeInv, CollectSignals, pc' = "fetchDecision"
  PROVE  cyc'.current \in {0, seen[obj.spec.target].status}
<1> DEFINE bundle(k, s) == [cyc EXCEPT !.current = k, !.sig = s]
<1>1. \A k, s : bundle(k, s).current = k
  BY DEF TypeInv, TypeOK, CycleTypes, Cycles
<1>2. PICK sig \in Signals, failing \in SUBSET Plugins :
        \E late \in SUBSET failing :
          IF \E n \in failing : obj.spec[n] = "required"
          THEN Fail
          ELSE IF Frozen((Plugins \ failing) \cup late)
          THEN /\ Goto("persistStatus")
               /\ cyc' = [bundle(ReportedReplicas(Plugins \ failing),
                                 AnnotatedSignals(sig, Plugins \ failing))
                            EXCEPT !.exit = "result",
                                   !.after = seen[obj.spec.target].freeze]
          ELSE Proceed("fetchDecision",
                       bundle(ReportedReplicas(Plugins \ failing),
                              AnnotatedSignals(sig, Plugins \ failing)))
  BY Zenon DEF CollectSignals
<1> HIDE DEF bundle
<1>3. cyc'.current = ReportedReplicas(Plugins \ failing)
  <2>1. ~Fail /\ ~Goto("persistStatus")
    BY DEF Fail, Goto
  <2> QED BY <1>1, <1>2, <2>1 DEF Proceed
<1> QED BY <1>3 DEF ReportedReplicas

LEMMA LeavingActuate ==
  ASSUME [Next]_vars, pc = "actuate", pc' = "recordAudit"
  PROVE  Actuate
BY DEF Next, vars, cycVars, Worker, Environment, User, Restart, Dequeue,
       ReleaseFinalizer, RejectSpec, AddFinalizer, CheckCooldown, CollectSignals,
       FetchDecision, CheckOscillation, CheckRollback, ResolveTentative,
       EstimateCost, CheckApproval, ResolveFinal, ValidateDecision,
       CheckCoordination, RecordAudit, PersistStatus, SyncPolicy, TimerFires,
       SyncDeployment, SyncAudit, Rollout, Tick, EditSpec, DeletePolicy,
       WrittenByUser, ScaleExternally, Freeze, DeploymentWritten

LEMMA CycleKnownKept ==
  ASSUME TypeInv, CycleKnown, \A w \in Workloads : had[w] \subseteq had'[w],
         UNCHANGED cyc.current, cyc'.cand["safety"] = cyc.cand["safety"],
         obj'.spec = obj.spec, pc \in AfterAnswer
  PROVE  CycleKnown'
<1>1. Workload[obj.spec.target] \in Workloads
  BY TargetTypes
<1> QED BY <1>1 DEF CycleKnown, AfterSignals, Known

(* What a cycle reads, and what safety asks for in it.                     *)
LEMMA CycleKnownStep ==
  ASSUME TypeInv, OpinionInv, HadInv, [Next]_vars,
         \A w \in Workloads : had[w] \subseteq had'[w]
  PROVE  CycleKnown'
<1> DEFINE w == Workload[obj.spec.target]
<1>1. /\ w \in Workloads /\ had[w] \subseteq had'[w]
      /\ obj.spec.target \in Deployments
  BY TargetTypes
<1> HIDE DEF w
<1>2. CycleKnown
  BY DEF HadInv
<1> USE DEF AfterSignals, AfterAnswer, AfterDetector, Final
<1>3. CASE pc' \notin AfterSignals
  BY <1>3 DEF CycleKnown
<1>4. CASE pc' \in AfterSignals /\ Actuate
  <2>1. UNCHANGED Thoughts /\ pc = "actuate" /\ obj' = obj
    BY <1>4, ThoughtlessSteps DEF Actuate, Goto, Fail
  <2> QED BY <1>2, <2>1, CycleKnownKept DEF Thoughts, Reasons
<1>5. CASE pc' \in AfterSignals /\ ~Deliberation /\ ~Actuate
  <2>1. UNCHANGED <<Thoughts, pc>> /\ obj'.spec = obj.spec
    <3>1. ~(pc = "actuate" /\ pc' = "recordAudit")
      BY <1>5, LeavingActuate
    <3> QED BY <1>5, <3>1, OtherSteps
  <2>2. CASE pc \in AfterAnswer
    BY <1>2, <2>1, <2>2, CycleKnownKept DEF Thoughts, Reasons
  <2>3. CASE pc \notin AfterAnswer
    BY <1>1, <1>2, <1>5, <2>1, <2>3 DEF CycleKnown, Known, Thoughts, Reasons, w
  <2> QED BY <2>2, <2>3
<1>6. CASE pc' \in AfterSignals /\ Deliberation
  <2>1. obj' = obj
    BY <1>6, DeliberationWritesNothing
  <2>2. CASE CheckCooldown \/ ValidateDecision \/ CheckCoordination \/ RecordAudit
    <3>1. /\ UNCHANGED Thoughts
          /\ pc \in {"validateDecision", "checkCoordination"}
      <4>1. ~RecordAudit /\ pc # "actuate" /\ pc # "ensureFinalizer"
        BY <1>6, <2>2 DEF RecordAudit, CheckCooldown, ValidateDecision,
                          CheckCoordination, Proceed, Goto
      <4> QED BY <1>6, <2>2, <4>1, ThoughtlessSteps
    <3> QED BY <1>2, <2>1, <3>1, CycleKnownKept DEF Thoughts, Reasons
  <2>3. CASE CollectSignals
    <3>1. pc' = "fetchDecision"
      BY <1>6, <2>3, CollectSignalsEffect
    <3>2. cyc'.current \in {0, seen[obj.spec.target].status}
      BY <2>3, <3>1, ReportedCount
    <3>3. seen[obj.spec.target].status \in had[w]
      BY <1>1 DEF HadInv, WorldKnown, w
    <3> QED BY <1>1, <2>1, <3>1, <3>2, <3>3 DEF CycleKnown, Known, w
  <2>4. CASE FetchDecision
    <3>1. /\ UNCHANGED cyc.current /\ cyc'.cand["safety"] = cyc.cand["safety"]
          /\ pc = "fetchDecision"
      BY <2>4, FetchDecisionEffect
    <3>2. cyc.cand["safety"] = NoDecision
      BY <3>1, NobodySpoke DEF OpinionInv, SafetyInTurn, BeforeAnswer
    <3> QED BY <1>1, <1>2, <2>1, <3>1, <3>2 DEF CycleKnown, Known, w
  <2>5. CASE CheckOscillation
    <3>1. /\ UNCHANGED cyc.current /\ pc = "checkOscillation"
          /\ cyc'.cand["safety"] \in {Hold(MaxConf), cyc.cand["safety"]}
      BY <2>5, CheckOscillationEffect
    <3>2. CASE cyc'.cand["safety"] = cyc.cand["safety"]
      BY <1>2, <2>1, <3>1, <3>2, CycleKnownKept
    <3>3. CASE cyc'.cand["safety"] = Hold(MaxConf)
      BY <1>1, <1>2, <2>1, <3>1, <3>3 DEF CycleKnown, Known, Hold, w
    <3> QED BY <3>1, <3>2, <3>3
  <2>6. CASE CheckRollback
    <3>1. /\ UNCHANGED cyc.current /\ pc = "checkRollback"
          /\ \/ cyc'.cand["safety"] = cyc.cand["safety"]
             \/ \E i \in DOMAIN ListedRecords :
                  ListedRecords[i].prev = cyc'.cand["safety"].target
      BY <2>6, CheckRollbackEffect
    <3>2. CASE cyc'.cand["safety"] = cyc.cand["safety"]
      BY <1>2, <2>1, <3>1, <3>2, CycleKnownKept
    <3>3. CASE \E i \in DOMAIN ListedRecords :
                 ListedRecords[i].prev = cyc'.cand["safety"].target
      <4>1. ListedRecords \in Seq(Grounded(Known(w)))
        BY <1>1 DEF HadInv, RecordsKnown, ListedRecords, w
      <4>2. \A i \in DOMAIN ListedRecords : ListedRecords[i] \in Grounded(Known(w))
        BY <4>1
      <4>3. cyc'.cand["safety"].target \in Known(w)
        BY <3>3, <4>2 DEF Grounded
      <4> QED BY <1>1, <1>2, <2>1, <3>1, <4>3 DEF CycleKnown, Known, w
    <3> QED BY <3>1, <3>2, <3>3
  <2>7. CASE ResolveTentative \/ EstimateCost \/ CheckApproval \/ ResolveFinal
    <3>1. /\ UNCHANGED cyc.current /\ cyc'.cand["safety"] = cyc.cand["safety"]
          /\ pc \in AfterAnswer
      BY <2>7, ResolveTentativeEffect, EstimateCostEffect, CheckApprovalEffect,
         ResolveFinalEffect DEF Reasons, Layers
    <3> QED BY <1>2, <2>1, <3>1, CycleKnownKept
  <2> QED
    BY <1>6, <2>2, <2>3, <2>4, <2>5, <2>6, <2>7 DEF Deliberation
<1> QED BY <1>3, <1>4, <1>5, <1>6

LEMMA HadInit == Init /\ HistoryInit => HadInv
<1> SUFFICES ASSUME Init, HistoryInit PROVE HadInv
  OBVIOUS
<1>1. TypeInv
  BY InitTypes
<1>2. /\ had = [w \in Workloads |-> Running(w)]
      /\ seen = dep /\ pc = "idle" /\ auditSeen = audit
      /\ audit = [w \in Workloads |-> <<>>]
  <2>1. had = [w \in Workloads |-> Running(w)]
    BY DEF HistoryInit
  <2> QED BY <2>1, Zenon DEF Init
<1>3. /\ \A w \in Workloads : Running(w) \subseteq Nat
      /\ \A d \in Deployments : /\ Workload[d] \in Workloads
                               /\ dep[d].status \in Running(Workload[d])
  BY <1>1 DEF Running, Workloads, TypeInv, TypeOK, WorldTypes, WorkloadStates
<1>4. had \in [Workloads -> SUBSET Nat] /\ WorldKnown
  BY <1>2, <1>3 DEF WorldKnown
<1>5. RecordsKnown
  <2>1. \A S : <<>> \in Seq(S)
    OBVIOUS
  <2> QED BY <1>2, <2>1 DEF RecordsKnown
<1>6. CycleKnown
  BY <1>2 DEF CycleKnown, AfterSignals, AfterAnswer, AfterDetector, Final
<1> QED BY <1>4, <1>5, <1>6 DEF HadInv

LEMMA HadStep ==
  ASSUME TypeInv, TypeInv', OpinionInv, HadInv,
         [Next /\ HistoryNext]_<<vars, histVars>>
  PROVE  HadInv'
<1>1. CASE Next /\ HistoryNext
  <2>1. /\ had' \in [Workloads -> SUBSET Nat]
        /\ \A w \in Workloads : had[w] \subseteq had'[w]
        /\ \A d \in Deployments : dep'[d].status \in had'[Workload[d]]
    BY <1>1, HistoryGrows DEF HadInv
  <2>2. WorldKnown'
    <3>1. \A d \in Deployments : /\ Workload[d] \in Workloads
                                 /\ dep[d].status \in had[Workload[d]]
                                 /\ seen[d].status \in had[Workload[d]]
      BY DEF Workloads, HadInv, WorldKnown
    <3>2. \A d \in Deployments :
            seen'[d].status = seen[d].status \/ seen'[d].status = dep[d].status
      BY <1>1, SeenFollows
    <3> QED BY <2>1, <3>1, <3>2 DEF WorldKnown
  <2>3. RecordsKnown' /\ CycleKnown'
    BY <1>1, <2>1, RecordsStep, CycleKnownStep DEF HadInv
  <2> QED BY <2>1, <2>2, <2>3 DEF HadInv
<1>2. CASE UNCHANGED <<vars, histVars>>
  BY <1>2 DEF vars, histVars, auditVars, memVars, cycVars, envVars, HadInv,
              WorldKnown, RecordsKnown, CycleKnown, Known
<1> QED BY <1>1, <1>2

(* Rollback: what safety asks for is a count the workload has really had,  *)
(* or 0 after a failure of the metrics plugin, for any number of restarts, *)
(* lost records, late informers and counts set by others in between.       *)
THEOREM RollbacksAreGrounded == HistorySpec => []RollbackGrounded
<1>1. HistorySpec => Spec
  <2>1. [Next /\ HistoryNext]_<<vars, histVars>> => [Next]_vars
    OBVIOUS
  <2> QED BY <2>1, PTL DEF HistorySpec, Spec
<1>2. HistorySpec => [](TypeInv /\ OpinionInv)
  BY <1>1, OpinionInvHolds, PTL
<1>3. HistorySpec => []HadInv
  BY <1>2, HadInit, HadStep, PTL DEF HistorySpec
<1>4. HadInv => RollbackGrounded
  BY DEF HadInv, CycleKnown, RollbackGrounded, Decided, AfterAnswer,
         AfterDetector, Final, Known
<1> QED BY <1>3, <1>4, PTL
-----------------------------------------------------------------------------
(* What the audit store holds is what was written to it last.              *)

StepsOf(records) ==
  [i \in DOMAIN records |->
     [from |-> records[i].prev, to |-> records[i].new, live |-> ~records[i].dry]]

Mirrored == written = [w \in Workloads |-> StepsOf(audit[w])]

(* Both drop the oldest when they are full.                                *)
LEMMA NewestKept ==
  ASSUME NEW S, NEW a \in Seq(S), NEW r \in S, Len(a) <= AuditSize
  PROVE  LET step == [from |-> r.prev, to |-> r.new, live |-> ~r.dry]
             k == IF Len(a) < AuditSize THEN Len(a) ELSE AuditSize - 1
         IN  StepsOf(<<r>> \o SubSeq(a, 1, k)) = Remembered(<<step>> \o StepsOf(a))
<1> DEFINE step == [from |-> r.prev, to |-> r.new, live |-> ~r.dry]
           k == IF Len(a) < AuditSize THEN Len(a) ELSE AuditSize - 1
           T == {step} \cup {StepsOf(a)[i] : i \in DOMAIN a}
           kept == SubSeq(a, 1, k)
           one == <<r>>
           first == <<step>>
           s == one \o kept
           t == first \o StepsOf(a)
<1>1. k \in 0..Len(a) /\ Len(a) \in Nat /\ AuditSize \in Nat \ {0}
      /\ (IF Len(a) + 1 < AuditSize THEN Len(a) + 1 ELSE AuditSize) = k + 1
  BY LimitsAreNat
<1>2. /\ StepsOf(a) \in Seq(T) /\ Len(StepsOf(a)) = Len(a)
      /\ \A i \in 1..Len(a) :
           StepsOf(a)[i] = [from |-> a[i].prev, to |-> a[i].new, live |-> ~a[i].dry]
  <2>1. StepsOf(a) = [i \in 1..Len(a) |-> StepsOf(a)[i]]
    BY DEF StepsOf
  <2>2. DOMAIN a = 1..Len(a)
    OBVIOUS
  <2>3. \A i \in 1..Len(a) : StepsOf(a)[i] \in T
    BY <2>2
  <2> HIDE DEF T
  <2>4. StepsOf(a) \in [1..Len(a) -> T]
    BY <2>1, <2>3
  <2> QED BY <1>1, <2>2, <2>4 DEF StepsOf
<1>3. /\ kept \in Seq(S) /\ Len(kept) = k /\ \A i \in 1..k : kept[i] = a[i]
  BY <1>1, SubSeqProperties
<1>4. /\ one \in Seq(S) /\ Len(one) = 1 /\ one[1] = r
      /\ first \in Seq(T) /\ Len(first) = 1 /\ first[1] = step
  OBVIOUS
<1> HIDE DEF kept, one, first, step, T
<1>5. /\ s \in Seq(S) /\ Len(s) = Len(one) + Len(kept)
      /\ \A i \in 1..Len(one) + Len(kept) :
           s[i] = IF i <= Len(one) THEN one[i] ELSE kept[i - Len(one)]
  BY <1>3, <1>4, ConcatProperties
<1>6. /\ t \in Seq(T) /\ Len(t) = Len(first) + Len(StepsOf(a))
      /\ \A i \in 1..Len(first) + Len(StepsOf(a)) :
           t[i] = IF i <= Len(first) THEN first[i] ELSE StepsOf(a)[i - Len(first)]
  BY <1>2, <1>4, ConcatProperties
<1> HIDE DEF s, t, k
<1>7. /\ DOMAIN s = 1..k + 1
      /\ \A i \in 1..k + 1 : s[i] = IF i <= 1 THEN r ELSE a[i - 1]
  BY <1>1, <1>3, <1>4, <1>5
<1>8. /\ Len(t) = Len(a) + 1 /\ k + 1 \in 1..Len(t)
      /\ \A i \in 1..k + 1 : t[i] = IF i <= 1 THEN step ELSE StepsOf(a)[i - 1]
  BY <1>1, <1>2, <1>4, <1>6
<1>9. Remembered(t) = SubSeq(t, 1, k + 1)
  BY <1>1, <1>8 DEF Remembered
<1>10. SubSeq(t, 1, k + 1) = [i \in 1..k + 1 |-> t[i]]
  <2>1. /\ SubSeq(t, 1, k + 1) \in Seq(T) /\ Len(SubSeq(t, 1, k + 1)) = k + 1
        /\ \A i \in 1..k + 1 : SubSeq(t, 1, k + 1)[i] = t[i]
    BY <1>1, <1>6, <1>8, SubSeqProperties
  <2> QED BY <1>1, <2>1
<1>11. \A i \in 1..k + 1 :
         [from |-> s[i].prev, to |-> s[i].new, live |-> ~s[i].dry] = t[i]
  <2> SUFFICES ASSUME NEW i \in 1..k + 1
               PROVE  [from |-> s[i].prev, to |-> s[i].new, live |-> ~s[i].dry] = t[i]
    OBVIOUS
  <2>1. CASE i <= 1
    BY <1>7, <1>8, <2>1 DEF step
  <2>2. CASE ~(i <= 1)
    <3>1. i - 1 \in 1..Len(a)
      BY <1>1, <2>2
    <3> QED BY <1>2, <1>7, <1>8, <2>2, <3>1
  <2> QED BY <2>1, <2>2
<1>12. StepsOf(s) = Remembered(t)
  BY <1>7, <1>9, <1>10, <1>11 DEF StepsOf
<1> QED BY <1>12 DEF s, t, k, kept, one, first, step

LEMMA MirrorStep ==
  ASSUME TypeInv, Mirrored, [Next]_vars, HistoryNext
  PROVE  Mirrored'
<1> DEFINE step == [from |-> cyc.current, to |-> cyc.validated,
                    live |-> ~obj.spec.dryRun]
           target == Workload[obj.spec.target]
<1>1. written' = [w \in Workloads |->
                    IF Recorded(w) THEN Remembered(<<step>> \o written[w])
                                   ELSE written[w]]
  BY DEF HistoryNext
<1>2. audit \in [Workloads -> Seq(Records)] /\ auditSynced \in [Workloads -> BOOLEAN]
  BY DEF TypeInv, TypeOK, MemoryTypes
<1>3. CASE UNCHANGED audit /\ \A w \in Workloads : ~Recorded(w)
  BY <1>1, <1>3 DEF Mirrored
<1>4. CASE RecordAudit
  <2> DEFINE record == [prev |-> cyc.current, new |-> cyc.validated,
                        dry |-> obj.spec.dryRun, sig |-> cyc.sig]
             stored == <<record>> \o Unpruned(target)
  <2>1. /\ pc = "recordAudit" /\ target \in Workloads
        /\ \/ UNCHANGED <<audit, auditSynced>>
           \/ /\ auditSynced[target] /\ audit' = [audit EXCEPT ![target] = stored]
              /\ auditSynced' = [auditSynced EXCEPT ![target] = FALSE]
    BY <1>4, TargetTypes DEF RecordAudit, Store
  <2>2. CASE UNCHANGED <<audit, auditSynced>>
    BY <1>3, <2>2 DEF Recorded
  <2>3. CASE /\ auditSynced[target] /\ audit' = [audit EXCEPT ![target] = stored]
             /\ auditSynced' = [auditSynced EXCEPT ![target] = FALSE]
    <3>1. \A w \in Workloads : Recorded(w) <=> w = target
      BY <1>2, <2>1, <2>3 DEF Recorded
    <3>2. StepsOf(stored) = Remembered(<<step>> \o StepsOf(audit[target]))
      <4>1. record \in Records
        <5>1. /\ cyc.current \in Nat /\ cyc.validated \in Nat
              /\ cyc.sig \in SignalType /\ obj.spec.dryRun \in BOOLEAN
          BY <2>1, SpecFields DEF TypeInv, TypeOK, CycleTypes, Objects, Progress,
                                  Cycles, SpecType
        <5> QED BY <5>1 DEF Records
      <4>2. audit[target] \in Seq(Records) /\ Len(audit[target]) <= AuditSize
        BY <2>1 DEF TypeInv, TypeOK, MemoryTypes
      <4>3. step = [from |-> record.prev, to |-> record.new, live |-> ~record.dry]
        OBVIOUS
      <4> HIDE DEF record, step, target
      <4> QED BY <4>1, <4>2, <4>3, NewestKept DEF Unpruned
    <3> HIDE DEF stored, step, target
    <3>3. ASSUME NEW w \in Workloads
          PROVE  (IF Recorded(w) THEN Remembered(<<step>> \o written[w])
                                 ELSE written[w]) = StepsOf(audit'[w])
      <4>1. written[w] = StepsOf(audit[w])
        BY DEF Mirrored
      <4>2. CASE w = target
        BY <1>2, <2>3, <3>1, <3>2, <4>1, <4>2
      <4>3. CASE w # target
        BY <1>2, <2>3, <3>1, <4>1, <4>3
      <4> QED BY <4>2, <4>3
    <3> QED BY <1>1, <3>3 DEF Mirrored
  <2> QED BY <2>1, <2>2, <2>3
<1>5. CASE UNCHANGED auditVars
  BY <1>3, <1>5 DEF Recorded, auditVars
<1>6. CASE Restart
  <2>1. UNCHANGED audit /\ \A w \in Workloads : auditSynced'[w] = TRUE
    BY <1>6 DEF Restart
  <2> QED BY <1>3, <2>1 DEF Recorded
<1>7. ASSUME NEW v \in Workloads, SyncAudit(v) PROVE Mirrored'
  <2>1. /\ UNCHANGED audit
        /\ \A w \in Workloads : auditSynced'[w] = auditSynced[w] \/ auditSynced'[w] = TRUE
    BY <1>2, <1>7 DEF SyncAudit
  <2> QED BY <1>3, <2>1 DEF Recorded
<1> QED BY <1>4, <1>5, <1>6, <1>7, AuditSteps

LEMMA LeavingRollback ==
  ASSUME [Next]_vars, pc = "checkRollback", pc' = "resolveTentative"
  PROVE  CheckRollback
BY DEF Next, vars, cycVars, Worker, Environment, User, Restart, Dequeue,
       ReleaseFinalizer, RejectSpec, AddFinalizer, CheckCooldown, CollectSignals,
       FetchDecision, CheckOscillation, ResolveTentative, EstimateCost,
       CheckApproval, ResolveFinal, ValidateDecision, CheckCoordination, Actuate,
       RecordAudit, PersistStatus, SyncPolicy, TimerFires, SyncDeployment,
       SyncAudit, Rollout, Tick, EditSpec, DeletePolicy, WrittenByUser,
       ScaleExternally, Freeze, DeploymentWritten

(* The first of the listed records that led to the present count is the    *)
(* first of all that were written.                                         *)
LEMMA LatestIsFirst ==
  ASSUME TypeInv, AuditLag, Mirrored, [Next]_vars
  PROVE  LatestUndone
<1> DEFINE w == Workload[obj.spec.target]
           led == LedTo(written[w], cyc.current)
<1> SUFFICES ASSUME pc = "checkRollback", pc' = "resolveTentative", auditSynced[w],
                    cyc'.cand["safety"] # cyc.cand["safety"]
             PROVE  \E i \in led : /\ \A j \in led : i <= j
                                   /\ cyc'.cand["safety"].target = written[w][i].from
  BY DEF LatestUndone
<1>1. PICK i \in DOMAIN ListedRecords :
        /\ ListedRecords[i].prev = cyc'.cand["safety"].target
        /\ LedHere(ListedRecords[i])
        /\ \A j \in DOMAIN ListedRecords : j < i => ~LedHere(ListedRecords[j])
  BY LeavingRollback, CheckRollbackEffect
<1>2. w \in Workloads /\ ListedRecords = audit[w] /\ audit[w] \in Seq(Records)
  BY TargetTypes DEF AuditLag, ListedRecords, TypeInv, TypeOK, MemoryTypes
<1>3. written[w] = StepsOf(audit[w])
  BY <1>2 DEF Mirrored
<1>4. /\ DOMAIN written[w] = DOMAIN ListedRecords
      /\ DOMAIN ListedRecords \subseteq Nat
      /\ \A j \in DOMAIN ListedRecords :
           /\ written[w][j].from = ListedRecords[j].prev
           /\ written[w][j].to = ListedRecords[j].new
           /\ written[w][j].live <=> ~ListedRecords[j].dry
  <2>1. DOMAIN ListedRecords \subseteq Nat
    BY <1>2
  <2>2. written[w] = StepsOf(ListedRecords)
    BY <1>2, <1>3
  <2>3. ASSUME NEW records
        PROVE  /\ DOMAIN StepsOf(records) = DOMAIN records
               /\ \A j \in DOMAIN records :
                    /\ StepsOf(records)[j].from = records[j].prev
                    /\ StepsOf(records)[j].to = records[j].new
                    /\ StepsOf(records)[j].live <=> ~records[j].dry
    BY DEF StepsOf
  <2> QED BY <2>1, <2>2, <2>3
<1>5. \A j \in DOMAIN ListedRecords : j \in led <=> LedHere(ListedRecords[j])
  BY <1>4 DEF LedTo, LedHere
<1>6. led \subseteq DOMAIN ListedRecords
  BY <1>4 DEF LedTo
<1> HIDE DEF led, w
<1> QED BY <1>1, <1>4, <1>5, <1>6

(* Rollback: unless the informer is late, it is the latest scaling to the  *)
(* present count that is undone, whatever was written, lost and pruned in  *)
(* between (selectRollbackRecord, pruneOldest).                            *)
THEOREM LatestIsUndone == HistorySpec => UndoesTheLatest
<1>1. Init /\ HistoryInit => AuditLag /\ Mirrored
  <2> SUFFICES ASSUME Init, HistoryInit PROVE AuditLag /\ Mirrored
    OBVIOUS
  <2>1. /\ auditSeen = audit /\ audit = [w \in Workloads |-> <<>>]
        /\ auditSynced = [w \in Workloads |-> TRUE]
    BY Zenon DEF Init
  <2>2. written = [w \in Workloads |-> <<>>] /\ StepsOf(<<>>) = <<>>
    BY DEF HistoryInit, StepsOf
  <2> QED BY <2>1, <2>2 DEF AuditLag, Mirrored
<1>2. TypeInv /\ AuditLag /\ Mirrored /\ [Next /\ HistoryNext]_<<vars, histVars>>
        => (AuditLag /\ Mirrored)'
  <2>1. ASSUME TypeInv, AuditLag, Mirrored, Next, HistoryNext
        PROVE  (AuditLag /\ Mirrored)'
    BY <2>1, AuditLagStep, MirrorStep
  <2>2. ASSUME AuditLag, Mirrored, UNCHANGED <<vars, histVars>>
        PROVE  (AuditLag /\ Mirrored)'
    BY <2>2 DEF vars, histVars, memVars, auditVars, AuditLag, Mirrored
  <2> QED BY <2>1, <2>2
<1>3. TypeInv /\ AuditLag /\ Mirrored /\ [Next /\ HistoryNext]_<<vars, histVars>>
        => [LatestUndone]_<<vars, histVars>>
  <2>1. [Next /\ HistoryNext]_<<vars, histVars>> => [Next]_vars
    OBVIOUS
  <2> QED BY <2>1, LatestIsFirst
<1>4. HistorySpec => Spec
  <2>1. [Next /\ HistoryNext]_<<vars, histVars>> => [Next]_vars
    OBVIOUS
  <2> QED BY <2>1, PTL DEF HistorySpec, Spec
<1>5. HistorySpec => []TypeInv
  BY <1>4, OpinionInvHolds, PTL
<1> QED BY <1>1, <1>2, <1>3, <1>5, PTL DEF HistorySpec, UndoesTheLatest
=============================================================================
