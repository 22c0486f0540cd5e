----------------------------- MODULE CopyProofs -----------------------------
(***************************************************************************)
(* What the worker may rely on although it reads copies.                   *)
(*                                                                         *)
(* The finalizer: past ensureFinalizer the stored object carries it, only  *)
(* a copy that is being deleted releases it, and informers never go back   *)
(* to a copy from before a deletion.                                       *)
(*                                                                         *)
(* The cooldown: the LastScaleTime of a copy that was current when it was  *)
(* read covers the last change whose time was stored, until the worker     *)
(* changes the Deployment itself or its status update is refused.          *)
(*                                                                         *)
(* The contract: with both, and because a copy that nobody has written     *)
(* since is the stored object, every step of the loop is a step of         *)
(* ScalingContract.                                                        *)
(***************************************************************************)
EXTENDS DecisionProofs

(* The stored object exists and nobody but the operator can let it go.     *)
Kept(p) == api[p].fin /\ api[p].life # "gone"

InformersLag ==
  \A p \in Policies :
    /\ synced[p] => cache[p] = api[p]
    /\ cache[p].life = "live" /\ cache[p].fin => Kept(p)
    /\ cache[p].life # "live" => api[p].life # "live"

FreshCopy ==
  pc # "idle" /\ fresh => obj.life = api[cur].life /\ obj.fin = api[cur].fin

DeletionSeen == pc # "idle" /\ obj.life # "live" => cache[cur].life # "live"

CopyKept ==
  \/ pc \in Guarded
  \/ pc = "ensureFinalizer" /\ obj.life = "live" /\ obj.fin
  => Kept(cur)

FinalizerInv == InformersLag /\ FreshCopy /\ DeletionSeen /\ CopyKept

LEMMA InitialPolicies ==
  ASSUME Init, NEW p \in Policies
  PROVE  api[p].life = "live" /\ ~api[p].fin /\ api[p].last = MaxAge
<1>1. PICK s \in InitSpecs :
        api = [q \in Policies |-> [Blank EXCEPT !.spec = s[q], !.life = "live"]]
  BY DEF Init
<1>2. /\ [Blank EXCEPT !.spec = s[p], !.life = "live"].life = "live"
      /\ [Blank EXCEPT !.spec = s[p], !.life = "live"].fin = FALSE
      /\ [Blank EXCEPT !.spec = s[p], !.life = "live"].last = MaxAge
  BY DEF Blank
<1> QED BY <1>1, <1>2

LEMMA FinalizerInit == Init => FinalizerInv
<1> SUFFICES ASSUME Init PROVE FinalizerInv
  OBVIOUS
<1>1. \A p \in Policies : api[p].life = "live" /\ ~api[p].fin
  BY InitialPolicies
<1>2. cache = api /\ pc = "idle"
  BY DEF Init
<1> QED
  BY <1>1, <1>2 DEF FinalizerInv, InformersLag, FreshCopy, DeletionSeen,
                    CopyKept, Guarded

(* A write of a fresh copy that keeps life and finalizer, or adds the      *)
(* finalizer.                                                              *)
LEMMA KeepingTheLife ==
  ASSUME TypeInv, FinalizerInv, pc # "idle", NEW o, o.life = obj.life,
         o.fin = obj.fin \/ o.fin = TRUE, Stored(o)
  PROVE  /\ InformersLag' /\ api'[cur].life = api[cur].life
         /\ api'[cur].life = o.life /\ api'[cur].fin = o.fin
         /\ UNCHANGED cache
<1>1. /\ cur \in Policies /\ obj.life = api[cur].life /\ obj.fin = api[cur].fin
      /\ api[cur].fin \in BOOLEAN
  BY DEF FinalizerInv, FreshCopy, Stored, TypeInv, TypeOK, CycleTypes,
         StoreTypes, Objects
<1>2. /\ \A p \in Policies : api'[p] = IF p = cur THEN o ELSE api[p]
      /\ \A p \in Policies : synced'[p] = IF p = cur THEN FALSE ELSE synced[p]
      /\ cache' = cache
  BY DEF Stored, TypeInv, TypeOK, StoreTypes
<1>3. InformersLag'
  <2> SUFFICES ASSUME NEW p \in Policies
               PROVE  /\ synced'[p] => cache'[p] = api'[p]
                      /\ cache'[p].life = "live" /\ cache'[p].fin => Kept(p)'
                      /\ cache'[p].life # "live" => api'[p].life # "live"
    BY DEF InformersLag
  <2>1. CASE p = cur
    BY <1>1, <1>2, <2>1 DEF FinalizerInv, InformersLag, Kept
  <2>2. CASE p # cur
    BY <1>2, <2>2 DEF FinalizerInv, InformersLag, Kept
  <2> QED BY <2>1, <2>2
<1> QED BY <1>1, <1>2, <1>3

LEMMA ReturnForgets ==
  ASSUME NEW delay, Return(delay)
  PROVE  FreshCopy' /\ DeletionSeen' /\ CopyKept'
BY DEF Return, FreshCopy, DeletionSeen, CopyKept, Guarded

LEMMA FailWritesNothing ==
  ASSUME FinalizerInv, pc # "idle", Fail, UNCHANGED apiVars
  PROVE  FinalizerInv'
BY DEF Fail, Goto, FinalizerInv, InformersLag, FreshCopy, DeletionSeen,
       CopyKept, Kept, Guarded, apiVars

(* A write without an answer leaves a copy that is no longer the newest.   *)
LEMMA UnansweredLeavesTheCycle ==
  ASSUME FinalizerInv, pc = "ensureFinalizer", NEW o, FailUnanswered(o),
         InformersLag'
  PROVE  FinalizerInv'
BY DEF FailUnanswered, Stored, FinalizerInv, FreshCopy, DeletionSeen, CopyKept,
       Guarded

LEMMA FinalizerDequeue ==
  ASSUME TypeInv, FinalizerInv, NEW p \in Policies, Dequeue(p)
  PROVE  FinalizerInv'
<1>1. UNCHANGED <<api, cache, synced>> /\ pc = "idle" /\ cur' = p
  BY DEF Dequeue, apiVars
<1>2. InformersLag'
  BY <1>1 DEF FinalizerInv, InformersLag, Kept
<1>3. CASE cache[p].life = "gone"
  <2>1. pc' = "idle"
    BY <1>1, <1>3 DEF Dequeue
  <2> QED BY <1>2, <2>1 DEF FinalizerInv, FreshCopy, DeletionSeen, CopyKept, Guarded
<1>4. CASE cache[p].life # "gone"
  <2>1. pc' = "ensureFinalizer" /\ obj' = cache[p] /\ fresh' = synced[p]
    BY <1>4 DEF Dequeue
  <2> QED
    BY <1>1, <1>2, <2>1 DEF FinalizerInv, InformersLag, FreshCopy, DeletionSeen,
                            CopyKept, Kept, Guarded
<1> QED BY <1>3, <1>4

LEMMA FinalizerRelease ==
  ASSUME TypeInv, FinalizerInv, ReleaseFinalizer
  PROVE  FinalizerInv'
<1>1. pc = "ensureFinalizer" /\ obj.life = "deleting"
  BY DEF ReleaseFinalizer
<1>2. ASSUME Stored([obj EXCEPT !.life = "gone", !.fin = FALSE])
      PROVE  InformersLag'
  <2> DEFINE o == [obj EXCEPT !.life = "gone", !.fin = FALSE]
  <2>1. o.life = "gone"
    BY DEF TypeInv, TypeOK, CycleTypes, Objects
  <2>2. cur \in Policies /\ cache[cur].life # "live"
    BY <1>1 DEF FinalizerInv, DeletionSeen, TypeInv, TypeOK, CycleTypes
  <2>3. /\ \A p \in Policies : api'[p] = IF p = cur THEN o ELSE api[p]
        /\ \A p \in Policies : synced'[p] = IF p = cur THEN FALSE ELSE synced[p]
        /\ cache' = cache
    BY <1>2 DEF Stored, TypeInv, TypeOK, StoreTypes
  <2> HIDE DEF o
  <2> QED BY <2>1, <2>2, <2>3 DEF FinalizerInv, InformersLag, Kept
<1>3. CASE /\ Stored([obj EXCEPT !.life = "gone", !.fin = FALSE])
           /\ Return(NoTimer)
  BY <1>2, <1>3, ReturnForgets DEF FinalizerInv
<1>4. CASE Fail /\ UNCHANGED apiVars
  BY <1>1, <1>4, FailWritesNothing
<1>5. CASE FailUnanswered([obj EXCEPT !.life = "gone", !.fin = FALSE])
  <2>1. Stored([obj EXCEPT !.life = "gone", !.fin = FALSE])
    BY <1>5 DEF FailUnanswered
  <2> QED BY <1>1, <1>2, <1>5, <2>1, UnansweredLeavesTheCycle
<1> QED BY <1>3, <1>4, <1>5 DEF ReleaseFinalizer, Refused, apiVars

LEMMA FinalizerReject ==
  ASSUME TypeInv, FinalizerInv, RejectSpec
  PROVE  FinalizerInv'
<1>1. pc = "ensureFinalizer"
  BY DEF RejectSpec
<1>2. /\ [obj EXCEPT !.rejected = TRUE].life = obj.life
      /\ [obj EXCEPT !.rejected = TRUE].fin = obj.fin
  BY DEF TypeInv, TypeOK, CycleTypes, Objects
<1>3. CASE Return(NoTimer) /\ Stored([obj EXCEPT !.rejected = TRUE])
  BY <1>1, <1>2, <1>3, KeepingTheLife, ReturnForgets DEF FinalizerInv
<1>4. CASE Return(NoTimer) /\ UNCHANGED apiVars
  <2>1. InformersLag'
    BY <1>4 DEF FinalizerInv, InformersLag, Kept, apiVars
  <2> QED BY <1>4, <2>1, ReturnForgets DEF FinalizerInv
<1>5. CASE Fail /\ UNCHANGED apiVars
  BY <1>1, <1>5, FailWritesNothing
<1>6. CASE FailUnanswered([obj EXCEPT !.rejected = TRUE])
  <2>1. Stored([obj EXCEPT !.rejected = TRUE])
    BY <1>6 DEF FailUnanswered
  <2> QED BY <1>1, <1>2, <1>6, <2>1, KeepingTheLife, UnansweredLeavesTheCycle
<1> QED BY <1>3, <1>4, <1>5, <1>6 DEF RejectSpec, Refused, apiVars

LEMMA FinalizerAdd ==
  ASSUME TypeInv, FinalizerInv, AddFinalizer
  PROVE  FinalizerInv'
<1>1. pc = "ensureFinalizer" /\ obj.life = "live" /\ cur \in Policies
  BY DEF AddFinalizer, TypeInv, TypeOK, CycleTypes
<1>2. CASE obj.fin /\ Proceed("checkCooldown", cyc) /\ OnlyCycle
  BY <1>1, <1>2 DEF Proceed, Goto, OnlyCycle, apiVars, FinalizerInv, InformersLag,
                    FreshCopy, DeletionSeen, CopyKept, Kept, Guarded
<1>3. /\ [obj EXCEPT !.fin = TRUE].life = obj.life
      /\ [obj EXCEPT !.fin = TRUE].fin = TRUE
  BY DEF TypeInv, TypeOK, CycleTypes, Objects
<1>4. CASE /\ Stored([obj EXCEPT !.fin = TRUE])
           /\ obj' = [obj EXCEPT !.fin = TRUE] /\ pc' = "checkCooldown"
           /\ UNCHANGED <<cur, fresh>>
  <2>1. /\ InformersLag' /\ api'[cur].life = "live" /\ api'[cur].fin = TRUE
        /\ cache' = cache
    BY <1>1, <1>4, <1>3, KeepingTheLife
  <2> QED
    BY <1>1, <1>4, <1>3, <2>1 DEF FinalizerInv, FreshCopy, DeletionSeen,
                                  CopyKept, Kept
<1>5. CASE Fail /\ UNCHANGED apiVars
  BY <1>1, <1>5, FailWritesNothing
<1>6. CASE FailUnanswered([obj EXCEPT !.fin = TRUE])
  <2>1. Stored([obj EXCEPT !.fin = TRUE])
    BY <1>6 DEF FailUnanswered
  <2> QED BY <1>1, <1>3, <1>6, <2>1, KeepingTheLife, UnansweredLeavesTheCycle
<1> QED BY <1>2, <1>4, <1>5, <1>6 DEF AddFinalizer, Refused, apiVars

LEMMA FinalizerDeliberation ==
  ASSUME TypeInv, FinalizerInv, Deliberation \/ Actuate
  PROVE  FinalizerInv'
<1>1. /\ UNCHANGED <<api, cache, synced, cur, obj, fresh>>
      /\ pc \in Guarded /\ pc' \in Guarded \cup {"persistStatus"}
  <2>1. CASE Deliberation
    BY <2>1, DeliberationWritesNothing
  <2>2. CASE Actuate
    BY <2>2 DEF Actuate, Goto, Fail, apiVars, Guarded, Steps
  <2> QED BY <2>1, <2>2
<1> QED
  BY <1>1 DEF FinalizerInv, InformersLag, FreshCopy, DeletionSeen, CopyKept,
              Kept, Guarded

LEMMA FinalizerPersist ==
  ASSUME TypeInv, FinalizerInv, PersistStatus
  PROVE  FinalizerInv'
<1>1. pc = "persistStatus"
  BY DEF PersistStatus
<1>2. StatusUpdate.life = obj.life /\ StatusUpdate.fin = obj.fin
  BY DEF StatusUpdate, TypeInv, TypeOK, CycleTypes, Objects
<1>3. InformersLag' /\ cache' = cache
  <2>1. CASE StatusStored
    BY <1>1, <1>2, <2>1, KeepingTheLife DEF StatusStored
  <2>2. CASE UNCHANGED apiVars
    BY <2>2 DEF FinalizerInv, InformersLag, Kept, apiVars
  <2> QED BY <2>1, <2>2 DEF PersistStatus, Refused
<1>4. CASE \E delay : Return(delay)
  BY <1>3, <1>4, ReturnForgets DEF FinalizerInv
<1>5. CASE /\ pc' = "persistStatus" /\ UNCHANGED <<cur, obj>>
           /\ fresh' = FALSE \/ UNCHANGED <<api, fresh>>
  BY <1>1, <1>3, <1>5 DEF FinalizerInv, FreshCopy, DeletionSeen, CopyKept,
                          Guarded
<1> QED BY <1>4, <1>5 DEF PersistStatus, apiVars

LEMMA FinalizerTick ==
  ASSUME TypeInv, FinalizerInv, Tick
  PROVE  FinalizerInv'
<1>1. \A o \in Objects : Aged(o).life = o.life /\ Aged(o).fin = o.fin
  BY DEF Aged, Objects
<1>2. /\ \A p \in Policies : api[p] \in Objects /\ cache[p] \in Objects
      /\ obj \in Objects /\ cur \in Policies
  BY DEF TypeInv, TypeOK, StoreTypes, CycleTypes
<1>3. /\ \A p \in Policies : api'[p] = Aged(api[p])
      /\ \A p \in Policies : cache'[p] = Aged(cache[p])
      /\ obj' = Aged(obj) /\ UNCHANGED <<synced, pc, cur, fresh>>
  BY DEF Tick
<1>4. /\ \A p \in Policies :
           /\ api'[p].life = api[p].life /\ api'[p].fin = api[p].fin
           /\ cache'[p].life = cache[p].life /\ cache'[p].fin = cache[p].fin
      /\ obj'.life = obj.life /\ obj'.fin = obj.fin
  BY <1>1, <1>2, <1>3
<1>5. InformersLag'
  BY <1>3, <1>4 DEF FinalizerInv, InformersLag, Kept
<1> QED
  BY <1>2, <1>3, <1>4, <1>5 DEF FinalizerInv, FreshCopy, DeletionSeen, CopyKept,
                                Kept, Guarded

LEMMA FinalizerEnvironment ==
  ASSUME TypeInv, FinalizerInv, Environment \/ User \/ Restart
  PROVE  FinalizerInv'
<1>1. ASSUME NEW p \in Policies, SyncPolicy(p) PROVE FinalizerInv'
  <2>1. /\ UNCHANGED <<api, pc, cur, obj, fresh>>
        /\ \A q \in Policies : cache'[q] = IF q = p THEN api[p] ELSE cache[q]
        /\ \A q \in Policies : synced'[q] = IF q = p THEN TRUE ELSE synced[q]
    BY <1>1 DEF SyncPolicy, cycVars, TypeInv, TypeOK, StoreTypes
  <2>2. cur \in Policies /\ \A q \in Policies : api[q].life = "live" => api[q].life # "gone"
    BY DEF TypeInv, TypeOK, CycleTypes
  <2>3. InformersLag'
    BY <2>1, <2>2 DEF FinalizerInv, InformersLag, Kept
  <2>4. FreshCopy' /\ CopyKept'
    BY <2>1 DEF FinalizerInv, FreshCopy, CopyKept, Kept, Guarded
  <2>5. DeletionSeen'
    BY <2>1, <2>2 DEF FinalizerInv, DeletionSeen, InformersLag
  <2> QED BY <2>3, <2>4, <2>5 DEF FinalizerInv
<1>2. ASSUME NEW p \in Policies, NEW o, WrittenByUser(p, o),
             api[p].life = "live", o.fin = api[p].fin,
             \/ o.life = "live"
             \/ o.life = IF api[p].fin THEN "deleting" ELSE "gone"
      PROVE  FinalizerInv'
  <2>1. /\ \A q \in Policies : api'[q] = IF q = p THEN o ELSE api[q]
        /\ \A q \in Policies : synced'[q] = IF q = p THEN FALSE ELSE synced[q]
        /\ fresh' = (fresh /\ (pc = "idle" \/ p # cur))
        /\ UNCHANGED <<cache, pc, cur, obj>>
    BY <1>2 DEF WrittenByUser, TypeInv, TypeOK, StoreTypes
  <2>2. cur \in Policies
    BY DEF TypeInv, TypeOK, CycleTypes
  <2>3. \A q \in Policies : Kept(q) => Kept(q)'
    BY <1>2, <2>1 DEF Kept
  <2>4. InformersLag'
    BY <1>2, <2>1, <2>3 DEF FinalizerInv, InformersLag
  <2>5. FreshCopy' /\ DeletionSeen'
    BY <2>1, <2>2 DEF FinalizerInv, FreshCopy, DeletionSeen
  <2>6. CopyKept'
    BY <2>1, <2>2, <2>3 DEF FinalizerInv, CopyKept, Guarded
  <2> QED BY <2>4, <2>5, <2>6 DEF FinalizerInv
<1>3. ASSUME NEW p \in Policies, EditSpec(p) \/ DeletePolicy(p)
      PROVE  FinalizerInv'
  <2> DEFINE edited(s) == [api[p] EXCEPT !.spec = s, !.rejected = FALSE]
             deleted == [api[p] EXCEPT !.life = IF api[p].fin THEN "deleting"
                                                              ELSE "gone"]
  <2>1. api[p] \in Objects /\ api[p].life = "live"
    BY <1>3 DEF EditSpec, DeletePolicy, TypeInv, TypeOK, StoreTypes
  <2>2. \A s : edited(s).life = api[p].life /\ edited(s).fin = api[p].fin
    BY <2>1 DEF Objects
  <2>3. /\ deleted.fin = api[p].fin
        /\ deleted.life = IF api[p].fin THEN "deleting" ELSE "gone"
    BY <2>1 DEF Objects
  <2>4. CASE EditSpec(p)
    <3>1. PICK s \in Specs : WrittenByUser(p, edited(s))
      BY <2>4 DEF EditSpec
    <3> HIDE DEF edited
    <3> QED BY <1>2, <2>1, <2>2, <3>1
  <2>5. CASE DeletePolicy(p)
    <3>1. WrittenByUser(p, deleted)
      BY <2>5 DEF DeletePolicy
    <3> HIDE DEF deleted
    <3> QED BY <1>2, <2>1, <2>3, <3>1
  <2> QED BY <1>3, <2>4, <2>5
<1>4. ASSUME UNCHANGED <<apiVars, cycVars>> PROVE FinalizerInv'
  BY <1>4 DEF apiVars, cycVars, FinalizerInv, InformersLag, FreshCopy,
              DeletionSeen, CopyKept, Kept, Guarded
<1>5. ASSUME Restart PROVE FinalizerInv'
  BY <1>5 DEF Restart, FinalizerInv, InformersLag, FreshCopy, DeletionSeen,
              CopyKept, Kept, Guarded
<1>6. \/ \E p \in Policies : SyncPolicy(p)
      \/ \E p \in Policies : EditSpec(p) \/ DeletePolicy(p)
      \/ UNCHANGED <<apiVars, cycVars>>
      \/ Tick \/ Restart
  BY DEF Environment, User, TimerFires, SyncDeployment, SyncAudit, Rollout,
         ScaleExternally, Freeze, DeploymentWritten
<1> QED BY <1>1, <1>3, <1>4, <1>5, <1>6, FinalizerTick

LEMMA FinalizerStep == TypeInv /\ FinalizerInv /\ [Next]_vars => FinalizerInv'
<1> SUFFICES ASSUME TypeInv, FinalizerInv, [Next]_vars PROVE FinalizerInv'
  OBVIOUS
<1>1. CASE \E p \in Policies : Dequeue(p)
  BY <1>1, FinalizerDequeue
<1>2. CASE Worker
  BY <1>2, FinalizerRelease, FinalizerReject, FinalizerAdd,
     FinalizerDeliberation, FinalizerPersist
  DEF Worker, Deliberation
<1>3. CASE Environment \/ User \/ Restart
  BY <1>3, FinalizerEnvironment
<1>4. CASE UNCHANGED vars
  BY <1>4 DEF vars, apiVars, cycVars, FinalizerInv, InformersLag, FreshCopy,
              DeletionSeen, CopyKept, Kept, Guarded
<1> QED BY <1>1, <1>2, <1>3, <1>4 DEF Next

(* Finalizer: when the worker is about to patch a Deployment the policy it *)
(* does so for still exists in the API server, however old its copy.       *)
THEOREM NoPatchForADeletedPolicy == Spec => []PolicyExists
<1>1. FinalizerInv => PolicyExists
  BY DEF FinalizerInv, CopyKept, Kept, PolicyExists, AboutToPatch, Guarded, Steps
<1>2. Spec => []TypeInv
  BY InitTypes, TypeInvStep, PTL DEF Spec
<1>3. Spec => []FinalizerInv
  BY <1>2, FinalizerInit, FinalizerStep, PTL DEF Spec
<1> QED BY <1>1, <1>3, PTL

-----------------------------------------------------------------------------
(* A copy nobody has written since says what the stored object says.       *)
FreshContent ==
  pc # "idle" /\ fresh => obj.spec = api[cur].spec /\ obj.last = api[cur].last

LEMMA ContentStep ==
  ASSUME TypeInv, FinalizerInv, FreshContent, [Next]_vars
  PROVE  FreshContent'
<1>1. CASE pc' = "idle"
  BY <1>1 DEF FreshContent
<1>2. CASE UNCHANGED <<api, cur, obj, fresh>> /\ pc # "idle"
  BY <1>2 DEF FreshContent
<1>3. ASSUME NEW p \in Policies, Dequeue(p) PROVE FreshContent'
  <2>1. CASE cache[p].life = "gone"
    BY <1>1, <1>3, <2>1 DEF Dequeue
  <2>2. CASE cache[p].life # "gone"
    <3>1. /\ cur' = p /\ obj' = cache[p] /\ fresh' = synced[p] /\ api' = api
      BY <1>3, <2>2 DEF Dequeue, apiVars
    <3> QED BY <3>1 DEF FreshContent, FinalizerInv, InformersLag
  <2> QED BY <2>1, <2>2
<1>4. ReleaseFinalizer \/ RejectSpec
        => \/ pc' = "idle" \/ fresh' = FALSE
           \/ UNCHANGED <<api, cur, obj, fresh>> /\ pc # "idle"
  BY DEF ReleaseFinalizer, RejectSpec, FailUnanswered, Return, Fail, Goto,
         Refused, apiVars
<1>5. CASE AddFinalizer
  <2>1. CASE /\ Stored([obj EXCEPT !.fin = TRUE])
             /\ obj' = [obj EXCEPT !.fin = TRUE] /\ UNCHANGED <<cur, fresh>>
    <3>1. cur' = cur /\ api'[cur] = [obj EXCEPT !.fin = TRUE]
      BY <2>1 DEF Stored, TypeInv, TypeOK, StoreTypes, CycleTypes
    <3> QED BY <2>1, <3>1 DEF FreshContent
  <2>2. CASE UNCHANGED <<api, cur, obj, fresh>> /\ pc # "idle"
    BY <1>2, <2>2
  <2>3. CASE fresh' = FALSE
    BY <2>3 DEF FreshContent
  <2> QED
    BY <1>5, <2>1, <2>2, <2>3
    DEF AddFinalizer, FailUnanswered, Proceed, Fail, Goto, Refused, OnlyCycle,
        apiVars
<1>6. Deliberation \/ Actuate => UNCHANGED <<api, cur, obj, fresh>> /\ pc # "idle"
  BY DeliberationWritesNothing DEF Actuate, Goto, Fail, apiVars, Guarded
<1>7. PersistStatus => \/ pc' = "idle"
                       \/ UNCHANGED <<api, cur, obj, fresh>> /\ pc # "idle"
                       \/ fresh' = FALSE
  BY DEF PersistStatus, Return, apiVars
<1>8. ASSUME NEW p \in Policies, EditSpec(p) \/ DeletePolicy(p) PROVE FreshContent'
  <2>1. PICK o : WrittenByUser(p, o)
    BY <1>8 DEF EditSpec, DeletePolicy
  <2>2. /\ api' = [api EXCEPT ![p] = o] /\ UNCHANGED <<pc, cur, obj>>
        /\ fresh' = (fresh /\ (pc = "idle" \/ p # cur))
    BY <2>1 DEF WrittenByUser
  <2> QED BY <2>2 DEF FreshContent, TypeInv, TypeOK, StoreTypes, CycleTypes
<1>9. CASE Tick
  <2>1. /\ api[cur] \in Objects /\ obj \in Objects /\ cur \in Policies
    BY DEF TypeInv, TypeOK, StoreTypes, CycleTypes
  <2>2. /\ api'[cur] = Aged(api[cur]) /\ obj' = Aged(obj)
        /\ UNCHANGED <<pc, cur, fresh>>
    BY <1>9, <2>1 DEF Tick
  <2>3. \A o \in Objects : Aged(o).spec = o.spec /\ Aged(o).last = Older(o.last)
    BY DEF Aged, Objects
  <2> QED BY <2>1, <2>2, <2>3 DEF FreshContent
<1>10. ASSUME UNCHANGED <<api, cycVars>> PROVE FreshContent'
  BY <1>10 DEF cycVars, FreshContent
<1>11. Restart => pc' = "idle"
  BY DEF Restart
<1>12. Environment \/ User \/ UNCHANGED vars
         => \/ UNCHANGED <<api, cycVars>> \/ Tick
            \/ \E p \in Policies : EditSpec(p) \/ DeletePolicy(p)
  BY DEF Environment, User, SyncPolicy, TimerFires, SyncDeployment, SyncAudit,
         Rollout, ScaleExternally, Freeze, DeploymentWritten, vars, apiVars
<1>13. fresh' = FALSE => FreshContent'
  BY DEF FreshContent
<1> QED
  BY <1>1, <1>2, <1>3, <1>4, <1>5, <1>6, <1>7, <1>8, <1>9, <1>10, <1>11, <1>12,
     <1>13 DEF Next, Worker, Deliberation

(* What a step may do to the stored policy p.                              *)
Respects(p) ==
  /\ api'[p].spec # api[p].spec => pc' = pc /\ edits' = edits + 1
  /\ api[p].life # "live" => api'[p].life # "live"
  /\ api'[p].life = "gone" /\ api[p].life = "deleting"
       => pc = "ensureFinalizer" /\ pc' \in {"idle", "persistStatus"}
  /\ api'[p].last <= Older(api[p].last)

LEMMA AgeGrows == \A a \in Ages : /\ 0 <= Older(a) /\ a <= Older(a)
                                  /\ Older(a) <= Older(a)
BY LimitsAreNat DEF Ages, Older

LEMMA UntouchedIsRespected ==
  ASSUME TypeInv, NEW p \in Policies, api'[p] = api[p]
  PROVE  Respects(p)
<1>1. api[p].last \in Ages
  BY DEF TypeInv, TypeOK, StoreTypes, Objects
<1>2. api[p].last <= Older(api[p].last)
  BY <1>1, AgeGrows
<1> QED BY <1>2 DEF Respects

(* A write of the worker: the copy it came from was fresh.                 *)
LEMMA StoredRespects ==
  ASSUME TypeInv, FinalizerInv, FreshContent, pc # "idle", NEW o, Stored(o),
         o.spec = obj.spec, o.last \in {0, obj.last},
         \/ o.life = obj.life
         \/ /\ o.life = "gone" /\ pc = "ensureFinalizer"
            /\ pc' \in {"idle", "persistStatus"},
         NEW p \in Policies
  PROVE  Respects(p)
<1>1. CASE p # cur
  BY <1>1, UntouchedIsRespected DEF Stored, TypeInv, TypeOK, StoreTypes
<1>2. CASE p = cur
  <2>1. /\ api'[p] = o /\ o.spec = api[p].spec /\ o.last \in {0, api[p].last}
        /\ obj.life = api[p].life /\ api[p].last \in Ages
    BY <1>2 DEF Stored, FinalizerInv, FreshCopy, FreshContent, TypeInv, TypeOK,
                StoreTypes, Objects
  <2>2. o.last <= Older(api[p].last)
    BY <2>1, AgeGrows
  <2> QED BY <2>1, <2>2 DEF Respects
<1> QED BY <1>1, <1>2

(* Status writes never overwrite what a user wrote since the copy was      *)
(* made: spec and deletion mark of the stored policy survive every step of *)
(* the worker but the release of the finalizer, and a stored LastScaleTime *)
(* is never replaced by an earlier one.                                    *)
THEOREM UsersAreRespected == Spec => UserWritesSurvive
<1>1. TypeInv /\ FinalizerInv /\ FreshContent /\ [Next]_vars
        => \A p \in Policies : Respects(p)
  <2> SUFFICES ASSUME TypeInv, FinalizerInv, FreshContent, [Next]_vars,
                      NEW p \in Policies
               PROVE  Respects(p)
    OBVIOUS
  <2>1. CASE UNCHANGED api
    BY <2>1, UntouchedIsRespected
  <2>2. CASE ReleaseFinalizer
    <3> DEFINE o == [obj EXCEPT !.life = "gone", !.fin = FALSE]
    <3>1. \/ UNCHANGED api
          \/ /\ Stored(o) /\ pc = "ensureFinalizer"
             /\ pc' \in {"idle", "persistStatus"}
      BY <2>2 DEF ReleaseFinalizer, FailUnanswered, Refused, Fail, Goto, Return,
                  apiVars
    <3>2. o.spec = obj.spec /\ o.last = obj.last /\ o.life = "gone"
      BY DEF TypeInv, TypeOK, CycleTypes, Objects
    <3> HIDE DEF o
    <3> QED BY <2>1, <3>1, <3>2, StoredRespects
  <2>3. CASE RejectSpec
    <3> DEFINE o == [obj EXCEPT !.rejected = TRUE]
    <3>1. UNCHANGED api \/ (Stored(o) /\ pc # "idle")
      BY <2>3 DEF RejectSpec, FailUnanswered, Refused, apiVars
    <3>2. o.spec = obj.spec /\ o.last = obj.last /\ o.life = obj.life
      BY DEF TypeInv, TypeOK, CycleTypes, Objects
    <3> HIDE DEF o
    <3> QED BY <2>1, <3>1, <3>2, StoredRespects
  <2>4. CASE AddFinalizer
    <3> DEFINE o == [obj EXCEPT !.fin = TRUE]
    <3>1. UNCHANGED api \/ (Stored(o) /\ pc # "idle")
      BY <2>4 DEF AddFinalizer, FailUnanswered, Refused, OnlyCycle, apiVars
    <3>2. o.spec = obj.spec /\ o.last = obj.last /\ o.life = obj.life
      BY DEF TypeInv, TypeOK, CycleTypes, Objects
    <3> HIDE DEF o
    <3> QED BY <2>1, <3>1, <3>2, StoredRespects
  <2>5. CASE PersistStatus
    <3>1. UNCHANGED api \/ (Stored(StatusUpdate) /\ pc # "idle")
      BY <2>5 DEF PersistStatus, StatusStored, Refused, apiVars
    <3>2. /\ StatusUpdate.spec = obj.spec /\ StatusUpdate.life = obj.life
          /\ StatusUpdate.last \in {0, obj.last}
      BY DEF StatusUpdate, TypeInv, TypeOK, CycleTypes, Objects
    <3> QED BY <2>1, <3>1, <3>2, StoredRespects
  <2>6. CASE Tick
    <3>1. api'[p] = Aged(api[p]) /\ api[p] \in Objects
      BY <2>6 DEF Tick, TypeInv, TypeOK, StoreTypes
    <3>2. /\ api'[p].spec = api[p].spec /\ api'[p].life = api[p].life
          /\ api'[p].last = Older(api[p].last) /\ api[p].last \in Ages
      BY <3>1 DEF Aged, Objects
    <3>3. Older(api[p].last) <= Older(api[p].last)
      BY <3>2, AgeGrows
    <3> QED BY <3>2, <3>3 DEF Respects
  <2>7. ASSUME NEW q \in Policies, NEW o, WrittenByUser(q, o),
               api[q].life = "live", o.last = api[q].last
        PROVE  Respects(p)
    <3>1. /\ pc' = pc /\ edits' = edits + 1
          /\ api'[p] = IF p = q THEN o ELSE api[p]
      BY <2>7 DEF WrittenByUser, TypeInv, TypeOK, StoreTypes
    <3>2. CASE p # q
      BY <3>1, <3>2, UntouchedIsRespected
    <3>3. CASE p = q
      <4>1. api[p].last \in Ages
        BY DEF TypeInv, TypeOK, StoreTypes, Objects
      <4> QED BY <2>7, <3>1, <3>3, <4>1, AgeGrows DEF Respects
    <3> QED BY <3>2, <3>3
  <2>8. ASSUME NEW q \in Policies, EditSpec(q) \/ DeletePolicy(q)
        PROVE  Respects(p)
    <3>1. api[q] \in Objects /\ api[q].life = "live"
      BY <2>8 DEF EditSpec, DeletePolicy, TypeInv, TypeOK, StoreTypes
    <3>2. \A s, l : /\ [api[q] EXCEPT !.spec = s, !.rejected = FALSE].last
                         = api[q].last
                    /\ [api[q] EXCEPT !.life = l].last = api[q].last
      BY <3>1 DEF Objects
    <3>3. \/ \E s : WrittenByUser(q, [api[q] EXCEPT !.spec = s, !.rejected = FALSE])
          \/ \E l : WrittenByUser(q, [api[q] EXCEPT !.life = l])
      BY <2>8 DEF EditSpec, DeletePolicy
    <3> QED BY <2>7, <3>1, <3>2, <3>3
  <2>9. Deliberation \/ Actuate => UNCHANGED api
    BY DeliberationWritesNothing DEF Actuate, apiVars
  <2>10. (\E q \in Policies : Dequeue(q)) \/ Restart \/ UNCHANGED vars
           => UNCHANGED api
    BY DEF Dequeue, Restart, vars, apiVars
  <2>11. Environment \/ User
           => \/ UNCHANGED api \/ Tick
              \/ \E q \in Policies : EditSpec(q) \/ DeletePolicy(q)
    BY DEF Environment, User, SyncPolicy, TimerFires, SyncDeployment, SyncAudit,
           Rollout, ScaleExternally, Freeze, DeploymentWritten, apiVars
  <2> QED
    BY <2>1, <2>2, <2>3, <2>4, <2>5, <2>6, <2>8, <2>9, <2>10, <2>11
    DEF Next, Worker, Deliberation
<1>2. Spec => []TypeInv
  BY InitTypes, TypeInvStep, PTL DEF Spec
<1>3. Spec => []FinalizerInv
  BY <1>2, FinalizerInit, FinalizerStep, PTL DEF Spec
<1>4. Init => FreshContent
  BY DEF Init, FreshContent
<1>5. Spec => []FreshContent
  BY <1>2, <1>3, <1>4, ContentStep, PTL DEF Spec
<1>6. (\A p \in Policies : Respects(p))
        <=> (\A p \in Policies :
               /\ api'[p].spec # api[p].spec => pc' = pc /\ edits' = edits + 1
               /\ api[p].life # "live" => api'[p].life # "live"
               /\ api'[p].life = "gone" /\ api[p].life = "deleting"
                    => pc = "ensureFinalizer" /\ pc' \in {"idle", "persistStatus"}
               /\ api'[p].last <= Older(api[p].last))
  BY DEF Respects
<1> QED BY <1>1, <1>2, <1>3, <1>5, <1>6, PTL DEF Spec, UserWritesSurvive

-----------------------------------------------------------------------------
(* The stored LastScaleTime is at least as recent as the covered change.   *)
Covered == \A p \in Policies : stamped[p] => api[p].last <= since[p]

InformersAgree == \A p \in Policies : synced[p] => cache[p] = api[p]

CopyWasCurrent == fresh => cyc.wasSynced

(* Only a second attempt to store the status may work on an older copy.    *)
CopyCovered ==
  /\ pc # "idle" /\ stamped[cur] /\ cyc.wasSynced
  /\ fresh \/ pc # "persistStatus"
  => obj.last <= since[cur]

CooledDown ==
  pc \in Guarded \ {"checkCooldown", "recordAudit"}
    => obj.spec.cooldown <= obj.last

CooldownInv ==
  Covered /\ InformersAgree /\ CopyWasCurrent /\ CopyCovered /\ CooledDown

LEMMA CooldownInit == Init => CooldownInv
<1> SUFFICES ASSUME Init PROVE CooldownInv
  OBVIOUS
<1>1. \A p \in Policies : api[p].last = MaxAge
  BY InitialPolicies
<1>2. Covered
  <2>1. since = [p \in Policies |-> MaxAge]
    BY DEF Init
  <2> QED BY <1>1, <2>1, LimitsAreNat DEF Covered
<1> QED
  BY <1>2 DEF Init, CooldownInv, InformersAgree, CopyWasCurrent, CopyCovered,
              CooledDown, NewCycle, Guarded

(* A write that keeps the LastScaleTime of the worker's copy.              *)
LEMMA KeepingTheTime ==
  ASSUME TypeInv, CooldownInv, pc # "idle", NEW o, o.last = obj.last, Stored(o),
         UNCHANGED ghostVars
  PROVE  Covered' /\ InformersAgree'
<1>1. stamped[cur] => obj.last <= since[cur]
  BY DEF CooldownInv, CopyWasCurrent, CopyCovered, Stored
<1>2. Covered'
  BY <1>1 DEF TypeInv, TypeOK, StoreTypes, CycleTypes, CooldownInv, Covered,
              Stored, ghostVars
<1>3. InformersAgree'
  BY DEF TypeInv, TypeOK, StoreTypes, CooldownInv, InformersAgree, Stored
<1> QED BY <1>2, <1>3

(* Going back to the queue drops the copy.                                 *)
LEMMA ReturnDropsTheCopy ==
  ASSUME NEW delay, Return(delay)
  PROVE  CopyWasCurrent' /\ CopyCovered' /\ CooledDown'
BY DEF Return, CopyWasCurrent, CopyCovered, CooledDown, NewCycle, Guarded

LEMMA FailKeepsTheCopy ==
  ASSUME TypeInv, CooldownInv, pc \in Steps \ {"idle", "persistStatus"},
         Fail, UNCHANGED ghostVars
  PROVE  CopyWasCurrent' /\ CopyCovered' /\ CooledDown'
<1>1. cyc'.wasSynced = cyc.wasSynced
  BY DEF Fail, TypeInv, TypeOK, CycleTypes, Cycles
<1> QED
  BY <1>1 DEF Fail, Goto, CooldownInv, CopyWasCurrent, CopyCovered, CooledDown,
              Guarded, ghostVars

LEMMA CooldownDequeue ==
  ASSUME TypeInv, CooldownInv, NEW p \in Policies, Dequeue(p)
  PROVE  CooldownInv'
<1>1. Covered' /\ InformersAgree'
  BY DEF Dequeue, CooldownInv, Covered, InformersAgree, apiVars, ghostVars
<1>2. CASE cache[p].life = "gone"
  BY <1>1, <1>2 DEF Dequeue, CooldownInv, CopyWasCurrent, CopyCovered, CooledDown,
                    Guarded
<1>3. CASE cache[p].life # "gone"
  <2>1. /\ pc' = "ensureFinalizer" /\ obj' = cache[p] /\ fresh' = synced[p]
        /\ cyc'.wasSynced = synced[p] /\ cur' = p
        /\ UNCHANGED <<since, stamped>>
    BY <1>3 DEF Dequeue, NewCycle, ghostVars
  <2>2. stamped[p] /\ synced[p] => cache[p].last <= since[p]
    BY DEF CooldownInv, Covered, InformersAgree
  <2> QED
    BY <1>1, <2>1, <2>2 DEF CooldownInv, CopyWasCurrent, CopyCovered, CooledDown,
                            Guarded
<1> QED BY <1>2, <1>3

LEMMA CooldownFinalizer ==
  ASSUME TypeInv, CooldownInv, ReleaseFinalizer \/ RejectSpec \/ AddFinalizer
  PROVE  CooldownInv'
<1>1. /\ pc = "ensureFinalizer" /\ pc # "idle"
      /\ pc \in Steps \ {"idle", "persistStatus"}
  BY DEF ReleaseFinalizer, RejectSpec, AddFinalizer, FailUnanswered, Steps
<1>2. UNCHANGED ghostVars
  BY DEF ReleaseFinalizer, RejectSpec, AddFinalizer, FailUnanswered, OnlyCycle
<1>3. /\ [obj EXCEPT !.life = "gone", !.fin = FALSE].last = obj.last
      /\ [obj EXCEPT !.rejected = TRUE].last = obj.last
      /\ [obj EXCEPT !.fin = TRUE].last = obj.last
  BY DEF TypeInv, TypeOK, CycleTypes, Objects
<1>4. Covered' /\ InformersAgree'
  <2>1. ASSUME UNCHANGED apiVars PROVE Covered' /\ InformersAgree'
    BY <1>2, <2>1 DEF CooldownInv, Covered, InformersAgree, apiVars, ghostVars
  <2>2. \/ UNCHANGED apiVars
        \/ Stored([obj EXCEPT !.life = "gone", !.fin = FALSE])
        \/ Stored([obj EXCEPT !.rejected = TRUE])
        \/ Stored([obj EXCEPT !.fin = TRUE])
    BY DEF ReleaseFinalizer, RejectSpec, AddFinalizer, FailUnanswered, Refused, OnlyCycle, apiVars
  <2> QED BY <1>1, <1>2, <1>3, <2>1, <2>2, KeepingTheTime
<1>5. CopyWasCurrent' /\ CopyCovered' /\ CooledDown'
  <2>1. \/ Return(NoTimer)
        \/ Fail
        \/ \E o : FailUnanswered(o)
        \/ /\ pc' = "checkCooldown" /\ UNCHANGED <<cur, fresh, cyc>>
           /\ obj' = obj \/ obj' = [obj EXCEPT !.fin = TRUE]
    <3>1. CASE ReleaseFinalizer
      BY <3>1 DEF ReleaseFinalizer
    <3>2. CASE RejectSpec
      BY <3>2 DEF RejectSpec
    <3>3. CASE AddFinalizer
      BY <3>3 DEF AddFinalizer, Proceed, Goto
    <3> QED BY <3>1, <3>2, <3>3
  <2>2. ASSUME pc' = "checkCooldown", UNCHANGED <<cur, fresh, cyc>>,
               obj' = obj \/ obj' = [obj EXCEPT !.fin = TRUE]
        PROVE  CopyWasCurrent' /\ CopyCovered' /\ CooledDown'
    BY <1>1, <1>2, <1>3, <2>2
    DEF CooldownInv, CopyWasCurrent, CopyCovered, CooledDown, Guarded, ghostVars
  <2>3. ASSUME NEW o, FailUnanswered(o)
        PROVE  CopyWasCurrent' /\ CopyCovered' /\ CooledDown'
    BY <2>3 DEF FailUnanswered, CopyWasCurrent, CopyCovered, CooledDown, Guarded
  <2> QED
    BY <1>1, <1>2, <2>1, <2>2, <2>3, ReturnDropsTheCopy, FailKeepsTheCopy
<1> QED BY <1>4, <1>5 DEF CooldownInv

LEMMA CooldownDeliberation ==
  ASSUME TypeInv, CooldownInv, Deliberation
  PROVE  CooldownInv'
<1>1. /\ UNCHANGED <<api, cache, synced, since, stamped, cur, obj, fresh>>
      /\ cyc'.wasSynced = cyc.wasSynced
      /\ pc \in Guarded /\ pc' \in Guarded \cup {"persistStatus"}
      /\ pc' # "checkCooldown"
  BY DeliberationWritesNothing
<1>2. Covered' /\ InformersAgree' /\ CopyWasCurrent' /\ CopyCovered'
  BY <1>1 DEF CooldownInv, Covered, InformersAgree, CopyWasCurrent, CopyCovered,
              Guarded
<1>3. CooledDown'
  <2>1. CASE CheckCooldown
    <3>1. obj.spec \in Specs /\ obj.last \in Ages
      BY DEF TypeInv, TypeOK, CycleTypes, Objects
    <3>2. obj.last \in Int /\ obj.spec.cooldown \in Int
      BY <3>1, SpecFields, LimitsAreNat DEF Ages
    <3>3. obj.last < obj.spec.cooldown => pc' = "persistStatus"
      BY <2>1 DEF CheckCooldown, ShortCircuit, Goto
    <3> QED BY <1>1, <3>2, <3>3 DEF CooledDown, Guarded
  <2>2. CASE ~CheckCooldown /\ pc = "recordAudit"
    <3>1. pc' = "persistStatus"
      BY <2>2 DEF Deliberation, RecordAudit, Proceed, Goto, CollectSignals,
                  FetchDecision, CheckOscillation, CheckRollback,
                  ResolveTentative, EstimateCost, CheckApproval, ResolveFinal,
                  ValidateDecision, CheckCoordination
    <3> QED BY <3>1 DEF CooledDown, Guarded
  <2>3. CASE ~CheckCooldown /\ pc # "recordAudit"
    <3>1. pc # "checkCooldown"
      BY <2>3 DEF Deliberation, RecordAudit, CollectSignals, FetchDecision,
                  CheckOscillation, CheckRollback, ResolveTentative,
                  EstimateCost, CheckApproval, ResolveFinal, ValidateDecision,
                  CheckCoordination
    <3> QED BY <1>1, <2>3, <3>1 DEF CooldownInv, CooledDown
  <2> QED BY <2>1, <2>2, <2>3
<1> QED BY <1>2, <1>3 DEF CooldownInv

LEMMA CooldownActuate ==
  ASSUME TypeInv, CooldownInv, Actuate
  PROVE  CooldownInv'
<1>1. /\ UNCHANGED <<api, cache, synced, cur, obj, fresh>>
      /\ pc = "actuate" /\ pc' \in {"recordAudit", "persistStatus"}
      /\ cyc'.wasSynced = cyc.wasSynced
  <2>1. cyc \in Cycles
    BY DEF TypeInv, TypeOK, CycleTypes
  <2> QED BY <2>1 DEF Actuate, Goto, Fail, Cycles, apiVars
<1>2. \/ UNCHANGED <<since, stamped>>
      \/ /\ since' = [since EXCEPT ![cur] = 0]
         /\ stamped' = [stamped EXCEPT ![cur] = FALSE]
  BY DEF Actuate, Patched, ghostVars
<1>3. \A p \in Policies : stamped'[p] => stamped[p] /\ since'[p] = since[p]
  BY <1>2 DEF TypeInv, TypeOK, GhostTypes, CycleTypes
<1>4. cur \in Policies
  BY DEF TypeInv, TypeOK, CycleTypes
<1> QED
  BY <1>1, <1>3, <1>4
  DEF CooldownInv, Covered, InformersAgree, CopyWasCurrent, CopyCovered,
      CooledDown, Guarded

LEMMA CooldownPersist ==
  ASSUME TypeInv, CooldownInv, PersistStatus
  PROVE  CooldownInv'
<1>1. pc = "persistStatus" /\ UNCHANGED since
  BY DEF PersistStatus
<1>2. cyc \in Cycles /\ obj \in Objects /\ cur \in Policies
  BY DEF TypeInv, TypeOK, CycleTypes
<1>3. Covered' /\ InformersAgree'
  <2>1. ASSUME UNCHANGED apiVars, UNCHANGED stamped
        PROVE  Covered' /\ InformersAgree'
    BY <1>1, <2>1 DEF CooldownInv, Covered, InformersAgree, apiVars
  <2>2. ASSUME StatusStored PROVE Covered' /\ InformersAgree'
    <3>1. CASE CountsAsScaling
      <4>1. StatusUpdate.last = 0
        BY <1>2, <3>1 DEF StatusUpdate, Objects
      <4>2. since[cur] >= 0
        BY <1>2, LimitsAreNat DEF TypeInv, TypeOK, GhostTypes, Ages
      <4>3. /\ api' = [api EXCEPT ![cur] = StatusUpdate]
            /\ synced' = [synced EXCEPT ![cur] = FALSE] /\ cache' = cache
            /\ stamped' = [stamped EXCEPT ![cur] = TRUE]
        BY <2>2, <3>1 DEF StatusStored, Stored
      <4> HIDE DEF StatusUpdate
      <4> QED
        BY <1>1, <1>2, <4>1, <4>2, <4>3
        DEF TypeInv, TypeOK, StoreTypes, CooldownInv, Covered, InformersAgree
    <3>2. CASE ~CountsAsScaling
      <4>1. StatusUpdate.last = obj.last
        BY <1>2, <3>2 DEF StatusUpdate, Objects
      <4>2. Stored(StatusUpdate) /\ UNCHANGED ghostVars
        BY <1>1, <2>2, <3>2 DEF StatusStored, ghostVars
      <4> QED BY <1>1, <4>1, <4>2, KeepingTheTime
    <3> QED BY <3>1, <3>2
  <2> QED BY <2>1, <2>2 DEF PersistStatus, Refused
<1>4. CopyWasCurrent' /\ CopyCovered' /\ CooledDown'
  <2>1. ASSUME pc' = "persistStatus", cyc' = [cyc EXCEPT !.exit = "error"],
               UNCHANGED <<cur, obj>>,
               \/ fresh' = FALSE
               \/ UNCHANGED <<fresh, stamped>>
        PROVE  CopyWasCurrent' /\ CopyCovered' /\ CooledDown'
    <3>1. cyc'.wasSynced = cyc.wasSynced
      BY <1>2, <2>1 DEF Cycles
    <3> QED
      BY <1>1, <2>1, <3>1 DEF CooldownInv, CopyWasCurrent, CopyCovered,
                              CooledDown, Guarded
  <2>2. \/ \E delay : Return(delay)
        \/ /\ pc' = "persistStatus" /\ cyc' = [cyc EXCEPT !.exit = "error"]
           /\ UNCHANGED <<cur, obj>>
           /\ fresh' = FALSE \/ UNCHANGED <<fresh, stamped>>
    BY DEF PersistStatus
  <2> QED BY <2>1, <2>2, ReturnDropsTheCopy
<1> QED BY <1>3, <1>4 DEF CooldownInv

LEMMA CooldownTick ==
  ASSUME TypeInv, CooldownInv, Tick
  PROVE  CooldownInv'
<1>1. \A a, b \in Ages : a <= b => Older(a) <= Older(b)
  BY LimitsAreNat DEF Ages, Older
<1>2. \A a \in Ages, c \in 0..MaxAge : c <= a => c <= Older(a)
  BY LimitsAreNat DEF Ages, Older
<1>3. /\ \A p \in Policies : api[p] \in Objects /\ since[p] \in Ages
      /\ obj \in Objects /\ cur \in Policies
  BY DEF TypeInv, TypeOK, StoreTypes, CycleTypes, GhostTypes
<1>4. \A o \in Objects : /\ o.last \in Ages /\ Aged(o).last = Older(o.last)
                         /\ Aged(o).spec = o.spec
  BY DEF Aged, Objects
<1>5. /\ api' = [p \in Policies |-> Aged(api[p])]
      /\ cache' = [p \in Policies |-> Aged(cache[p])]
      /\ obj' = Aged(obj) /\ since' = [p \in Policies |-> Older(since[p])]
      /\ UNCHANGED <<synced, pc, cur, fresh, cyc, stamped>>
  BY DEF Tick
<1>6. Covered'
  <2> SUFFICES ASSUME NEW p \in Policies, stamped'[p]
               PROVE  api'[p].last <= since'[p]
    BY DEF Covered
  <2>1. api[p].last <= since[p]
    BY <1>5 DEF CooldownInv, Covered
  <2>2. api'[p].last = Older(api[p].last) /\ since'[p] = Older(since[p])
    BY <1>3, <1>4, <1>5
  <2> QED BY <1>1, <1>3, <1>4, <2>1, <2>2
<1>7. InformersAgree'
  BY <1>5 DEF CooldownInv, InformersAgree
<1>8. CopyWasCurrent'
  BY <1>5 DEF CooldownInv, CopyWasCurrent
<1>9. CopyCovered'
  BY <1>1, <1>3, <1>4, <1>5 DEF CooldownInv, CopyCovered
<1>10. CooledDown'
  <2>1. obj.spec.cooldown \in 0..MaxAge
    BY <1>3, SpecFields DEF Objects
  <2> QED
    BY <1>2, <1>3, <1>4, <1>5, <2>1 DEF CooldownInv, CooledDown, Guarded
<1> QED BY <1>6, <1>7, <1>8, <1>9, <1>10 DEF CooldownInv

LEMMA CooldownEnvironment ==
  ASSUME TypeInv, CooldownInv, Environment \/ User \/ Restart
  PROVE  CooldownInv'
<1>1. ASSUME NEW p \in Policies, SyncPolicy(p) PROVE CooldownInv'
  BY <1>1 DEF SyncPolicy, cycVars, ghostVars, TypeInv, TypeOK, StoreTypes,
              CooldownInv, Covered, InformersAgree, CopyWasCurrent,
              CopyCovered, CooledDown, Guarded
<1>2. ASSUME NEW p \in Policies, NEW o, o.last = api[p].last, WrittenByUser(p, o)
      PROVE  CooldownInv'
  BY <1>2 DEF WrittenByUser, ghostVars, TypeInv, TypeOK, StoreTypes, CycleTypes,
              CooldownInv, Covered, InformersAgree, CopyWasCurrent,
              CopyCovered, CooledDown, Guarded
<1>3. ASSUME NEW p \in Policies, EditSpec(p) \/ DeletePolicy(p)
      PROVE  CooldownInv'
  <2>1. /\ \A s : [api[p] EXCEPT !.spec = s, !.rejected = FALSE].last = api[p].last
        /\ \A l : [api[p] EXCEPT !.life = l].last = api[p].last
    BY DEF TypeInv, TypeOK, StoreTypes, Objects
  <2> QED BY <1>2, <1>3, <2>1 DEF EditSpec, DeletePolicy
<1>4. ASSUME UNCHANGED <<apiVars, cycVars, ghostVars>> PROVE CooldownInv'
  BY <1>4 DEF apiVars, cycVars, ghostVars, CooldownInv, Covered, InformersAgree,
              CopyWasCurrent, CopyCovered, CooledDown, Guarded
<1>5. ASSUME Restart PROVE CooldownInv'
  BY <1>5 DEF Restart, ghostVars, CooldownInv, Covered, InformersAgree,
              CopyWasCurrent, CopyCovered, CooledDown, Guarded, NewCycle
<1>6. \/ \E p \in Policies : SyncPolicy(p)
      \/ \E p \in Policies : EditSpec(p) \/ DeletePolicy(p)
      \/ UNCHANGED <<apiVars, cycVars, ghostVars>>
      \/ Tick \/ Restart
  BY DEF Environment, User, TimerFires, SyncDeployment, SyncAudit, Rollout,
         ScaleExternally, Freeze, DeploymentWritten
<1> QED BY <1>1, <1>3, <1>4, <1>5, <1>6, CooldownTick

LEMMA CooldownStep == TypeInv /\ CooldownInv /\ [Next]_vars => CooldownInv'
<1> SUFFICES ASSUME TypeInv, CooldownInv, [Next]_vars PROVE CooldownInv'
  OBVIOUS
<1>1. CASE \E p \in Policies : Dequeue(p)
  BY <1>1, CooldownDequeue
<1>2. CASE Worker
  BY <1>2, CooldownFinalizer, CooldownDeliberation, CooldownActuate,
     CooldownPersist
  DEF Worker, Deliberation
<1>3. CASE Environment \/ User \/ Restart
  BY <1>3, CooldownEnvironment
<1>4. CASE UNCHANGED vars
  BY <1>4 DEF vars, apiVars, cycVars, ghostVars, CooldownInv, Covered,
              InformersAgree, CopyWasCurrent, CopyCovered, CooledDown, Guarded
<1> QED BY <1>1, <1>2, <1>3, <1>4 DEF Next

(* Cooldown: a cycle that began with the newest version of the policy does *)
(* not patch the Deployment within the cooldown of a change whose          *)
(* LastScaleTime was stored.                                               *)
THEOREM CooldownIsKept == Spec => []CooldownHolds
<1>1. TypeInv /\ CooldownInv => CooldownHolds
  <2> SUFFICES ASSUME TypeInv, CooldownInv, AboutToPatch, cyc.wasSynced,
                      stamped[cur]
               PROVE  since[cur] >= obj.spec.cooldown
    BY DEF CooldownHolds
  <2>1. pc = "actuate"
    BY DEF AboutToPatch
  <2>2. obj.last <= since[cur] /\ obj.spec.cooldown <= obj.last
    BY <2>1 DEF CooldownInv, CopyCovered, CooledDown, Guarded, Steps
  <2>3. obj.last \in Int /\ since[cur] \in Int /\ obj.spec.cooldown \in Int
    <3>1. obj.spec \in Specs /\ obj.last \in Ages /\ since[cur] \in Ages
      BY DEF TypeInv, TypeOK, CycleTypes, GhostTypes, Objects
    <3> QED BY <3>1, SpecFields, LimitsAreNat DEF Ages
  <2> QED BY <2>2, <2>3
<1>2. Spec => []TypeInv
  BY InitTypes, TypeInvStep, PTL DEF Spec
<1>3. Spec => []CooldownInv
  BY <1>2, CooldownInit, CooldownStep, PTL DEF Spec
<1> QED BY <1>1, <1>2, <1>3, PTL

-----------------------------------------------------------------------------
(* The contract.  A copy in use was made of a policy that exists, and past *)
(* ensureFinalizer it is live and has the finalizer.                       *)
CopyLives ==
  /\ pc # "idle" => obj.life # "gone"
  /\ pc \in Guarded => obj.life = "live" /\ obj.fin

LEMMA CopyLivesStep ==
  ASSUME TypeInv, CopyLives, [Next]_vars
  PROVE  CopyLives'
<1>1. CASE pc' = "idle"
  BY <1>1 DEF CopyLives, Guarded
<1>2. CASE Deliberation \/ Actuate
  <2>1. pc \in Guarded /\ UNCHANGED obj
    BY <1>2, DeliberationWritesNothing DEF Actuate, Guarded, Steps, Goto, Fail
  <2> QED BY <2>1 DEF CopyLives, Guarded
<1>3. CASE pc' \in {"ensureFinalizer", "persistStatus"} /\ pc # "idle" /\ UNCHANGED obj
  BY <1>3 DEF CopyLives, Guarded
<1>4. CASE AddFinalizer
  <2>1. /\ [obj EXCEPT !.fin = TRUE].life = obj.life
        /\ [obj EXCEPT !.fin = TRUE].fin
    BY DEF TypeInv, TypeOK, CycleTypes, Objects
  <2> QED
    BY <1>4, <2>1 DEF AddFinalizer, FailUnanswered, Proceed, Goto, Fail, CopyLives, Guarded
<1>5. ReleaseFinalizer \/ RejectSpec \/ PersistStatus
        => \/ pc' = "idle"
           \/ pc' = "persistStatus" /\ pc # "idle" /\ UNCHANGED obj
  BY DEF ReleaseFinalizer, RejectSpec, FailUnanswered, PersistStatus, Return, Fail, Goto
<1>6. ASSUME NEW p \in Policies, Dequeue(p) PROVE CopyLives'
  BY <1>1, <1>6 DEF Dequeue, CopyLives, Guarded
<1>7. CASE Tick
  <2>1. Aged(obj).life = obj.life /\ Aged(obj).fin = obj.fin
    BY DEF Aged, TypeInv, TypeOK, CycleTypes, Objects
  <2>2. obj' = Aged(obj) /\ pc' = pc
    BY <1>7 DEF Tick
  <2> QED BY <2>1, <2>2 DEF CopyLives
<1>8. CASE UNCHANGED <<pc, obj>>
  BY <1>8 DEF CopyLives
<1>9. Environment \/ User \/ UNCHANGED vars => Tick \/ UNCHANGED <<pc, obj>>
  BY DEF Environment, User, SyncPolicy, TimerFires, SyncDeployment, SyncAudit,
         Rollout, EditSpec, DeletePolicy, WrittenByUser, ScaleExternally, Freeze,
         DeploymentWritten, vars, cycVars
<1>10. Restart => pc' = "idle"
  BY DEF Restart
<1> QED
  BY <1>1, <1>2, <1>3, <1>4, <1>5, <1>6, <1>7, <1>8, <1>9, <1>10
  DEF Next, Worker, Deliberation

ContractInv ==
  TypeInv /\ DecisionInv /\ FinalizerInv /\ FreshContent /\ CooldownInv /\ CopyLives

LEMMA ContractInvHolds == Spec => []ContractInv
<1>1. Spec => [](TypeInv /\ DecisionInv)
  BY DecisionInvHolds
<1>2. Spec => []FinalizerInv
  BY <1>1, FinalizerInit, FinalizerStep, PTL DEF Spec
<1>3. Init => FreshContent /\ CopyLives
  BY DEF Init, FreshContent, CopyLives, Guarded
<1>4. Spec => []FreshContent
  BY <1>1, <1>2, <1>3, ContentStep, PTL DEF Spec
<1>5. Spec => []CooldownInv
  BY <1>1, CooldownInit, CooldownStep, PTL DEF Spec
<1>6. Spec => []CopyLives
  BY <1>1, <1>3, CopyLivesStep, PTL DEF Spec
<1> QED BY <1>1, <1>2, <1>4, <1>5, <1>6, PTL DEF ContractInv

(* What may be read is what was stored, copied, or is in use.              *)
LEMMA VersionFields ==
  ASSUME NEW o
  PROVE  /\ Version(o).spec = o.spec /\ Version(o).life = o.life
         /\ Version(o).fin = o.fin /\ Version(o).last = o.last
BY DEF Version

LEMMA SameVersion ==
  ASSUME NEW o, NEW q, o.spec = q.spec, o.life = q.life, o.fin = q.fin, o.last = q.last
  PROVE  Version(o) = Version(q)
BY DEF Version

LEMMA CopiesAreReadable ==
  ASSUME NEW p \in Policies
  PROVE  /\ Version(api[p]) \in Readable(p) /\ Version(cache[p]) \in Readable(p)
         /\ pc # "idle" /\ p = cur => Version(obj) \in Readable(p)
BY DEF Readable

(* A step that brings no old version back.                                 *)
LEMMA ReadsKept ==
  ASSUME \A p \in Policies :
           Version(cache[p])' \in Readable(p) \cup {Version(api[p])'},
         \A p \in Policies :
           pc' # "idle" /\ p = cur'
             => Version(obj)' \in Readable(p) \cup {Version(api[p])'}
  PROVE  Contract!Reads
<1>1. ASSUME NEW p \in Policies
      PROVE  /\ Version(api[p])' \in Readable(p)'
             /\ Readable(p)' \subseteq Readable(p) \cup {Version(api[p])'}
  BY DEF Readable
<1> QED BY <1>1 DEF Contract!Reads

LEMMA QuietReads ==
  ASSUME UNCHANGED cache, pc' = "idle" \/ (pc # "idle" /\ UNCHANGED <<cur, obj>>)
  PROVE  Contract!Reads
BY ReadsKept, CopiesAreReadable

(* What the contract sees of an object after each kind of write.           *)
LEMMA VersionsWritten ==
  ASSUME NEW o \in Objects
  PROVE  /\ Version([o EXCEPT !.life = "gone", !.fin = FALSE])
              = [Version(o) EXCEPT !.life = "gone", !.fin = FALSE]
         /\ Version([o EXCEPT !.fin = TRUE]) = [Version(o) EXCEPT !.fin = TRUE]
         /\ Version([o EXCEPT !.rejected = TRUE]) = Version(o)
         /\ Version(Aged(o)) = Contract!Aged(Version(o))
<1>1. ASSUME NEW b PROVE Version([o EXCEPT !.fin = b]) = [Version(o) EXCEPT !.fin = b]
  BY DEF Version, Objects
<1>2. ASSUME NEW b PROVE Version([o EXCEPT !.life = "gone", !.fin = b])
                           = [Version(o) EXCEPT !.life = "gone", !.fin = b]
  <2> DEFINE released == [o EXCEPT !.life = "gone", !.fin = b]
  <2>1. /\ released.spec = o.spec /\ released.life = "gone"
        /\ released.fin = b /\ released.last = o.last
    BY DEF Objects
  <2>2. Version(released)
          = [spec |-> o.spec, life |-> "gone", fin |-> b, last |-> o.last]
    <3> HIDE DEF released
    <3> QED BY <2>1 DEF Version
  <2> DEFINE v == [Version(o) EXCEPT !.life = "gone", !.fin = b]
  <2>3. /\ v = [f \in {"spec", "life", "fin", "last"} |-> v[f]]
        /\ v.spec = o.spec /\ v.life = "gone" /\ v.fin = b /\ v.last = o.last
    BY DEF Version
  <2>4. v = [spec |-> o.spec, life |-> "gone", fin |-> b, last |-> o.last]
    <3> HIDE DEF v
    <3> QED BY <2>3
  <2> HIDE DEF released, v
  <2> QED BY <2>2, <2>4 DEF released, v
<1>3. Version([o EXCEPT !.rejected = TRUE]) = Version(o)
  BY DEF Version, Objects
<1>4. Version(Aged(o)) = Contract!Aged(Version(o))
  BY DEF Version, Objects, Aged, Older, Contract!Aged
<1> QED BY <1>1, <1>2, <1>3, <1>4

(* Steps the contract does not see.                                        *)
LEMMA Silent ==
  ASSUME UNCHANGED edits, \A p \in Policies : Version(api[p])' = Version(api[p]),
         \A d \in Deployments : dep'[d].spec = dep[d].spec,
         Contract!Reads
  PROVE  Contract!Next
BY DEF Contract!Next, Contract!Operator

LEMMA SilentWorker ==
  ASSUME UNCHANGED <<edits, apiVars, dep>>,
         pc' = "idle" \/ (pc # "idle" /\ UNCHANGED <<cur, obj>>)
  PROVE  Contract!Next
BY Silent, QuietReads DEF apiVars

(* A write of the worker that succeeds: its copy was the stored object.    *)
LEMMA Wrote ==
  ASSUME TypeInv, ContractInv, pc # "idle", NEW o, Stored(o)
  PROVE  /\ cur \in Policies /\ obj \in Objects /\ UNCHANGED cache
         /\ \A p \in Policies : api'[p] = IF p = cur THEN o ELSE api[p]
         /\ Version(api[cur]) = Version(obj) /\ Version(obj).life # "gone"
<1>1. /\ cur \in Policies /\ obj \in Objects /\ UNCHANGED cache
      /\ \A p \in Policies : api'[p] = IF p = cur THEN o ELSE api[p]
  BY DEF Stored, TypeInv, TypeOK, StoreTypes, CycleTypes
<1>2. /\ obj.spec = api[cur].spec /\ obj.last = api[cur].last
      /\ obj.life = api[cur].life /\ obj.fin = api[cur].fin
  BY DEF Stored, ContractInv, FreshContent, FinalizerInv, FreshCopy
<1>3. Version(api[cur]) = Version(obj)
  BY <1>2 DEF Version
<1>4. Version(obj).life # "gone"
  BY VersionFields DEF ContractInv, CopyLives
<1> QED BY <1>1, <1>3, <1>4

(* The worker's steps, one after the other.                                *)
LEMMA ContractDequeue ==
  ASSUME TypeInv, ContractInv, NEW p \in Policies, Dequeue(p)
  PROVE  Contract!Next
<1>1. /\ UNCHANGED <<edits, api, cache, dep>> /\ cur' = p
      /\ pc' = "idle" \/ obj' = cache[p]
  BY DEF Dequeue, apiVars, envVars
<1>2. Contract!Reads
  BY <1>1, ReadsKept, CopiesAreReadable
<1> QED BY <1>1, <1>2, Silent

LEMMA ContractRelease ==
  ASSUME TypeInv, ContractInv, ReleaseFinalizer
  PROVE  Contract!Next
<1> DEFINE o == [obj EXCEPT !.life = "gone", !.fin = FALSE]
<1>1. /\ pc = "ensureFinalizer" /\ obj.life = "deleting"
      /\ UNCHANGED <<edits, dep>>
  BY DEF ReleaseFinalizer, FailUnanswered, envVars
<1>2. ASSUME Stored(o),
             pc' = "idle" \/ (pc # "idle" /\ UNCHANGED <<cur, obj>>)
      PROVE  Contract!Next
  <2> HIDE DEF o
  <2>1. /\ cur \in Policies /\ obj \in Objects /\ UNCHANGED cache
        /\ \A p \in Policies : api'[p] = IF p = cur THEN o ELSE api[p]
        /\ Version(api[cur]) = Version(obj)
    BY <1>1, <1>2, Wrote
  <2>2. Version(o) = [Version(api[cur]) EXCEPT !.life = "gone", !.fin = FALSE]
    BY <2>1, VersionsWritten DEF o
  <2>3. Version(api[cur]).life = "deleting"
    BY <1>1, <2>1, VersionFields
  <2>4. Contract!Release(cur)
    BY <1>1, <2>1, <2>2, <2>3 DEF Contract!Release
  <2>5. Contract!Reads
    BY <1>2, <2>1, QuietReads
  <2> QED BY <1>1, <2>1, <2>4, <2>5 DEF Contract!Next, Contract!Operator
<1>3. CASE Fail /\ UNCHANGED apiVars
  BY <1>1, <1>3, SilentWorker DEF Fail, Goto
<1>4. CASE Stored(o) /\ Return(NoTimer)
  BY <1>2, <1>4 DEF Return
<1>5. CASE FailUnanswered(o)
  BY <1>1, <1>2, <1>5 DEF FailUnanswered
<1> QED BY <1>3, <1>4, <1>5 DEF ReleaseFinalizer, Refused, apiVars

LEMMA ContractReject ==
  ASSUME TypeInv, ContractInv, RejectSpec
  PROVE  Contract!Next
<1> DEFINE o == [obj EXCEPT !.rejected = TRUE]
<1>1. pc = "ensureFinalizer" /\ UNCHANGED <<edits, dep>>
  BY DEF RejectSpec, FailUnanswered, envVars
<1>2. ASSUME Stored(o),
             pc' = "idle" \/ (pc # "idle" /\ UNCHANGED <<cur, obj>>)
      PROVE  Contract!Next
  <2> HIDE DEF o
  <2>1. /\ cur \in Policies /\ obj \in Objects /\ UNCHANGED cache
        /\ \A p \in Policies : api'[p] = IF p = cur THEN o ELSE api[p]
        /\ Version(api[cur]) = Version(obj)
    BY <1>1, <1>2, Wrote
  <2>2. Version(o) = Version(obj)
    BY <2>1, VersionsWritten DEF o
  <2>3. \A p \in Policies : Version(api[p])' = Version(api[p])
    BY <2>1, <2>2
  <2>4. Contract!Reads
    BY <1>2, <2>1, QuietReads
  <2> QED BY <1>1, <2>3, <2>4, Silent
<1>3. CASE UNCHANGED apiVars /\ (Return(NoTimer) \/ Fail)
  BY <1>1, <1>3, SilentWorker DEF Fail, Goto, Return
<1>4. CASE Stored(o) /\ Return(NoTimer)
  BY <1>2, <1>4 DEF Return
<1>5. CASE FailUnanswered(o)
  BY <1>1, <1>2, <1>5 DEF FailUnanswered
<1> QED BY <1>3, <1>4, <1>5 DEF RejectSpec, Refused, apiVars

LEMMA ContractAdopt ==
  ASSUME TypeInv, ContractInv, AddFinalizer
  PROVE  Contract!Next
<1> DEFINE o == [obj EXCEPT !.fin = TRUE]
<1>1. /\ pc = "ensureFinalizer" /\ obj.life = "live"
      /\ UNCHANGED <<edits, dep>>
  BY DEF AddFinalizer, FailUnanswered, OnlyCycle, envVars
<1>2. ASSUME ~obj.fin, Stored(o), pc # "idle", UNCHANGED cur,
             obj' = o \/ UNCHANGED obj
      PROVE  Contract!Next
  <2>1. /\ cur \in Policies /\ obj \in Objects /\ UNCHANGED cache
        /\ \A p \in Policies : api'[p] = IF p = cur THEN o ELSE api[p]
        /\ Version(api[cur]) = Version(obj)
    BY <1>1, <1>2, Wrote
  <2>2. Version(o) = [Version(api[cur]) EXCEPT !.fin = TRUE]
    BY <2>1, VersionsWritten
  <2> HIDE DEF o
  <2>3. Version(api[cur]).life = "live" /\ ~Version(api[cur]).fin
    BY <1>1, <1>2, <2>1, VersionFields
  <2>4. Contract!Adopt(cur)
    BY <1>1, <2>1, <2>2, <2>3 DEF Contract!Adopt
  <2>5. Contract!Reads
    BY <1>2, <2>1, ReadsKept, CopiesAreReadable
  <2> QED BY <1>1, <2>1, <2>4, <2>5 DEF Contract!Next, Contract!Operator
<1>3. CASE UNCHANGED apiVars /\ (Proceed("checkCooldown", cyc) \/ Fail)
  BY <1>1, <1>3, SilentWorker DEF Fail, Goto, Proceed
<1>4. CASE ~obj.fin /\ Stored(o) /\ obj' = o /\ UNCHANGED cur
  BY <1>1, <1>2, <1>4
<1>5. CASE ~obj.fin /\ FailUnanswered(o)
  BY <1>1, <1>2, <1>5 DEF FailUnanswered
<1> QED BY <1>3, <1>4, <1>5 DEF AddFinalizer, Refused, OnlyCycle, apiVars

LEMMA ContractDeliberation ==
  ASSUME TypeInv, ContractInv, Deliberation
  PROVE  Contract!Next
<1>1. /\ UNCHANGED <<api, cache, synced, cur, obj, dep>> /\ pc # "idle"
  BY DeliberationWritesNothing DEF Guarded
<1>2. UNCHANGED edits
  BY DEF Deliberation, CheckCooldown, CollectSignals, FetchDecision,
         CheckOscillation, CheckRollback, ResolveTentative, EstimateCost,
         CheckApproval, ResolveFinal, ValidateDecision, CheckCoordination,
         RecordAudit, OnlyCycle, envVars
<1> QED BY <1>1, <1>2, SilentWorker DEF apiVars

LEMMA ContractScale ==
  ASSUME TypeInv, ContractInv, Actuate
  PROVE  Contract!Next
<1>1. /\ pc = "actuate" /\ UNCHANGED <<edits, api, cache, synced, cur, obj>>
      /\ \/ UNCHANGED dep
         \/ /\ dep' = [dep EXCEPT ![obj.spec.target].spec = cyc.validated]
            /\ ~obj.spec.dryRun
  BY DEF Actuate, Goto, Fail, Patched, apiVars, ghostVars
<1>2. CASE UNCHANGED dep
  BY <1>1, <1>2, SilentWorker DEF apiVars
<1>3. CASE /\ dep' = [dep EXCEPT ![obj.spec.target].spec = cyc.validated]
           /\ ~obj.spec.dryRun
  <2> DEFINE v == Version(obj)
  <2>1. /\ cur \in Policies /\ obj.spec.target \in Deployments
        /\ \A d \in Deployments :
             dep'[d].spec = IF d = obj.spec.target THEN cyc.validated
                                                   ELSE dep[d].spec
    BY <1>3, TargetTypes
    DEF TypeInv, TypeOK, CycleTypes, WorldTypes, WorkloadStates
  <2>2. v \in Readable(cur) /\ v.spec = obj.spec
    BY <1>1, <2>1, CopiesAreReadable, VersionFields
  <2>3. v.life = "live" /\ v.fin /\ obj.spec.cooldown <= v.last
    BY <1>1, VersionFields
    DEF ContractInv, CopyLives, CooldownInv, CooledDown, Guarded, Steps
  <2>4. Version(api[cur]).life # "gone"
    BY <1>1, <2>1, VersionFields
    DEF ContractInv, FinalizerInv, CopyKept, Kept, Guarded, Steps
  <2>5. obj.spec.min <= cyc.validated /\ cyc.validated <= obj.spec.max
    <3>1. /\ cyc.validated = ValidatedReplicas(cyc.dec, cyc.current, obj.spec)
          /\ cyc.dec.target \in Int
      BY <1>1 DEF ContractInv, DecisionInv, ValidatedIsCurrent, Decided
    <3>2. obj.spec.min <= obj.spec.max
      BY <1>1 DEF ContractInv, DecisionInv, SpecIsValid, ValidSpec, Guarded, Steps
    <3> QED BY <3>1, <3>2, CycleNumbers, ValidatedWithinBounds
  <2> DEFINE count == [d \in Deployments |-> dep[d].spec]
             t == v.spec.target
  <2>6. v.last >= v.spec.cooldown /\ ~v.spec.dryRun /\ t = obj.spec.target
    BY <1>3, <2>2, <2>3
  <2>7. count' = [count EXCEPT ![t] = count'[t]]
    <3> HIDE DEF v
    <3> QED BY <2>1, <2>6
  <2>8. v.spec.min <= count'[t] /\ count'[t] <= v.spec.max
    BY <2>1, <2>2, <2>5, <2>6
  <2>9. UNCHANGED [p \in Policies |-> Version(api[p])]
    BY <1>1
  <2> HIDE DEF v
  <2>10. \E p \in Policies : \E w \in Readable(p) : Contract!Scale(p, w)
    BY <2>1, <2>2, <2>3, <2>4, <2>6, <2>7, <2>8, <2>9 DEF Contract!Scale
  <2>11. Contract!Reads
    BY <1>1, QuietReads
  <2> QED BY <1>1, <2>10, <2>11 DEF Contract!Next, Contract!Operator
<1> QED BY <1>1, <1>2, <1>3

LEMMA ContractPersist ==
  ASSUME TypeInv, ContractInv, PersistStatus
  PROVE  Contract!Next
<1>1. /\ pc = "persistStatus" /\ UNCHANGED <<edits, dep>>
      /\ pc' = "idle" \/ UNCHANGED <<cur, obj>>
  BY DEF PersistStatus, Return
<1>2. CASE Stored(StatusUpdate)
  <2>1. /\ cur \in Policies /\ obj \in Objects /\ UNCHANGED cache
        /\ \A p \in Policies : api'[p] = IF p = cur THEN StatusUpdate ELSE api[p]
        /\ Version(api[cur]) = Version(obj) /\ Version(obj).life # "gone"
    BY <1>1, <1>2, Wrote
  <2>2. Contract!Reads
    BY <1>1, <2>1, QuietReads
  <2>3. /\ StatusUpdate.spec = obj.spec /\ StatusUpdate.life = obj.life
        /\ StatusUpdate.fin = obj.fin
        /\ StatusUpdate.last = IF CountsAsScaling THEN 0 ELSE obj.last
    BY <2>1 DEF StatusUpdate, Objects
  <2>4. CASE CountsAsScaling
    <3>1. Version(StatusUpdate) = [Version(obj) EXCEPT !.last = 0]
      BY <2>3, <2>4 DEF Version
    <3>2. Contract!Stamp(cur)
      BY <1>1, <2>1, <3>1 DEF Contract!Stamp
    <3> QED BY <1>1, <2>1, <2>2, <3>2 DEF Contract!Next, Contract!Operator
  <2>5. CASE ~CountsAsScaling
    <3>1. Version(StatusUpdate) = Version(obj)
      BY <2>3, <2>5, SameVersion
    <3>2. \A p \in Policies : Version(api[p])' = Version(api[p])
      BY <2>1, <3>1
    <3> QED BY <1>1, <2>2, <3>2, Silent
  <2> QED BY <2>4, <2>5
<1>3. CASE UNCHANGED apiVars
  BY <1>1, <1>3, SilentWorker
<1> QED BY <1>2, <1>3 DEF PersistStatus, StatusStored, Refused

(* Informers, restarts and time.                                           *)
LEMMA ContractEnvironment ==
  ASSUME TypeInv, ContractInv, Environment \/ Restart \/ UNCHANGED vars
  PROVE  Contract!Next \/ UNCHANGED Contract!vars
<1>1. ASSUME NEW p \in Policies, SyncPolicy(p) PROVE Contract!Next
  <2>1. /\ UNCHANGED <<edits, api, dep, pc, cur, obj>>
        /\ \A q \in Policies : cache'[q] \in {api[q], cache[q]}
    BY <1>1 DEF SyncPolicy, cycVars, envVars, TypeInv, TypeOK, StoreTypes
  <2>2. Contract!Reads
    BY <2>1, ReadsKept, CopiesAreReadable
  <2> QED BY <2>1, <2>2, Silent
<1>2. CASE Restart
  <2>1. UNCHANGED <<edits, api, dep>> /\ cache' = api /\ pc' = "idle"
    BY <1>2 DEF Restart
  <2>2. Contract!Reads
    BY <2>1, ReadsKept, CopiesAreReadable
  <2> QED BY <2>1, <2>2, Silent
<1>3. CASE UNCHANGED <<edits, api, cache, pc, cur, obj>>
           /\ \A d \in Deployments : dep'[d].spec = dep[d].spec
  <2>1. Contract!Reads
    BY <1>3, ReadsKept, CopiesAreReadable
  <2> QED BY <1>3, <2>1, Silent
<1>4. ASSUME NEW d \in Deployments, Rollout(d)
      PROVE  /\ UNCHANGED <<edits, api, cache, pc, cur, obj>>
             /\ \A e \in Deployments : dep'[e].spec = dep[e].spec
  BY <1>4 DEF Rollout, apiVars, cycVars, TypeInv, TypeOK, WorldTypes,
              WorkloadStates
<1>5. CASE Tick
  <2>1. /\ \A p \in Policies : api[p] \in Objects /\ cache[p] \in Objects
        /\ obj \in Objects
        /\ \A d \in Deployments : dep[d] \in WorkloadStates
    BY DEF TypeInv, TypeOK, StoreTypes, CycleTypes, WorldTypes
  <2>2. /\ \A p \in Policies : api'[p] = Aged(api[p]) /\ cache'[p] = Aged(cache[p])
        /\ obj' = Aged(obj) /\ UNCHANGED <<pc, cur, edits>>
        /\ \A d \in Deployments : dep'[d] = Thawed(dep[d])
    BY <1>5 DEF Tick
  <2>3. \A d \in Deployments : dep'[d].spec = dep[d].spec
    BY <2>1, <2>2 DEF Thawed, WorkloadStates
  <2>4. \A p \in Policies :
          /\ Version(api[p])' = Contract!Aged(Version(api[p]))
          /\ Version(cache[p])' = Contract!Aged(Version(cache[p]))
          /\ Version(obj)' = Contract!Aged(Version(obj))
    BY <2>1, <2>2, VersionsWritten
  <2>5. \A p \in Policies :
          Readable(p)' = {Contract!Aged(v) : v \in Readable(p)}
    BY <2>2, <2>4 DEF Readable
  <2> QED BY <2>2, <2>3, <2>4, <2>5 DEF Contract!Next, Contract!Passes
<1>6. Environment \/ UNCHANGED vars
        => \/ Tick \/ (\E p \in Policies : SyncPolicy(p))
           \/ (\E d \in Deployments : Rollout(d))
           \/ UNCHANGED <<edits, api, cache, pc, cur, obj, dep>>
  BY DEF Environment, TimerFires, SyncDeployment, SyncAudit, vars, apiVars,
         cycVars, envVars
<1> QED BY <1>1, <1>2, <1>3, <1>4, <1>5, <1>6

LEMMA ContractUser ==
  ASSUME TypeInv, ContractInv, User
  PROVE  Contract!Next
<1> DEFINE policy == [p \in Policies |-> Version(api[p])]
           count == [d \in Deployments |-> dep[d].spec]
<1>1. edits' = edits + 1 /\ UNCHANGED <<cache, pc, cur, obj>>
  BY DEF User, EditSpec, DeletePolicy, WrittenByUser, ScaleExternally, Freeze,
         DeploymentWritten, apiVars, cycVars
<1>2. Contract!Reads
  BY <1>1, ReadsKept, CopiesAreReadable
<1>3. ASSUME NEW p \in Policies, NEW o, WrittenByUser(p, o)
      PROVE  policy' = [policy EXCEPT ![p] = Version(o)] /\ UNCHANGED count
  BY <1>3 DEF WrittenByUser, TypeInv, TypeOK, StoreTypes
<1>4. ASSUME NEW p \in Policies, EditSpec(p) PROVE Contract!Next
  <2>1. PICK s \in Specs :
          WrittenByUser(p, [api[p] EXCEPT !.spec = s, !.rejected = FALSE])
    BY <1>4 DEF EditSpec
  <2> DEFINE o == [api[p] EXCEPT !.spec = s, !.rejected = FALSE]
  <2>2. api[p] \in Objects /\ api[p].life = "live"
    BY <1>4 DEF EditSpec, TypeInv, TypeOK, StoreTypes
  <2>3. o.spec = s /\ o.life = api[p].life /\ o.fin = api[p].fin /\ o.last = api[p].last
    BY <2>2 DEF Objects
  <2> HIDE DEF o
  <2>4. Version(o) = [Version(api[p]) EXCEPT !.spec = Version(o).spec]
    BY <2>3 DEF Version
  <2>5. policy' = [policy EXCEPT ![p] = Version(o)] /\ UNCHANGED count
    BY <1>3, <2>1 DEF o
  <2>6. policy' = [policy EXCEPT ![p].spec = policy'[p].spec]
    BY <2>4, <2>5
  <2>7. Version(api[p]).life = "live"
    BY <2>2, VersionFields
  <2>8. \E q \in Policies : Contract!Edit(q)
    BY <2>5, <2>6, <2>7 DEF Contract!Edit
  <2> QED BY <1>1, <1>2, <2>8 DEF Contract!Next, Contract!User
<1>5. ASSUME NEW p \in Policies, DeletePolicy(p) PROVE Contract!Next
  <2> DEFINE l == IF api[p].fin THEN "deleting" ELSE "gone"
             o == [api[p] EXCEPT !.life = l]
  <2>1. api[p] \in Objects /\ api[p].life = "live" /\ WrittenByUser(p, o)
    BY <1>5 DEF DeletePolicy, TypeInv, TypeOK, StoreTypes
  <2>2. o.spec = api[p].spec /\ o.life = l /\ o.fin = api[p].fin /\ o.last = api[p].last
    BY <2>1 DEF Objects
  <2> HIDE DEF o, l
  <2>3. Version(o) = [Version(api[p]) EXCEPT !.life = l]
    BY <2>2 DEF Version
  <2>4. policy' = [policy EXCEPT ![p] = Version(o)] /\ UNCHANGED count
    BY <1>3, <2>1
  <2>5. policy' = [policy EXCEPT ![p].life = l]
    BY <2>3, <2>4
  <2>6. /\ Version(api[p]).life = "live"
        /\ l = IF Version(api[p]).fin THEN "deleting" ELSE "gone"
    BY <2>1, VersionFields DEF l
  <2>7. \E q \in Policies : Contract!Delete(q)
    BY <2>4, <2>5, <2>6 DEF Contract!Delete
  <2> QED BY <1>1, <1>2, <2>7 DEF Contract!Next, Contract!User
<1>6. ASSUME NEW d \in Deployments, ScaleExternally(d) \/ Freeze(d)
      PROVE  Contract!Next
  <2>1. PICK w : dep' = [dep EXCEPT ![d] = w] /\ UNCHANGED api
    BY <1>6 DEF ScaleExternally, Freeze, DeploymentWritten, apiVars
  <2>2. UNCHANGED policy /\ count' = [count EXCEPT ![d] = count'[d]]
    BY <2>1 DEF TypeInv, TypeOK, WorldTypes
  <2>3. \E e \in DOMAIN count : Contract!SetCount(e)
    BY <2>2 DEF Contract!SetCount
  <2> QED BY <1>1, <1>2, <2>3 DEF Contract!Next, Contract!User
<1> QED BY <1>4, <1>5, <1>6 DEF User

LEMMA ContractInit == Init => Contract!Init
<1> SUFFICES ASSUME Init PROVE Contract!Init
  OBVIOUS
<1>1. \A p \in Policies : api[p].life = "live" /\ ~api[p].fin
  BY InitialPolicies
<1>2. cache = api /\ pc = "idle" /\ edits = 0
  BY DEF Init
<1>3. \A p \in Policies : Readable(p) = {Version(api[p])}
  BY <1>2 DEF Readable
<1> QED BY <1>1, <1>2, <1>3, VersionFields DEF Contract!Init

(* The contract: whatever is stale, conflicts, is lost or restarts, users  *)
(* see of the loop only adoptions, releases, stamps and scalings of        *)
(* ScalingContract: every step of the loop is a step of the contract, or   *)
(* changes nothing the contract speaks of.                                 *)
THEOREM ContractIsKept == Spec => ImplementsContract
<1>1. TypeInv /\ ContractInv /\ [Next]_vars => [Contract!Next]_Contract!vars
  <2> SUFFICES ASSUME TypeInv, ContractInv, [Next]_vars
               PROVE  Contract!Next \/ UNCHANGED Contract!vars
    OBVIOUS
  <2>1. CASE \E p \in Policies : Dequeue(p)
    BY <2>1, ContractDequeue
  <2>2. CASE Worker
    BY <2>2, ContractRelease, ContractReject, ContractAdopt,
       ContractDeliberation, ContractScale, ContractPersist
    DEF Worker, Deliberation
  <2>3. CASE User
    BY <2>3, ContractUser
  <2>4. CASE Environment \/ Restart \/ UNCHANGED vars
    BY <2>4, ContractEnvironment
  <2> QED BY <2>1, <2>2, <2>3, <2>4 DEF Next
<1>2. Spec => [](TypeInv /\ ContractInv)
  BY ContractInvHolds, PTL DEF ContractInv
<1> QED
  BY <1>1, <1>2, ContractInit, PTL DEF Spec, ImplementsContract, Contract!Spec
=============================================================================
