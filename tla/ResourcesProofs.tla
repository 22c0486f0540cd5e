--------------------------- MODULE ResourcesProofs ---------------------------
(***************************************************************************)
(* The vertical half of a cycle for every set of amounts, configurations,  *)
(* proposals and counts: types, the contract with the user, the slot, the  *)
(* status and the stamp of a scaling.                                      *)
(***************************************************************************)
EXTENDS ResourcesProperties, TLAPS

LEMMA FieldsApart ==
  /\ Fields = {"cpuRequest", "memoryRequest", "cpuLimit", "memoryLimit"}
  /\ Requests \cap Limits = {}
  /\ \A f \in Requests : LimitOf[f] \in Limits
  /\ DOMAIN LimitOf = Requests /\ {LimitOf[f] : f \in Requests} = Limits
<1>1. /\ DOMAIN LimitOf = Requests
      /\ LimitOf["cpuRequest"] = "cpuLimit" /\ LimitOf["memoryRequest"] = "memoryLimit"
  BY DEF LimitOf, Requests
<1>2. {LimitOf[f] : f \in Requests} = Limits
  BY <1>1 DEF Requests, Limits
<1> QED BY <1>1, <1>2 DEF Fields, Requests, Limits

LEMMA ConfTypes ==
  ASSUME conf \in Configs
  PROVE  /\ conf.enabled \in BOOLEAN /\ conf.dryRun \in BOOLEAN /\ conf.mode \in Modes
         /\ conf.min \in Bounds /\ conf.max \in Bounds
BY ResourcesAssumption

Answers == {AnswerTo(p) : p \in {q \in Proposals : Complete(q)}}

LEMMA AnswersAreContainers == Answers \subseteq Containers
<1> SUFFICES ASSUME NEW p \in Proposals, Complete(p)
             PROVE  AnswerTo(p) \in Containers
  BY DEF Answers
<1>1. \A f \in Fields : (IF p[f] = Blank THEN 0 ELSE p[f]) \in Amounts
  BY ResourcesAssumption DEF Complete, Fields
<1> QED BY <1>1 DEF AnswerTo, Containers

(* What the vertical half makes of a proposal is a complete answer.        *)
LEMMA DecisionIsAnswer ==
  ASSUME NEW p \in Proposals, VerticalDecision(p) # Nothing
  PROVE  conf.enabled /\ VerticalDecision(p) \in Answers
<1>1. conf.enabled /\ Complete(p) /\ VerticalDecision(p) = AnswerTo(p)
  BY DEF VerticalDecision, Complete, AnswerTo
<1> QED BY <1>1 DEF Answers

(* Where the cycle is, and what it knows there.                            *)
Applied ==
  /\ pc = "persist" /\ cyc.wish # Nothing
  /\ cyc.found \in Containers /\ cyc.left \in Containers
  /\ \A f \in Patch(cyc.wish) : cyc.left[f] = cyc.wish[f]
  /\ \A f \in Fields \ (Patch(cyc.wish) \cup cyc.shrunk) : cyc.left[f] = cyc.found[f]

Progress ==
  /\ cyc.wish # Nothing => conf.enabled /\ cyc.wish \in Answers
  /\ pc \in {"coordinate", "scale", "resize"} => cyc.validated \in Counts
  /\ pc \in {"observe", "decide", "coordinate", "scale"} => ~cyc.written
  /\ pc # "persist" => cyc.result = "none"
  /\ pc \in {"scale", "resize"} /\ ~cyc.slot => ~VerticalMutation
  /\ cyc.written => cyc.scales /\ ~conf.dryRun /\ cyc.validated \in Counts
  /\ pc = "persist" /\ cyc.written => cyc.recorded \/ cyc.result = "failed"
  /\ cyc.result = "applied" => Applied

ResourcesInv == ResourcesTypes /\ Progress

LEMMA InitInv == Init => ResourcesInv
<1> SUFFICES ASSUME Init PROVE ResourcesInv
  OBVIOUS
<1>1. 0 \in 0 .. MaxEdits /\ 0 \in 0 .. MaxFaults
  BY ResourcesAssumption
<1>2. ResourcesTypes
  BY <1>1, ResourcesAssumption DEF Init, ResourcesTypes, NewCycle, Cycles
<1>3. Progress
  BY DEF Init, Progress, NewCycle
<1> QED BY <1>2, <1>3 DEF ResourcesInv

LEMMA CallFailsCounts ==
  ASSUME faults \in 0 .. MaxFaults, CallFails
  PROVE  faults' \in 0 .. MaxFaults
BY ResourcesAssumption DEF CallFails

LEMMA ObserveInv == ASSUME ResourcesInv, Observe PROVE ResourcesInv'
<1>1. PICK n \in Counts, c \in {seen.container, Nothing} :
        /\ cyc' = [cyc EXCEPT !.count = n, !.current = c]
        /\ IF c = Nothing /\ conf.enabled THEN CallFails ELSE UNCHANGED faults
  BY DEF Observe
<1>2. faults' \in 0 .. MaxFaults
  BY <1>1, CallFailsCounts DEF ResourcesInv, ResourcesTypes
<1>3. ResourcesTypes'
  BY <1>1, <1>2 DEF ResourcesInv, ResourcesTypes, Observe, deployment, Cycles
<1>4. Progress'
  BY <1>1 DEF ResourcesInv, ResourcesTypes, Progress, Observe, Applied, Cycles
<1> QED BY <1>3, <1>4 DEF ResourcesInv

LEMMA ConsultInv == ASSUME ResourcesInv, Consult PROVE ResourcesInv'
<1>1. PICK v \in Counts :
        cyc' = [cyc EXCEPT !.validated = v, !.wish = VerticalDecision(advice)]
  BY DEF Consult
<1>2. VerticalDecision(advice) # Nothing =>
        conf.enabled /\ VerticalDecision(advice) \in Answers
  BY DecisionIsAnswer DEF ResourcesInv, ResourcesTypes
<1>3. ResourcesTypes'
  BY <1>1, <1>2, AnswersAreContainers
  DEF ResourcesInv, ResourcesTypes, Consult, deployment, bounds, Cycles
<1>4. Progress'
  BY <1>1, <1>2 DEF ResourcesInv, ResourcesTypes, Progress, Consult, Applied, Cycles
<1> QED BY <1>3, <1>4 DEF ResourcesInv

LEMMA AloneInv == ASSUME ResourcesInv, DecideAlone PROVE ResourcesInv'
<1>1. PICK v \in Counts : cyc' = [cyc EXCEPT !.validated = v]
  BY DEF DecideAlone
<1>2. ResourcesTypes'
  BY <1>1 DEF ResourcesInv, ResourcesTypes, DecideAlone, deployment, bounds, Cycles
<1>3. Progress'
  BY <1>1 DEF ResourcesInv, ResourcesTypes, Progress, DecideAlone, Applied, Cycles
<1> QED BY <1>2, <1>3 DEF ResourcesInv

LEMMA EndInv == ASSUME ResourcesInv, NoDecision \/ Deferred PROVE ResourcesInv'
<1>1. ResourcesTypes'
  BY DEF ResourcesInv, ResourcesTypes, NoDecision, Deferred, deployment, bounds, Cycles
<1>2. Progress'
  BY DEF ResourcesInv, ResourcesTypes, Progress, NoDecision, Deferred, Applied, Cycles
<1> QED BY <1>1, <1>2 DEF ResourcesInv

LEMMA GrantedInv == ASSUME ResourcesInv, Granted PROVE ResourcesInv'
<1>1. NeedsSlot \in BOOLEAN
  BY DEF NeedsSlot
<1>2. ResourcesTypes'
  BY <1>1 DEF ResourcesInv, ResourcesTypes, Granted, deployment, bounds, Cycles
<1>3. /\ cyc'.current = cyc.current /\ cyc'.wish = cyc.wish
      /\ cyc'.slot = NeedsSlot /\ conf' = conf
  BY DEF ResourcesInv, ResourcesTypes, Granted, Cycles
<1>4. ~cyc'.slot => ~VerticalMutation'
  BY <1>3 DEF NeedsSlot, VerticalMutation, Live
<1>5. Progress'
  BY <1>3, <1>4 DEF ResourcesInv, ResourcesTypes, Progress, Granted, Applied, Cycles
<1> QED BY <1>2, <1>5 DEF ResourcesInv

LEMMA ScaleInv == ASSUME ResourcesInv, Scale PROVE ResourcesInv'
<1>1. Written \in Counts
  BY DEF ResourcesInv, ResourcesTypes, Progress, Scale, Written
<1>2. /\ replicas' \in Counts /\ faults' \in 0 .. MaxFaults
      /\ pc' \in {"resize", "persist"}
      /\ replicas' # replicas => Scales /\ ~conf.dryRun
  BY <1>1, CallFailsCounts DEF ResourcesInv, ResourcesTypes, Scale, Written
<1>3. PICK s \in BOOLEAN, w \in BOOLEAN, r \in {"none", "failed"} :
        /\ s = Scales /\ w = (replicas' # replicas)
        /\ r = IF pc' = "persist" THEN "failed" ELSE cyc.result
        /\ cyc' = [cyc EXCEPT !.scales = s, !.written = w, !.result = r]
  <2>1. Scales \in BOOLEAN /\ (replicas' # replicas) \in BOOLEAN
    BY DEF Scales
  <2>2. (IF pc' = "persist" THEN "failed" ELSE cyc.result) \in {"none", "failed"}
    BY DEF ResourcesInv, Progress, Scale
  <2> QED BY <2>1, <2>2, Zenon DEF Scale
<1>4. ResourcesTypes'
  <2>1. cyc' = [cyc EXCEPT !.scales = s, !.written = w, !.result = r]
    BY <1>3
  <2>2. UNCHANGED <<conf, container, ours, theirs, seen, advice, status, edits>>
    BY DEF Scale
  <2>3. cyc \in Cycles
    BY DEF ResourcesInv, ResourcesTypes
  <2>4. [cyc EXCEPT !.scales = s, !.written = w, !.result = r] \in Cycles
    BY <2>3 DEF Cycles
  <2>5. cyc' \in Cycles
    BY <2>1, <2>4
  <2> QED BY <1>2, <2>2, <2>5 DEF ResourcesInv, ResourcesTypes
<1>5. /\ cyc'.current = cyc.current /\ cyc'.wish = cyc.wish /\ cyc'.slot = cyc.slot
      /\ cyc'.validated = cyc.validated
      /\ cyc'.scales = s /\ cyc'.written = w
      /\ cyc'.result = r
      /\ conf' = conf
  BY <1>3 DEF ResourcesInv, ResourcesTypes, Scale, Cycles
<1>6. VerticalMutation' <=> VerticalMutation
  BY <1>5 DEF VerticalMutation, Live
<1>7. w => s /\ ~conf.dryRun
  BY <1>2, <1>3
<1>8. Progress'
  <2>1. cyc.validated \in Counts /\ cyc.result = "none" /\ pc = "scale"
    BY DEF ResourcesInv, Progress, Scale
  <2>2. cyc'.wish # Nothing => conf'.enabled /\ cyc'.wish \in Answers'
    BY <1>5 DEF ResourcesInv, Progress, Answers, AnswerTo, Complete
  <2>3. pc' \in {"scale", "resize"} /\ ~cyc'.slot => ~VerticalMutation'
    BY <1>5, <1>6, <2>1 DEF ResourcesInv, Progress
  <2> QED BY <1>2, <1>3, <1>5, <1>7, <2>1, <2>2, <2>3 DEF Progress, Applied
<1> QED BY <1>4, <1>8 DEF ResourcesInv

(* What the server makes of the patch, and what the outcome says of it.    *)
LEMMA PatchFacts ==
  ASSUME ResourcesTypes, cyc.wish \in Answers
  PROVE  /\ cyc.wish \in Containers /\ Merged(cyc.wish) \in Containers
         /\ Patch(cyc.wish) \subseteq Fields
         /\ Dropped(cyc.wish) \subseteq Limits
         /\ \A f \in Patch(cyc.wish) : Merged(cyc.wish)[f] = cyc.wish[f]
         /\ \A f \in Fields \ (Patch(cyc.wish) \cup Dropped(cyc.wish)) :
              Merged(cyc.wish)[f] = container[f]
         /\ \A f \in Dropped(cyc.wish) : Merged(cyc.wish)[f] = 0
<1> DEFINE w == cyc.wish
<1>1. w \in [Fields -> Amounts] /\ container \in [Fields -> Amounts]
  BY AnswersAreContainers DEF ResourcesTypes, Containers
<1>2. Patch(w) \subseteq Fields
  BY DEF Patch, Fields
<1>3. Dropped(w) \subseteq Limits
  BY DEF Dropped, Patch, Fields, ResourcesTypes
<1>4. Merged(w) = [f \in Fields |->
        IF f \in Patch(w) THEN w[f]
        ELSE IF f \in ours \ (theirs \cup Patch(w)) THEN 0 ELSE container[f]]
  BY DEF Merged
<1>5. Merged(w) \in [Fields -> Amounts]
  BY <1>1, <1>4, ResourcesAssumption
<1>6. /\ \A f \in Patch(w) : Merged(w)[f] = w[f]
      /\ \A f \in Fields \ (Patch(w) \cup Dropped(w)) : Merged(w)[f] = container[f]
      /\ \A f \in Dropped(w) : Merged(w)[f] = 0
  BY <1>2, <1>3, <1>4 DEF Dropped, Fields
<1> QED BY <1>1, <1>2, <1>3, <1>5, <1>6 DEF Containers

LEMMA OutcomeFacts ==
  /\ Outcome \in {"failed", "recommended", "dry", "applied"}
  /\ Outcome = "applied" => /\ Within(cyc.wish) /\ Acceptable(Merged(cyc.wish))
                            /\ conf.mode # "RecommendOnly" /\ ~conf.dryRun
<1>1. CASE ~Within(cyc.wish)
  BY <1>1 DEF Outcome
<1>2. CASE Within(cyc.wish) /\ conf.mode = "RecommendOnly"
  BY <1>2 DEF Outcome
<1>3. CASE /\ Within(cyc.wish) /\ conf.mode # "RecommendOnly"
           /\ ~Acceptable(Merged(cyc.wish))
  BY <1>3 DEF Outcome
<1>4. CASE /\ Within(cyc.wish) /\ conf.mode # "RecommendOnly"
           /\ Acceptable(Merged(cyc.wish)) /\ conf.dryRun
  BY <1>4 DEF Outcome
<1>5. CASE /\ Within(cyc.wish) /\ conf.mode # "RecommendOnly"
           /\ Acceptable(Merged(cyc.wish)) /\ ~conf.dryRun
  BY <1>5 DEF Outcome
<1> QED BY <1>1, <1>2, <1>3, <1>4, <1>5

(* A patch that is made, whether its answer is heard or not.               *)
LEMMA PatchedTypes ==
  ASSUME ResourcesTypes, cyc.wish \in Answers, Patched(cyc.wish)
  PROVE  /\ container' \in Containers /\ ours' \subseteq Fields /\ theirs' \subseteq Fields
         /\ ~conf.dryRun => container' = Merged(cyc.wish)
<1>1. CASE conf.dryRun
  BY <1>1 DEF Patched, ResourcesTypes
<1>2. CASE ~conf.dryRun
  BY <1>2, PatchFacts DEF Patched, ResourcesTypes
<1> QED BY <1>1, <1>2

LEMMA ResizeDone ==
  ASSUME ResourcesInv, Resize, ~CallFails
  PROVE  /\ IF Outcome = "applied"
            THEN container' = Merged(cyc.wish) ELSE container' = container
         /\ \E b \in BOOLEAN :
              /\ b = (cyc.scales /\ Outcome # "failed")
              /\ cyc' = [cyc EXCEPT !.result = Outcome,
                                    !.found = container, !.left = container',
                                    !.shrunk = IF Outcome = "applied"
                                               THEN Dropped(cyc.wish) ELSE {},
                                    !.recorded = b]
<1>1. /\ IF Outcome = "applied" THEN Patched(cyc.wish)
                                ELSE UNCHANGED <<container, ours, theirs>>
      /\ cyc' = [cyc EXCEPT !.result = Outcome,
                            !.found = container, !.left = container',
                            !.shrunk = IF Outcome = "applied"
                                       THEN Dropped(cyc.wish) ELSE {},
                            !.recorded = cyc.scales /\ Outcome # "failed"]
  BY Zenon DEF Resize
<1>2. (cyc.scales /\ Outcome # "failed") \in BOOLEAN
  OBVIOUS
<1>3. Outcome = "applied" => container' = Merged(cyc.wish)
  BY <1>1, OutcomeFacts DEF Patched
<1> QED BY <1>1, <1>2, <1>3, Zenon

LEMMA ResizeInv == ASSUME ResourcesInv, Resize PROVE ResourcesInv'
<1>1. ResourcesTypes /\ cyc.wish \in Answers /\ cyc \in Cycles
  BY DEF ResourcesInv, ResourcesTypes, Progress, Resize
<1>2. /\ container' \in Containers /\ ours' \subseteq Fields /\ theirs' \subseteq Fields
  BY <1>1, PatchedTypes, Zenon DEF Resize, ResourcesTypes
<1>3. faults' \in 0 .. MaxFaults
  BY <1>1, CallFailsCounts DEF Resize, ResourcesTypes
<1>4. /\ pc' = "persist" /\ UNCHANGED <<conf, replicas, seen, advice, status, edits>>
  BY DEF Resize
<1>5. /\ conf.enabled /\ cyc.validated \in Counts /\ cyc.result = "none"
      /\ cyc.written => cyc.scales /\ ~conf.dryRun
  BY <1>1 DEF ResourcesInv, Progress, Resize
<1>6. CASE CallFails
  <2>1. PICK r \in {"failed"} : cyc' = [cyc EXCEPT !.result = r]
    BY <1>1, <1>6 DEF Resize, CallFails, ResourcesTypes
  <2>2. ResourcesTypes'
    BY <1>1, <1>2, <1>3, <1>4, <2>1 DEF ResourcesTypes, Cycles
  <2>3. Progress'
    BY <1>1, <1>4, <1>5, <2>1 DEF Progress, Cycles, Applied
  <2> QED BY <2>2, <2>3 DEF ResourcesInv
<1>7. CASE ~CallFails
  <2>1. PICK b \in BOOLEAN :
          /\ b = (cyc.scales /\ Outcome # "failed")
          /\ cyc' = [cyc EXCEPT !.result = Outcome,
                                !.found = container, !.left = container',
                                !.shrunk = IF Outcome = "applied"
                                           THEN Dropped(cyc.wish) ELSE {},
                                !.recorded = b]
    BY <1>7, ResizeDone
  <2>2. Outcome = "applied" => container' = Merged(cyc.wish)
    BY <1>7, ResizeDone
  <2>3. PICK d \in SUBSET Limits :
          /\ d = IF Outcome = "applied" THEN Dropped(cyc.wish) ELSE {}
          /\ cyc' = [cyc EXCEPT !.result = Outcome,
                                !.found = container, !.left = container',
                                !.shrunk = d, !.recorded = b]
    BY <1>1, <2>1, PatchFacts
  <2>4. cyc' = [cyc EXCEPT !.result = Outcome,
                           !.found = container, !.left = container',
                           !.shrunk = d, !.recorded = b]
    BY <2>3
  <2>5. cyc' \in Cycles
    BY <1>1, <1>2, <2>4, OutcomeFacts DEF Cycles, ResourcesTypes
  <2>6. ResourcesTypes'
    BY <1>1, <1>2, <1>3, <1>4, <2>5 DEF ResourcesTypes
  <2>7. /\ cyc'.wish = cyc.wish /\ cyc'.validated = cyc.validated
        /\ cyc'.scales = cyc.scales /\ cyc'.written = cyc.written
        /\ cyc'.result = Outcome /\ cyc'.recorded = b
        /\ cyc'.found = container /\ cyc'.left = container' /\ cyc'.shrunk = d
    BY <1>1, <2>4 DEF Cycles
  <2>8. cyc'.written => cyc'.recorded \/ cyc'.result = "failed"
    BY <1>5, <2>1, <2>7
  <2>9. Outcome = "applied" =>
          /\ \A f \in Patch(cyc.wish) : container'[f] = cyc.wish[f]
          /\ \A f \in Fields \ (Patch(cyc.wish) \cup d) : container'[f] = container[f]
    BY <1>1, <2>2, <2>3, PatchFacts
  <2>10. Applied' \/ Outcome # "applied"
    BY <1>1, <1>2, <1>4, <2>7, <2>9, PatchFacts DEF Applied, Patch, ResourcesTypes, Resize
  <2>11. Progress'
    BY <1>1, <1>4, <1>5, <2>7, <2>8, <2>10 DEF Progress
  <2> QED BY <2>6, <2>11 DEF ResourcesInv
<1> QED BY <1>6, <1>7

LEMMA NoResizeInv == ASSUME ResourcesInv, NoResize PROVE ResourcesInv'
<1>1. ResourcesTypes'
  BY DEF ResourcesInv, ResourcesTypes, NoResize, deployment, bounds, Cycles
<1>2. Progress'
  BY DEF ResourcesInv, ResourcesTypes, Progress, NoResize, Applied, Cycles
<1> QED BY <1>1, <1>2 DEF ResourcesInv

LEMMA PersistInv == ASSUME ResourcesInv, Persist PROVE ResourcesInv'
<1>1. cyc \in Cycles /\ status.resources \in Containers \cup {Nothing}
  BY DEF ResourcesInv, ResourcesTypes
<1>2. Reported \in Containers \cup {Nothing}
  <2>1. [f \in Fields |-> 0] \in Containers
    BY ResourcesAssumption DEF Containers
  <2>2. ASSUME NEW b \in Containers, cyc.result = "applied"
        PROVE  [f \in Fields |-> IF f \in Patch(cyc.wish) THEN cyc.wish[f] ELSE b[f]]
                 \in Containers
    BY <1>1, <2>2, PatchFacts DEF ResourcesInv, Progress, Applied, Containers
  <2> QED BY <1>1, <2>1, <2>2 DEF Reported, Cycles
<1>3. PICK b \in BOOLEAN : b = Stamped
  BY DEF Stamped
<1>4. status' \in [resources : Containers \cup {Nothing}, stamped : BOOLEAN]
  BY <1>2, <1>3 DEF Persist, ResourcesInv, ResourcesTypes
<1>5. faults' \in 0 .. MaxFaults
  BY CallFailsCounts DEF ResourcesInv, ResourcesTypes, Persist
<1>6. cyc' \in Cycles
  BY DEF Persist, NewCycle, Cycles
<1>7. ResourcesTypes'
  BY <1>4, <1>5, <1>6 DEF ResourcesInv, ResourcesTypes, Persist, deployment
<1>8. Progress'
  BY DEF Progress, Persist, NewCycle
<1> QED BY <1>7, <1>8 DEF ResourcesInv

(* Steps that leave the policy and the cycle alone.                        *)
LEMMA CycleUntouched ==
  ASSUME ResourcesInv, UNCHANGED <<conf, pc, cyc>> PROVE Progress'
BY DEF ResourcesInv, Progress, Applied, VerticalMutation, Live, Patch, Answers,
       AnswerTo, Complete

LEMMA WorldInv ==
  ASSUME ResourcesInv,
         SyncDeployment \/ UserResizes \/ UserScales \/ ThinkAgain \/ UNCHANGED vars
  PROVE  ResourcesInv'
<1>1. UNCHANGED <<conf, pc, cyc>>
  BY DEF SyncDeployment, UserResizes, UserScales, ThinkAgain, vars
<1> SUFFICES ResourcesTypes'
  BY <1>1, CycleUntouched DEF ResourcesInv
<1>2. UserWrites => edits' \in 0 .. MaxEdits
  BY ResourcesAssumption DEF UserWrites, ResourcesInv, ResourcesTypes
<1>3. CASE SyncDeployment
  BY <1>3 DEF SyncDeployment, ResourcesInv, ResourcesTypes, deployment, bounds
<1>4. CASE UserResizes
  <2>1. container' \in Containers /\ ours' \subseteq Fields /\ theirs' \subseteq Fields
    BY <1>4 DEF UserResizes, ResourcesInv, ResourcesTypes, Containers
  <2> QED BY <1>2, <1>4, <2>1 DEF UserResizes, ResourcesInv, ResourcesTypes
<1>5. CASE UserScales
  BY <1>2, <1>5 DEF UserScales, ResourcesInv, ResourcesTypes
<1>6. CASE ThinkAgain
  BY <1>2, <1>6 DEF ThinkAgain, ResourcesInv, ResourcesTypes, deployment
<1>7. CASE UNCHANGED vars
  BY <1>7 DEF vars, ResourcesInv, ResourcesTypes
<1> QED BY <1>3, <1>4, <1>5, <1>6, <1>7

LEMMA RestartInv == ASSUME ResourcesInv, Restart PROVE ResourcesInv'
<1>1. faults' \in 0 .. MaxFaults
  BY CallFailsCounts DEF ResourcesInv, ResourcesTypes, Restart
<1>2. cyc' \in Cycles
  BY DEF Restart, NewCycle, Cycles
<1>3. ResourcesTypes'
  BY <1>1, <1>2 DEF ResourcesInv, ResourcesTypes, Restart, deployment
<1>4. Progress'
  BY DEF Progress, Restart, NewCycle
<1> QED BY <1>3, <1>4 DEF ResourcesInv

LEMMA NextInv == ASSUME ResourcesInv, [Next]_vars PROVE ResourcesInv'
<1>1. CASE Worker
  BY <1>1, ObserveInv, ConsultInv, AloneInv, EndInv, GrantedInv, ScaleInv, ResizeInv,
     NoResizeInv, PersistInv DEF Worker
<1>2. CASE ~Worker
  BY <1>2, WorldInv, RestartInv DEF Next
<1> QED BY <1>1, <1>2

(* The types, and what the cycle knows at each of its steps (Progress), are *)
(* an invariant: readCurrentResources, buildVerticalDecision, actuate and  *)
(* persistStatus, for every amount and every number of edits and failures. *)
THEOREM ResourcesInvariant == Spec => []ResourcesInv
BY InitInv, NextInv, PTL DEF Spec

(* Every variable stays within its type: above all, whatever the server    *)
(* merges and the status reports is a resource list again.                 *)
THEOREM ResourcesTyped == Spec => []ResourcesTypes
<1>1. ResourcesInv => ResourcesTypes
  BY DEF ResourcesInv
<1> QED BY <1>1, ResourcesInvariant, PTL

-----------------------------------------------------------------------------
(* A step of the cycle that disturbs a field is a patch that was made.     *)
LEMMA ResizeDisturbs ==
  ASSUME ResourcesInv, Resize, container' # container
  PROVE  /\ container' = Merged(cyc.wish) /\ cyc.wish \in Answers
         /\ Within(cyc.wish) /\ Acceptable(Merged(cyc.wish))
         /\ conf.enabled /\ Live
<1>1. Outcome = "applied" /\ Patched(cyc.wish)
  BY Zenon DEF Resize
<1>2. cyc.wish \in Answers /\ conf.enabled
  BY DEF ResourcesInv, Progress, Resize
<1> QED BY <1>1, <1>2, OutcomeFacts DEF Patched, Live

(* A field is changed without a slot of the coordinator only if someone    *)
(* else changed it after it was read, or if it is a limit the decision     *)
(* leaves out (hasVerticalMutation).                                       *)
THEOREM ResizesAreCovered == Spec => SlotCoversResize
<1> DEFINE Covered ==
      \A f \in Fields :
        pc = "resize" /\ pc' = "persist" /\ container'[f] # container[f] =>
          \/ cyc.slot
          \/ cyc.current # Nothing /\ cyc.current[f] # container[f]
          \/ f \in Dropped(cyc.wish)
<1>1. ASSUME ResourcesInv, [Next]_vars PROVE [Covered]_vars
  <2> SUFFICES ASSUME NEW f \in Fields, pc = "resize", pc' = "persist",
                      container'[f] # container[f], ~cyc.slot
               PROVE  \/ cyc.current # Nothing /\ cyc.current[f] # container[f]
                      \/ f \in Dropped(cyc.wish)
    OBVIOUS
  <2>1. Resize
    BY <1>1 DEF Next, Worker, vars, Observe, Consult, DecideAlone, NoDecision, Granted,
                Deferred, Scale, NoResize, Persist, SyncDeployment, UserResizes,
                UserScales, ThinkAgain, Restart, deployment
  <2>2. /\ container' = Merged(cyc.wish) /\ cyc.wish \in Answers
        /\ conf.enabled /\ Live
    BY <1>1, <2>1, ResizeDisturbs
  <2>3. f \in Patch(cyc.wish) \cup Dropped(cyc.wish)
    BY <1>1, <2>2, PatchFacts DEF ResourcesInv
  <2>4. ~VerticalMutation /\ cyc.wish # Nothing
    BY <1>1, <2>1 DEF ResourcesInv, Progress, Resize
  <2>5. cyc.current # Nothing /\ \A g \in Patch(cyc.wish) : cyc.wish[g] = cyc.current[g]
    BY <2>2, <2>4 DEF VerticalMutation, Patch
  <2>6. f \in Patch(cyc.wish) => container'[f] = cyc.current[f]
    BY <1>1, <2>2, <2>5, PatchFacts DEF ResourcesInv
  <2> QED BY <2>3, <2>5, <2>6
<1> QED BY <1>1, ResourcesInvariant, PTL DEF Spec, SlotCoversResize

(* After a resize the status is wrong only about limits that the patch     *)
(* took away, or that were not read, or not as the patch found them        *)
(* (persistStatus).                                                        *)
THEOREM StatusIsTruthful == Spec => StatusTruthful
<1> DEFINE Truthful ==
      Stored /\ cyc.result = "applied" =>
        \A f \in Fields :
          status'.resources[f] # cyc.left[f] =>
            /\ f \in Limits
            /\ f \in cyc.shrunk \/ cyc.current = Nothing \/ cyc.current[f] # cyc.found[f]
<1>1. ASSUME ResourcesInv, [Next]_vars PROVE [Truthful]_vars
  <2> SUFFICES ASSUME Stored, cyc.result = "applied", NEW f \in Fields,
                      status'.resources[f] # cyc.left[f]
               PROVE  /\ f \in Limits
                      /\ \/ f \in cyc.shrunk \/ cyc.current = Nothing
                         \/ cyc.current[f] # cyc.found[f]
    OBVIOUS
  <2>1. Persist /\ faults' = faults
    BY <1>1 DEF Stored, Next, Worker, vars, Observe, Consult, DecideAlone, NoDecision,
                Granted, Deferred, Scale, Resize, NoResize, SyncDeployment, UserResizes,
                UserScales, ThinkAgain, Restart, CallFails, ResourcesInv, ResourcesTypes
  <2>2. status'.resources = Reported
    BY <1>1, <2>1 DEF Persist, CallFails, ResourcesInv, ResourcesTypes
  <2>3. Applied
    BY <1>1 DEF ResourcesInv, Progress
  <2>4. CASE f \in Patch(cyc.wish)
    BY <2>2, <2>3, <2>4 DEF Applied, Reported
  <2>5. CASE f \notin Patch(cyc.wish)
    <3>1. f \in Limits
      BY <2>5 DEF Patch, Fields
    <3>2. cyc.current # Nothing => status'.resources[f] = cyc.current[f]
      BY <2>2, <2>5 DEF Reported
    <3>3. f \notin cyc.shrunk => cyc.left[f] = cyc.found[f]
      BY <2>3, <2>5 DEF Applied
    <3> QED BY <3>1, <3>2, <3>3
  <2> QED BY <2>4, <2>5
<1> QED BY <1>1, ResourcesInvariant, PTL DEF Spec, StatusTruthful

(* A change of the count is stamped with LastScaleTime even if the resize  *)
(* after it failed; without a stamp, the oscillation detector has it       *)
(* unless the cycle failed (actuate, persistStatus).                       *)
THEOREM ScalingsAreBooked == Spec => ScalingBooked
<1> DEFINE Booked ==
      Stored /\ cyc.written =>
        \/ status'.stamped
        \/ cyc.validated = cyc.count /\ (cyc.recorded \/ cyc.result = "failed")
<1>1. ASSUME ResourcesInv, [Next]_vars PROVE [Booked]_vars
  <2> SUFFICES ASSUME Stored, cyc.written
               PROVE  \/ status'.stamped
                      \/ /\ cyc.validated = cyc.count
                         /\ cyc.recorded \/ cyc.result = "failed"
    OBVIOUS
  <2>1. Persist /\ faults' = faults
    BY <1>1 DEF Stored, Next, Worker, vars, Observe, Consult, DecideAlone, NoDecision,
                Granted, Deferred, Scale, Resize, NoResize, SyncDeployment, UserResizes,
                UserScales, ThinkAgain, Restart, CallFails, ResourcesInv, ResourcesTypes
  <2>2. status'.stamped = Stamped
    BY <1>1, <2>1 DEF Persist, CallFails, ResourcesInv, ResourcesTypes
  <2>3. /\ ~conf.dryRun /\ cyc.validated \in Counts
        /\ cyc.recorded \/ cyc.result = "failed"
    BY <1>1, <2>1 DEF ResourcesInv, Progress, Persist
  <2>4. cyc.validated # cyc.count => Stamped
    BY <2>3, ResourcesAssumption DEF Stamped
  <2> QED BY <2>2, <2>3, <2>4
<1> QED BY <1>1, ResourcesInvariant, PTL DEF Spec, ScalingBooked

-----------------------------------------------------------------------------
(* The names of ResizeContract mean here what they mean in Resources.      *)
LEMMA ContractNames ==
  /\ Contract!Requests = Requests /\ Contract!Limits = Limits
  /\ \A c : Contract!Acceptable(c) <=> Acceptable(c)
<1>1. Contract!Requests = Requests
  BY FieldsApart DEF Contract!Requests
<1>2. Contract!Limits = Limits
  BY <1>1, FieldsApart DEF Contract!Limits
<1> QED BY <1>1, <1>2 DEF Contract!Acceptable, Acceptable

LEMMA ContractInit == Init => Contract!Init
BY ContractNames, ResourcesAssumption DEF Init, Contract!Init

(* A patch that was made is a resize the contract allows.                  *)
LEMMA ContractResize ==
  ASSUME ResourcesInv, Resize, container' # container
  PROVE  Contract!Next
<1> DEFINE a == cyc.wish
<1>1. /\ container' = Merged(a) /\ a \in Answers /\ Within(a) /\ Acceptable(Merged(a))
      /\ conf.enabled /\ Live /\ ResourcesTypes
  BY ResizeDisturbs DEF ResourcesInv
<1>2. a \in Containers /\ Merged(a) \in Containers
  BY <1>1, PatchFacts
<1>3. Contract!Allowed(a)
  BY <1>1, ContractNames DEF Contract!Allowed, Live, Within
<1>4. \A f \in Requests : container'[f] = a[f]
  BY <1>1, PatchFacts DEF Patch
<1>5. ASSUME NEW f \in Limits
      PROVE  container'[f] \in (IF a[f] # 0 THEN {a[f]} ELSE {0, container[f]})
  <2>1. a[f] # 0 => container'[f] = a[f]
    BY <1>1, PatchFacts DEF Patch
  <2>2. a[f] = 0 => f \in Fields \ Patch(a)
    BY FieldsApart DEF Patch, Fields
  <2>3. a[f] = 0 => container'[f] \in {0, container[f]}
    BY <1>1, <2>2, PatchFacts
  <2> QED BY <2>1, <2>3
<1>6. conf' = conf
  BY DEF Resize
<1>7. Contract!Resize(a)
  BY <1>1, <1>2, <1>3, <1>4, <1>5, <1>6, ContractNames, Zenon DEF Contract!Resize
<1>8. Contract!Acceptable(container')
  BY <1>1, ContractNames
<1> QED BY <1>1, <1>7, <1>8 DEF Contract!Next, Answers

LEMMA ContractStep ==
  ASSUME ResourcesInv, [Next]_vars PROVE [Contract!Next]_(Contract!vars)
<1>1. CASE container' = container
  <2>1. conf' = conf
    BY DEF Next, Worker, vars, Observe, Consult, DecideAlone, NoDecision, Granted,
           Deferred, Scale, Resize, NoResize, Persist, SyncDeployment, UserResizes,
           UserScales, ThinkAgain, Restart
  <2> QED BY <1>1, <2>1 DEF Contract!vars
<1>2. CASE UserResizes
  <2>1. PICK f \in Fields, x \in Amounts : container' = [container EXCEPT ![f] = x]
    BY <1>2 DEF UserResizes
  <2>2. container \in [Fields -> Amounts]
    BY DEF ResourcesInv, ResourcesTypes, Containers
  <2>3. container' \in Containers /\ f \in DOMAIN container
    BY <2>1, <2>2 DEF Containers
  <2>4. container' = [container EXCEPT ![f] = container'[f]]
    BY <2>1, <2>2
  <2>5. conf' = conf /\ Contract!Acceptable(container')
    BY <1>2, ContractNames DEF UserResizes
  <2> QED BY <2>3, <2>4, <2>5 DEF Contract!Next, Contract!UserResizes
<1>3. CASE container' # container /\ ~UserResizes
  <2>1. Resize
    BY <1>3 DEF Next, Worker, vars, Observe, Consult, DecideAlone, NoDecision, Granted,
                Deferred, Scale, NoResize, Persist, SyncDeployment, UserScales,
                ThinkAgain, Restart, deployment
  <2> QED BY <1>3, <2>1, ContractResize
<1> QED BY <1>1, <1>2, <1>3

(* The vertical half implements its contract: the container changes only   *)
(* as a user who enabled vertical scaling may expect, through lost calls,  *)
(* stale copies and edits of others (VerticalActuator.Apply).              *)
THEOREM ContractIsKept == Spec => KeepsContract
BY ContractInit, ContractStep, ResourcesInvariant, PTL DEF Spec, KeepsContract, Contract!Spec
=============================================================================
