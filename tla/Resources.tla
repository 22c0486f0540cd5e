------------------------------ MODULE Resources ------------------------------
(***************************************************************************)
(* The vertical half of a reconcile cycle, beside the horizontal one: the  *)
(* container's resources are read for the prompt (enrichContext), the      *)
(* LLM's proposal becomes a decision (fetchDecision), a change asks for a  *)
(* scaling slot (checkCoordination), actuate patches first the count and   *)
(* then the resources, and persistStatus reports both.  What decides the   *)
(* count is in Reconciler; here it is any count.                           *)
(***************************************************************************)
EXTENDS Naturals, FiniteSets

CONSTANTS
  Amounts,         \* quantities of CPU and memory; 0 is the zero quantity
  Configs,         \* spec.verticalScaling together with spec.dryRun
  Proposals,       \* the LLM's vertical_changes: a text for each field
  Counts,          \* replica counts
  FirstContainers, \* what a Deployment may look like at first
  MaxEdits,        \* bounds what users do and how often the LLM thinks again
  MaxFaults,       \* bounds failing calls and restarts
  Blank, Garbage,  \* texts that are empty, or not a quantity
  Nothing

Requests == {"cpuRequest", "memoryRequest"}
Limits == {"cpuLimit", "memoryLimit"}
Fields == Requests \cup Limits
LimitOf == [cpuRequest |-> "cpuLimit", memoryRequest |-> "memoryLimit"]
Containers == [Fields -> Amounts]
Modes == {"InPlace", "Recreate", "InPlaceOrRecreate", "RecommendOnly"}
Bounds == [Requests -> Amounts]

(* The API server refuses a request above its limit.                       *)
Acceptable(c) ==
  \A f \in Requests : c[LimitOf[f]] = 0 \/ c[f] <= c[LimitOf[f]]

ASSUME ResourcesAssumption ==
  /\ Amounts \subseteq Nat /\ 0 \in Amounts
  /\ Configs \subseteq [enabled : BOOLEAN, dryRun : BOOLEAN, mode : Modes,
                        min : Bounds, max : Bounds]
  /\ Proposals \subseteq [Fields -> Amounts \cup {Blank, Garbage}]
  /\ Counts \subseteq Nat
  /\ FirstContainers \subseteq Containers
  /\ \A c \in FirstContainers : Acceptable(c)
  /\ MaxEdits \in Nat /\ MaxFaults \in Nat
  /\ Blank \notin Amounts /\ Garbage \notin Amounts
  /\ Nothing \notin Containers /\ Nothing \notin Counts

VARIABLES
  conf,          \* the policy
  container,     \* the first container of the Deployment's template
  ours, theirs,  \* fields with the owner "aiscaler-vertical", with another one
  replicas,      \* the Deployment's spec.replicas
  seen,          \* the informer's copy of container and replicas
  advice,        \* what the LLM would propose now
  pc,            \* the step of Reconcile that is next
  cyc,           \* reconcileState; found, left, shrunk, written are history
  status,        \* status.currentResources, and whether LastScaleTime was set
  edits, faults

vars == <<conf, container, ours, theirs, replicas, seen, advice, pc, cyc, status,
          edits, faults>>
deployment == <<container, ours, theirs, replicas>>
bounds == <<edits, faults>>

(* The part of reconcileState that matters here.  Nothing is a nil.        *)
NewCycle ==
  [current   |-> Nothing,  \* currentResources
   wish      |-> Nothing,  \* verticalDecision
   count     |-> Nothing,  \* bundle.CurrentReplicas
   validated |-> Nothing,  \* validation.ValidatedReplicas
   slot      |-> FALSE,    \* coordinationSlotHeld
   result    |-> "none",   \* verticalApplyResult, or failed
   found     |-> Nothing,  \* the container as the vertical patch found it,
   left      |-> Nothing,  \* and as it left it
   shrunk    |-> {},       \* the limits it took away
   scales    |-> FALSE,    \* applyResult: the previous count is not the applied one
   written   |-> FALSE,    \* the horizontal patch changed spec.replicas
   recorded  |-> FALSE]    \* a scaling event went to the oscillation detector

Init ==
  /\ conf \in Configs
  /\ container \in FirstContainers
  /\ ours = {} /\ theirs = {f \in Fields : container[f] # 0}
  /\ replicas \in Counts
  /\ seen = [container |-> container, replicas |-> replicas]
  /\ advice \in Proposals
  /\ pc = "observe" /\ cyc = NewCycle
  /\ status = [resources |-> Nothing, stamped |-> FALSE]
  /\ edits = 0 /\ faults = 0

CallFails == faults < MaxFaults /\ faults' = faults + 1

-----------------------------------------------------------------------------
(* readCurrentResources reads through the informer; when it fails the      *)
(* cycle goes on without.  The reported count may be any: it lags behind   *)
(* spec.replicas.                                                          *)
Observe ==
  /\ pc = "observe"
  /\ pc' = "decide"
  /\ \E n \in Counts, c \in {seen.container, Nothing} :
       /\ cyc' = [cyc EXCEPT !.count = n, !.current = c]
       /\ IF c = Nothing /\ conf.enabled THEN CallFails ELSE UNCHANGED faults
       /\ c # Nothing => conf.enabled
  /\ UNCHANGED <<conf, deployment, seen, advice, status, edits>>

(* A fault variant: the texts of the limits are not checked.               *)
VerticalDecisionTrusting(p) ==
  IF /\ conf.enabled
     /\ \A f \in Requests : p[f] \in Amounts
  THEN [f \in Fields |-> IF p[f] = Blank THEN 0 ELSE p[f]]
  ELSE Nothing

(* buildVerticalDecision: both requests are needed, and no text may be     *)
(* anything but a quantity.  An invalid proposal is ignored.               *)
VerticalDecision(p) ==
  IF /\ conf.enabled
     /\ \A f \in Requests : p[f] \in Amounts
     /\ \A f \in Limits : p[f] \in Amounts \cup {Blank}
  THEN [f \in Fields |-> IF p[f] = Blank THEN 0 ELSE p[f]]
  ELSE Nothing

(* fetchDecision up to validateDecision.  The LLM is not asked, not heard  *)
(* or not confident enough, or its proposal counts; and when nobody has an *)
(* opinion the cycle fails.                                                *)
Consult ==
  /\ pc = "decide"
  /\ pc' = "coordinate"
  /\ \E v \in Counts :
       cyc' = [cyc EXCEPT !.validated = v, !.wish = VerticalDecision(advice)]
  /\ UNCHANGED <<conf, deployment, seen, advice, status, bounds>>

DecideAlone ==
  /\ pc = "decide"
  /\ pc' = "coordinate"
  /\ \E v \in Counts : cyc' = [cyc EXCEPT !.validated = v]
  /\ UNCHANGED <<conf, deployment, seen, advice, status, bounds>>

NoDecision ==
  /\ pc = "decide"
  /\ pc' = "persist"
  /\ UNCHANGED <<conf, deployment, seen, advice, cyc, status, bounds>>

-----------------------------------------------------------------------------
(* The slot of the cluster coordinator.                                    *)

Live == ~conf.dryRun /\ conf.mode # "RecommendOnly"

(* A fault variant: resources that could not be read are taken for equal.  *)
VerticalMutationIfRead ==
  /\ cyc.wish # Nothing /\ conf.enabled /\ Live
  /\ cyc.current # Nothing
  /\ \/ \E f \in Requests : cyc.wish[f] # cyc.current[f]
     \/ \E f \in Limits : cyc.wish[f] # 0 /\ cyc.wish[f] # cyc.current[f]

(* hasVerticalMutation: compares with the resources read at the start of   *)
(* the cycle; a limit that is left out is not compared.                    *)
VerticalMutation ==
  /\ cyc.wish # Nothing /\ conf.enabled /\ Live
  /\ cyc.current # Nothing =>
       \/ \E f \in Requests : cyc.wish[f] # cyc.current[f]
       \/ \E f \in Limits : cyc.wish[f] # 0 /\ cyc.wish[f] # cyc.current[f]

NeedsSlot ==
  ~conf.dryRun /\ (cyc.validated # cyc.count \/ VerticalMutation)

(* checkCoordination: goes on with a slot, without one where none is       *)
(* needed, or ends the cycle (what defers is in Reconciler).               *)
Granted ==
  /\ pc = "coordinate"
  /\ pc' = "scale"
  /\ cyc' = [cyc EXCEPT !.slot = NeedsSlot]
  /\ UNCHANGED <<conf, deployment, seen, advice, status, bounds>>

Deferred ==
  /\ pc = "coordinate" /\ NeedsSlot
  /\ pc' = "persist"
  /\ UNCHANGED <<conf, deployment, seen, advice, cyc, status, bounds>>

-----------------------------------------------------------------------------
(* actuate.                                                                *)

Scales == seen.replicas # cyc.validated
Written == IF Scales /\ ~conf.dryRun THEN cyc.validated ELSE replicas

(* Actuator.Apply: patches unless the informer's copy has the count.  Its  *)
(* field owner is another one, so it leaves resources alone.  If the       *)
(* answer is lost, the count may have changed all the same.                *)
Scale ==
  /\ pc = "scale"
  /\ \/ /\ pc' = "resize"
        /\ replicas' = Written
        /\ UNCHANGED faults
     \/ /\ CallFails
        /\ pc' = "persist"
        /\ replicas' \in {replicas, Written}
  /\ cyc' = [cyc EXCEPT !.scales = Scales, !.written = replicas' # replicas,
                        !.result = IF pc' = "persist" THEN "failed" ELSE @]
  /\ UNCHANGED <<conf, container, ours, theirs, seen, advice, status, edits>>

(* A fault variant: an upper bound must not be reached.                    *)
WithinStrictly(w) ==
  \A f \in Requests :
    /\ conf.min[f] # 0 => w[f] >= conf.min[f]
    /\ conf.max[f] # 0 => w[f] < conf.max[f]

(* A fault variant: an amount of memory is held against the bounds of CPU. *)
WithinCPU(w) ==
  \A f \in Requests :
    /\ conf.min["cpuRequest"] # 0 => w[f] >= conf.min["cpuRequest"]
    /\ conf.max["cpuRequest"] # 0 => w[f] <= conf.max["cpuRequest"]

(* ValidateVerticalChange: a zero bound is no bound.  The percentages of a *)
(* step are not looked at.                                                 *)
Within(w) ==
  \A f \in Requests :
    /\ conf.min[f] # 0 => w[f] >= conf.min[f]
    /\ conf.max[f] # 0 => w[f] <= conf.max[f]

(* The fields the patch contains, and the server-side apply of it: they    *)
(* are set and taken over from others who had other values; a field that   *)
(* only we owned and that is left out now is removed.                      *)
Patch(w) == Requests \cup {f \in Limits : w[f] # 0}
Dropped(w) == {f \in (ours \ theirs) \ Patch(w) : container[f] # 0}
Merged(w) ==
  [f \in Fields |-> CASE f \in Patch(w)           -> w[f]
                      [] f \in ours \ (theirs \cup Patch(w)) -> 0
                      [] OTHER                    -> container[f]]

(* The Patch call: refused, only validated (DryRunAll), or made.           *)
Patched(w) ==
  IF conf.dryRun
  THEN UNCHANGED <<container, ours, theirs>>
  ELSE /\ container' = Merged(w)
       /\ ours' = Patch(w)
       /\ theirs' = {f \in theirs : f \in Patch(w) => container[f] = w[f]}

Outcome ==
  CASE ~Within(cyc.wish)             -> "failed"
    [] conf.mode = "RecommendOnly"   -> "recommended"
    [] ~Acceptable(Merged(cyc.wish)) -> "failed"
    [] conf.dryRun                   -> "dry"
    [] OTHER                         -> "applied"

(* VerticalActuator.Apply, and after it the rest of actuate: a failure     *)
(* ends the cycle before the scaling event is recorded.                    *)
Resize ==
  /\ pc = "resize" /\ cyc.wish # Nothing
  /\ pc' = "persist"
  /\ \/ /\ IF Outcome = "applied" THEN Patched(cyc.wish)
                                  ELSE UNCHANGED <<container, ours, theirs>>
        /\ cyc' = [cyc EXCEPT !.result = Outcome,
                              !.found = container, !.left = container',
                              !.shrunk = IF Outcome = "applied"
                                         THEN Dropped(cyc.wish) ELSE {},
                              !.recorded = cyc.scales /\ Outcome # "failed"]
        /\ UNCHANGED faults
     \/ /\ CallFails
        /\ \/ Outcome = "applied" /\ Patched(cyc.wish)
           \/ UNCHANGED <<container, ours, theirs>>
        /\ cyc' = [cyc EXCEPT !.result = "failed"]
  /\ UNCHANGED <<conf, replicas, seen, advice, status, edits>>

NoResize ==
  /\ pc = "resize" /\ cyc.wish = Nothing
  /\ pc' = "persist"
  /\ cyc' = [cyc EXCEPT !.recorded = cyc.scales]
  /\ UNCHANGED <<conf, deployment, seen, advice, status, bounds>>

-----------------------------------------------------------------------------
(* persistStatus, at the end of every cycle and of a failed one.           *)

(* A fault variant: a limit that the decision leaves out is reported as    *)
(* gone.                                                                   *)
ReportedWhole ==
  LET read == IF cyc.current # Nothing THEN cyc.current ELSE status.resources
  IN  CASE cyc.result = "applied" -> cyc.wish
        [] cyc.result \in {"dry", "recommended"} /\ read = Nothing
                                  -> [f \in Fields |-> 0]
        [] OTHER                  -> read

(* status.currentResources: what was read, and over it what was applied.   *)
(* A limit that is left out keeps what was read, even if it is gone now.   *)
Reported ==
  LET read == IF cyc.current # Nothing THEN cyc.current ELSE status.resources
      base == IF read # Nothing THEN read ELSE [f \in Fields |-> 0]
  IN  CASE cyc.result = "applied" ->
             [f \in Fields |-> IF f \in Patch(cyc.wish) THEN cyc.wish[f] ELSE base[f]]
        [] cyc.result \in {"dry", "recommended"} -> base
        [] OTHER -> read

(* A fault variant: a failed cycle does not set LastScaleTime.             *)
StampedIfDone ==
  /\ cyc.validated # Nothing /\ cyc.validated # cyc.count
  /\ ~conf.dryRun /\ cyc.result # "failed"

(* LastScaleTime is set when the validated count is not the reported one,  *)
(* whatever became of the patches; a resize alone sets none.               *)
Stamped ==
  cyc.validated # Nothing /\ cyc.validated # cyc.count /\ ~conf.dryRun

(* The status update may be refused or fail; the slot is released anyway.  *)
(* The next cycle starts from an empty reconcileState.                     *)
Persist ==
  /\ pc = "persist"
  /\ pc' = "observe"
  /\ \/ /\ status' = [resources |-> Reported, stamped |-> Stamped]
        /\ UNCHANGED faults
     \/ CallFails /\ UNCHANGED status
  /\ cyc' = NewCycle
  /\ UNCHANGED <<conf, deployment, seen, advice, edits>>

-----------------------------------------------------------------------------
(* The world around it.                                                    *)

SyncDeployment ==
  /\ seen' = [container |-> container, replicas |-> replicas]
  /\ UNCHANGED <<conf, deployment, advice, pc, cyc, status, bounds>>

UserWrites == edits < MaxEdits /\ edits' = edits + 1

(* kubectl edit: the field belongs to the user from then on.               *)
UserResizes ==
  /\ UserWrites
  /\ \E f \in Fields : \E a \in Amounts \ {container[f]} :
       /\ container' = [container EXCEPT ![f] = a]
       /\ ours' = ours \ {f}
       /\ theirs' = IF a = 0 THEN theirs \ {f} ELSE theirs \cup {f}
  /\ Acceptable(container')
  /\ UNCHANGED <<conf, replicas, seen, advice, pc, cyc, status, faults>>

UserScales ==
  /\ UserWrites
  /\ replicas' \in Counts \ {replicas}
  /\ UNCHANGED <<conf, container, ours, theirs, seen, advice, pc, cyc, status, faults>>

ThinkAgain ==
  /\ UserWrites
  /\ advice' \in Proposals \ {advice}
  /\ UNCHANGED <<conf, deployment, seen, pc, cyc, status, faults>>

(* The process ends between two steps: the cycle and what it knew is gone, *)
(* and the informer starts from the present state.                         *)
Restart ==
  /\ CallFails
  /\ pc' = "observe" /\ cyc' = NewCycle
  /\ seen' = [container |-> container, replicas |-> replicas]
  /\ UNCHANGED <<conf, deployment, advice, status, edits>>

Worker ==
  \/ Observe \/ Consult \/ DecideAlone \/ NoDecision \/ Granted \/ Deferred
  \/ Scale \/ Resize \/ NoResize \/ Persist

Next ==
  Worker \/ Restart \/ SyncDeployment \/ UserResizes \/ UserScales \/ ThinkAgain

Spec == Init /\ [][Next]_vars

(* The worker and the informer run; the LLM is heard again and again, and  *)
(* the coordinator does not defer for ever.                                *)
GrantedResize == cyc.wish # Nothing /\ Granted

FairSpec ==
  Spec /\ WF_vars(Worker) /\ WF_vars(SyncDeployment)
       /\ SF_vars(Consult) /\ SF_vars(GrantedResize)
=============================================================================
