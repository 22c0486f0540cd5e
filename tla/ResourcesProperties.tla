------------------------ MODULE ResourcesProperties ------------------------
(***************************************************************************)
(* What the vertical half of a cycle must get right, whatever happens to   *)
(* the Deployment between its steps.                                       *)
(***************************************************************************)
EXTENDS Resources

Cycles ==
  [current   : Containers \cup {Nothing},
   wish      : Containers \cup {Nothing},
   count     : Counts \cup {Nothing},
   validated : Counts \cup {Nothing},
   slot      : BOOLEAN,
   result    : {"none", "failed", "recommended", "dry", "applied"},
   found     : Containers \cup {Nothing},
   left      : Containers \cup {Nothing},
   shrunk    : SUBSET Limits,
   scales    : BOOLEAN,
   written   : BOOLEAN,
   recorded  : BOOLEAN]

(* Every variable stays within its type (AIScalerSpec.VerticalScaling,     *)
(* reconcileState and the Deployment's resources).                         *)
ResourcesTypes ==
  /\ conf \in Configs
  /\ container \in Containers
  /\ ours \subseteq Fields /\ theirs \subseteq Fields
  /\ replicas \in Counts
  /\ seen \in [container : Containers, replicas : Counts]
  /\ advice \in Proposals
  /\ pc \in {"observe", "decide", "coordinate", "scale", "resize", "persist"}
  /\ cyc \in Cycles
  /\ status \in [resources : Containers \cup {Nothing}, stamped : BOOLEAN]
  /\ edits \in 0 .. MaxEdits /\ faults \in 0 .. MaxFaults

-----------------------------------------------------------------------------
(* A proposal is complete if both requests are quantities and no limit is  *)
(* anything else; a blank limit is left out.                               *)
Complete(p) ==
  /\ \A f \in Requests : p[f] \in Amounts
  /\ \A f \in Limits : p[f] \in Amounts \cup {Blank}

AnswerTo(p) == [f \in Fields |-> IF p[f] = Blank THEN 0 ELSE p[f]]

Contract ==
  INSTANCE ResizeContract
  WITH Answers <- {AnswerTo(p) : p \in {q \in Proposals : Complete(q)}}

(* Through lost calls, stale copies, edits of others and changes of mind,  *)
(* the container changes only as the contract says: live mode, complete    *)
(* answer, requests within the constraints, other fields kept or a limit   *)
(* of its own removed (VerticalActuator.Apply, buildVerticalDecision).     *)
KeepsContract == Contract!Spec

(* A field is changed without a slot of the coordinator only if someone    *)
(* else changed it after the cycle had read it, or if it is a limit that   *)
(* the decision leaves out: hasVerticalMutation compares with neither.     *)
SlotCoversResize ==
  [][\A f \in Fields :
       pc = "resize" /\ pc' = "persist" /\ container'[f] # container[f] =>
         \/ cyc.slot
         \/ cyc.current # Nothing /\ cyc.current[f] # container[f]
         \/ f \in Dropped(cyc.wish)]_vars

Stored == pc = "persist" /\ pc' = "observe" /\ faults' = faults

(* After a resize the status is wrong only about limits: one that the      *)
(* patch took away, or that was not read, or not as the patch found it     *)
(* (persistStatus writes the decision over what the cycle had read).       *)
StatusTruthful ==
  [][Stored /\ cyc.result = "applied" =>
       \A f \in Fields :
         status'.resources[f] # cyc.left[f] =>
           /\ f \in Limits
           /\ f \in cyc.shrunk \/ cyc.current = Nothing \/ cyc.current[f] # cyc.found[f]]_vars

(* A change of the count is stamped with LastScaleTime, so that the        *)
(* cooldown sees it, even if the resize after it failed; it goes without   *)
(* only if the reported count had the target already, and then the         *)
(* oscillation detector has it unless the cycle failed.                    *)
ScalingBooked ==
  [][Stored /\ cyc.written =>
       \/ status'.stamped
       \/ cyc.validated = cyc.count /\ (cyc.recorded \/ cyc.result = "failed")]_vars

(* The answer can be carried out whatever the container looks like: it     *)
(* brings limits of its own.                                               *)
Roomy(p) ==
  \A f \in Requests : /\ p[LimitOf[f]] \in Amounts \ {0}
                      /\ p[f] <= p[LimitOf[f]]

(* Once nobody interferes any more, a container whose answer is complete,  *)
(* allowed and roomy gets what the answer says, whatever was lost or edited*)
(* before: the loop corrects itself, it keeps no memory of what it applied.*)
Settles ==
  <>[](/\ Complete(advice)
       /\ Contract!Allowed(AnswerTo(advice))
       /\ Roomy(advice)
       => container = AnswerTo(advice))
=============================================================================
