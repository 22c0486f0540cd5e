---------------------------- MODULE Convergence ----------------------------
(***************************************************************************)
(* The decision functions, iterated: each step is a cycle whose layers     *)
(* want the same as before and whose Deployment has rolled out the count   *)
(* validated in the cycle before.                                          *)
(***************************************************************************)
EXTENDS Guardrails

CONSTANTS
  WantChoices,     \* what the layers may want
  CeilingChoices,  \* what the budget may pay for
  SpecChoices,     \* the policies
  Counts           \* the replicas to start from

ASSUME ConvergenceAssumption ==
  /\ WantChoices \subseteq [Layers -> Optional(Int)]
  /\ CeilingChoices \subseteq Optional(Int)
  /\ \A s \in SpecChoices : Bounded(s) /\ ValidSpec(s)
  /\ Counts \subseteq Nat

VARIABLES wants, ceiling, flags, spec, current

vars == <<wants, ceiling, flags, spec, current>>

Init ==
  /\ wants \in WantChoices /\ ceiling \in CeilingChoices /\ flags \in Flags
  /\ spec \in SpecChoices /\ current \in Counts

Goal == Resolve(wants, ceiling, spec.min, spec.max, flags)

Next ==
  /\ current' = ValidatedReplicas([target |-> Goal, conf |-> MaxConf],
                                  current, spec)
  /\ UNCHANGED <<wants, ceiling, flags, spec>>

Spec == Init /\ [][Next]_vars

(* A policy that goes on is reconciled again (Converges in                 *)
(* ReconcilerProperties).                                                  *)
FairSpec == Spec /\ WF_vars(Next)

-----------------------------------------------------------------------------
(* The order of the layers, appended as Resolve does it.                   *)
When(b, l) == IF b THEN <<l>> ELSE <<>>

Order(f) ==
  <<"safety", "human">>
    \o When(f.schedule, "schedule") \o When(f.slo, "slo")
    \o When(f.reactive, "reactive") \o <<"llm">>
    \o When(~f.reactive, "reactive") \o When(~f.slo, "slo")
    \o When(~f.schedule, "schedule") \o <<"deterministic">>

First(S) == CHOOSE i \in S : \A j \in S : i <= j

(* Precedence: the ranks pick the first layer of the list that Resolve     *)
(* builds, the ceiling only lowers, and bounds win over the ceiling.       *)
ResolveFollowsOrder ==
  LET list == Order(flags)
      speaking == {i \in DOMAIN list : wants[list[i]] # NoTarget}
      wanted == IF speaking = {} THEN 0 ELSE wants[list[First(speaking)]]
      capped == IF ceiling # NoTarget /\ ceiling < wanted THEN ceiling ELSE wanted
  IN  Goal = CHOOSE n \in spec.min..spec.max :
               \A m \in spec.min..spec.max : Abs(n - capped) <= Abs(m - capped)

(* Cycles approach the goal: the validators never move a workload past it, *)
(* nor away from it, from within the bounds or from without (Validate,     *)
(* ValidateAsymmetric).                                                    *)
NeverPastTheGoal ==
  [][/\ Abs(current' - Goal) <= Abs(current - Goal)
     /\ (current <= Goal <=> current' <= Goal) \/ current' = Goal]_vars

(* And they get there.                                                     *)
ReachesTheGoal == <>[](current = Goal)

Symmetric(s) ==
  \A dp \in {s.up, s.down} : dp.set /\ dp.step = s.step /\ dp.conf = 0

(* Symmetric directions: with the same step in both directions and no      *)
(* confidence demanded, the asymmetric validator is the symmetric one      *)
(* (ValidateAsymmetric, Validate).                                         *)
AsymmetricAgrees ==
  Symmetric(spec) =>
    \A t \in 0 .. spec.max + spec.step + 1 :
      LET dec == [target |-> t, conf |-> 0]
      IN  ValidateAsymmetric(dec, current, spec) = Validate(dec, current, spec)
=============================================================================
