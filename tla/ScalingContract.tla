--------------------------- MODULE ScalingContract ---------------------------
(***************************************************************************)
(* What users may rely on who write a policy and look at nothing but the   *)
(* stored policies and the counts of Deployments.  The operator reads      *)
(* copies, so a policy is a stored version and a set of versions that the  *)
(* operator may still act on: one that was stored enters the set, none     *)
(* comes back to it, and until it has left the operator may scale by it.   *)
(***************************************************************************)
EXTENDS Integers

CONSTANTS Policies, MaxAge

VARIABLES
  policy,    \* policy[p]: spec, life, finalizer and age of the LastScaleTime
  readable,  \* readable[p]: the versions of p the operator may still act on
  count,     \* count[d]: the replicas the Deployment should have
  edits      \* how often users have written something

vars == <<policy, readable, count, edits>>

Init ==
  /\ \A p \in Policies : policy[p].life = "live" /\ ~policy[p].fin
  /\ readable = [p \in Policies |-> {policy[p]}]
  /\ edits = 0

(* Informers and reconciles move on to newer versions, each in its time.   *)
Reads ==
  /\ DOMAIN readable' = Policies
  /\ \A p \in Policies :
       /\ policy'[p] \in readable'[p]
       /\ readable'[p] \subseteq readable[p] \cup {policy'[p]}

-----------------------------------------------------------------------------
(* Users.                                                                  *)

Edit(p) ==
  /\ policy[p].life = "live"
  /\ policy' = [policy EXCEPT ![p].spec = policy'[p].spec]
  /\ UNCHANGED count

Delete(p) ==
  /\ policy[p].life = "live"
  /\ policy' = [policy EXCEPT ![p].life = IF policy[p].fin THEN "deleting" ELSE "gone"]
  /\ UNCHANGED count

SetCount(d) ==
  /\ count' = [count EXCEPT ![d] = count'[d]]
  /\ UNCHANGED policy

User ==
  /\ edits' = edits + 1
  /\ (\E p \in Policies : Edit(p) \/ Delete(p)) \/ \E d \in DOMAIN count : SetCount(d)
  /\ Reads

-----------------------------------------------------------------------------
(* The operator.                                                           *)

Adopt(p) ==
  /\ policy[p].life = "live" /\ ~policy[p].fin
  /\ policy' = [policy EXCEPT ![p].fin = TRUE]
  /\ UNCHANGED count

Release(p) ==
  /\ policy[p].life = "deleting"
  /\ policy' = [policy EXCEPT ![p].life = "gone", ![p].fin = FALSE]
  /\ UNCHANGED count

Stamp(p) ==
  /\ policy[p].life # "gone"
  /\ policy' = [policy EXCEPT ![p].last = 0]
  /\ UNCHANGED count

(* One Deployment, by a version that asks for it and has cooled down, for  *)
(* a policy that still exists.                                             *)
Scale(p, v) ==
  /\ policy[p].life # "gone"
  /\ v.life = "live" /\ v.fin /\ ~v.spec.dryRun /\ v.last >= v.spec.cooldown
  /\ count' = [count EXCEPT ![v.spec.target] = count'[v.spec.target]]
  /\ v.spec.min <= count'[v.spec.target] /\ count'[v.spec.target] <= v.spec.max
  /\ UNCHANGED policy

Operator ==
  /\ UNCHANGED edits
  /\ \/ UNCHANGED <<policy, count>>
     \/ \E p \in Policies : Adopt(p) \/ Release(p) \/ Stamp(p)
     \/ \E p \in Policies : \E v \in readable[p] : Scale(p, v)
  /\ Reads

(* Time passes, for what is stored and for the copies alike.               *)
Aged(v) == [v EXCEPT !.last = IF @ < MaxAge THEN @ + 1 ELSE MaxAge]

Passes ==
  /\ policy' = [p \in Policies |-> Aged(policy[p])]
  /\ readable' = [p \in Policies |-> {Aged(v) : v \in readable[p]}]
  /\ UNCHANGED <<count, edits>>

Next == Operator \/ User \/ Passes

Spec == Init /\ [][Next]_vars
=============================================================================
