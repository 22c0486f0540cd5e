--------------------------- MODULE ResizeContract ---------------------------
(***************************************************************************)
(* What a user who enables vertical scaling may rely on: apart from the    *)
(* user's own edits the container changes only in the live mode, only to a *)
(* complete answer of the LLM, whose requests lie within the constraints,  *)
(* and a limit that the answer leaves out is kept or taken away.           *)
(***************************************************************************)
EXTENDS Naturals

CONSTANTS
  Containers,    \* resources of a container: an amount for each field
  LimitOf,       \* the field with the limit of a request
  Answers        \* what the LLM may ask for; 0 stands for a field left out

VARIABLES conf, container

vars == <<conf, container>>

Requests == DOMAIN LimitOf
Limits == {LimitOf[f] : f \in Requests}

(* No limit, or one that leaves room for the request.                      *)
Acceptable(c) == \A f \in Requests : c[LimitOf[f]] = 0 \/ c[f] <= c[LimitOf[f]]

Allowed(a) ==
  /\ conf.enabled /\ ~conf.dryRun /\ conf.mode # "RecommendOnly"
  /\ \A f \in Requests :
       /\ conf.min[f] # 0 => a[f] >= conf.min[f]
       /\ conf.max[f] # 0 => a[f] <= conf.max[f]

Resize(a) ==
  /\ Allowed(a)
  /\ container' \in Containers
  /\ \A f \in Requests : container'[f] = a[f]
  /\ \A f \in Limits :
       container'[f] \in (IF a[f] # 0 THEN {a[f]} ELSE {0, container[f]})
  /\ UNCHANGED conf

UserResizes ==
  /\ container' \in Containers
  /\ \E f \in DOMAIN container : container' = [container EXCEPT ![f] = container'[f]]
  /\ UNCHANGED conf

Init == container \in Containers /\ Acceptable(container)

Next ==
  /\ Acceptable(container')
  /\ UserResizes \/ \E a \in Answers : Resize(a)

Spec == Init /\ [][Next]_vars
=============================================================================
