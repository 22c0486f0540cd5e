----------------------------- MODULE MCDecision -----------------------------
(* Small policies, up to three layers that want too little or too much, and  *)
(* workloads that start within the bounds, below and above.                  *)
EXTENDS Convergence

CONSTANT none

Spec1 == [min |-> 2, max |-> 4, step |-> 1, up |-> NoPolicy, down |-> NoPolicy]
Towards(n) == [set |-> TRUE, step |-> n, conf |-> 0]

MCSpecs ==
  {Spec1, [Spec1 EXCEPT !.step = 2],
   [Spec1 EXCEPT !.step = 2, !.up = Towards(2), !.down = Towards(2)],
   [Spec1 EXCEPT !.up = Towards(2), !.down = [Towards(1) EXCEPT !.conf = 5]]}

MCWants == {w \in [Layers -> {NoTarget, 1, 5}] : Cardinality(Present(w)) <= 3}
MCCeilings == {NoTarget, 1, 3}
=============================================================================
