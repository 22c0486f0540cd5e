----------------------------- MODULE Precedence -----------------------------
(***************************************************************************)
(* The precedence hierarchy of internal/decision/precedence.go: each layer *)
(* may want a replica count; the strongest layer that wants one decides,   *)
(* the cost ceiling then caps the result, and the hard bounds come last.   *)
(***************************************************************************)
EXTENDS Integers

CONSTANT NoTarget       \* a layer without an opinion (a nil *int32)

ASSUME NoTargetAssumption == NoTarget \notin Int

Optional(S) == S \cup {NoTarget}

Layers == {"safety", "human", "schedule", "slo", "reactive", "llm",
           "deterministic"}

(* The optional flags of spec.precedence; a nil flag counts as TRUE.       *)
Flags == [schedule : BOOLEAN, slo : BOOLEAN, reactive : BOOLEAN]

DefaultFlags == [schedule |-> TRUE, slo |-> TRUE, reactive |-> TRUE]

(* A fault variant: the flag of the SLO layer is read the wrong way round. *)
RankSLOFlagInverted(layer, flags) ==
  CASE layer = "safety" -> 1
    [] layer = "human" -> 2
    [] layer = "schedule" -> IF flags.schedule THEN 3 ELSE 9
    [] layer = "slo" -> IF flags.slo THEN 8 ELSE 4
    [] layer = "reactive" -> IF flags.reactive THEN 5 ELSE 7
    [] layer = "llm" -> 6
    [] layer = "deterministic" -> 10

(* A fault variant: a decision waiting for a human yields to the rules.    *)
RankHumanLate(layer, flags) ==
  CASE layer = "safety" -> 1
    [] layer = "human" -> 6
    [] layer = "schedule" -> IF flags.schedule THEN 2 ELSE 9
    [] layer = "slo" -> IF flags.slo THEN 3 ELSE 8
    [] layer = "reactive" -> IF flags.reactive THEN 4 ELSE 7
    [] layer = "llm" -> 5
    [] layer = "deterministic" -> 10

(* The position at which Resolve appends a layer.  A layer whose flag is   *)
(* off moves behind the LLM, in reverse order of the flags.                *)
Rank(layer, flags) ==
  CASE layer = "safety" -> 1
    [] layer = "human" -> 2
    [] layer = "schedule" -> IF flags.schedule THEN 3 ELSE 9
    [] layer = "slo" -> IF flags.slo THEN 4 ELSE 8
    [] layer = "reactive" -> IF flags.reactive THEN 5 ELSE 7
    [] layer = "llm" -> 6
    [] layer = "deterministic" -> 10

(* The layers that want something; wants[l] is an integer or NoTarget.     *)
Present(wants) == {l \in Layers : wants[l] # NoTarget}

(* The first non-nil layer in the order of Rank.                           *)
Winner(wants, flags) ==
  CHOOSE l \in Present(wants) :
    \A k \in Present(wants) : Rank(l, flags) <= Rank(k, flags)

(* The target before the ceiling: the Go zero value when nobody speaks.    *)
WinningTarget(wants, flags) ==
  IF Present(wants) = {} THEN 0 ELSE wants[Winner(wants, flags)]

CapAt(target, ceiling) ==
  IF ceiling # NoTarget /\ target > ceiling THEN ceiling ELSE target

(* A fault variant: the ceiling is applied after the hard bounds.          *)
ResolveCapLast(wants, ceiling, lo, hi, flags) ==
  LET t == WinningTarget(wants, flags)
      u == IF t < lo THEN lo ELSE t
      v == IF hi > 0 /\ u > hi THEN hi ELSE u
  IN  CapAt(v, ceiling)

(* PrecedenceResolver.Resolve: the resolved replica count.                 *)
Resolve(wants, ceiling, lo, hi, flags) ==
  LET t == CapAt(WinningTarget(wants, flags), ceiling)
      u == IF t < lo THEN lo ELSE t
  IN  IF hi > 0 /\ u > hi THEN hi ELSE u
=============================================================================
