----------------------------- MODULE Guardrails -----------------------------
(***************************************************************************)
(* The pure decision functions of the operator: the validators, reactive   *)
(* rules, rollback, approval, budget and oscillation checks.  Confidences, *)
(* error rates and costs, floats in the code, are integers here (tenths,   *)
(* per mille and cents); a quotient is compared by cross-multiplying.      *)
(***************************************************************************)
EXTENDS Precedence, Sequences, FiniteSets

CONSTANT MaxInt        \* 2^31 - 1 in the code, smaller in a model

ASSUME MaxIntAssumption == MaxInt \in Nat \ {0}

MaxConf == 10          \* confidence 1.0

(* Two's complement wrap-around of an int32 result.                        *)
Wrap(x) == ((x + MaxInt + 1) % (2 * (MaxInt + 1))) - (MaxInt + 1)

Larger(a, b) == IF a > b THEN a ELSE b

-----------------------------------------------------------------------------
(* The validators.                                                         *)

Clamp(x, lo, hi) == IF x < lo THEN lo ELSE IF x > hi THEN hi ELSE x

(* A fault variant: the last replica of a full step is lost.               *)
LimitStepShort(target, current, step) ==
  IF target - current > step THEN current + step - 1
  ELSE IF target - current < -step THEN current - step + 1 ELSE target

(* A fault variant: every move is a full step.                             *)
LimitStepWhole(target, current, step) ==
  IF target > current THEN current + step
  ELSE IF target < current THEN current - step ELSE target

(* At most step away from current.                                         *)
LimitStep(target, current, step) ==
  IF target - current > step THEN current + step
  ELSE IF target - current < -step THEN current - step ELSE target

(* A fault variant: the step limit is forgotten on the way down.           *)
ValidateUpOnly(dec, current, spec) ==
  Clamp(IF dec.target > current
        THEN LimitStep(dec.target, current, spec.step) ELSE dec.target,
        spec.min, spec.max)

(* A fault variant: the bounds are applied before the step limit.          *)
ValidateBoundsFirst(dec, current, spec) ==
  LimitStep(Clamp(dec.target, spec.min, spec.max), current, spec.step)

(* Validator.Validate: step limit first, then the hard bounds.             *)
Validate(dec, current, spec) ==
  Clamp(LimitStep(dec.target, current, spec.step), spec.min, spec.max)

NoPolicy == [set |-> FALSE, step |-> 0, conf |-> 0]

DirectionPolicy(target, current, spec) ==
  IF target > current THEN spec.up
  ELSE IF target < current THEN spec.down ELSE NoPolicy

(* ValidateAsymmetric: the policy of the direction replaces maxScaleStep.  *)
ValidateAsymmetric(dec, current, spec) ==
  LET dp == DirectionPolicy(dec.target, current, spec)
      limited == IF dp.set /\ dp.step > 0
                 THEN LimitStep(dec.target, current, dp.step) ELSE dec.target
      gated == IF dp.set /\ dp.conf > 0 /\ dec.conf < dp.conf
               THEN current ELSE limited
  IN  Clamp(gated, spec.min, spec.max)

(* The fields of a policy the validators and the budget read.              *)
Bounded(spec) ==
  /\ spec.min \in Nat \ {0} /\ spec.max \in Nat \ {0} /\ spec.step \in Nat \ {0}
  /\ spec.up \in [set : BOOLEAN, step : Nat, conf : 0..MaxConf]
  /\ spec.down \in [set : BOOLEAN, step : Nat, conf : 0..MaxConf]

UsesAsymmetric(spec) == spec.up.set \/ spec.down.set

(* What validateDecision hands to the actuator.                            *)
ValidatedReplicas(dec, current, spec) ==
  IF UsesAsymmetric(spec) THEN ValidateAsymmetric(dec, current, spec)
                          ELSE Validate(dec, current, spec)

(* ValidateSpec, as far as replicas go (it also wants the two providers of *)
(* the LLM to differ).                                                     *)
ValidSpec(spec) == spec.min <= spec.max /\ spec.step <= spec.max

-----------------------------------------------------------------------------
(* Reactive rules and SLOs.                                                *)

(* computeReactiveReplicas, in int32 arithmetic.                           *)
ReactiveReplicas(rule, current) ==
  CASE rule.action = "scale_up" -> Wrap(current + rule.amount)
    [] rule.action = "scale_down" -> Larger(Wrap(current - rule.amount), 1)
    [] rule.action = "set" -> rule.amount
    [] OTHER -> current

SkipLLMForReactiveRules(spec) == spec.prec.set => spec.prec.flags.reactive

FlagsOf(spec) == IF spec.prec.set THEN spec.prec.flags ELSE DefaultFlags

-----------------------------------------------------------------------------
(* Rollback.                                                               *)

ErrorRateIncreased(before, after) == 2 * after > 3 * before /\ after > 10

LatencyIncreased(before, after) == after > 2 * before /\ after > 50

(* CheckForRollback: sloOk says whether the objectives are met.            *)
RollbackRecommended(conditions, before, after, sloBefore, sloAfter) ==
  \/ "sloViolationWithin" \in conditions /\ sloBefore /\ ~sloAfter
  \/ /\ "errorRateIncrease" \in conditions
     /\ ErrorRateIncreased(before.err, after.err)
  \/ /\ "latencyIncrease" \in conditions
     /\ LatencyIncreased(before.lat, after.lat)

(* selectRollbackRecord looks for the newest record that brought the       *)
(* workload to its current count; records are newest first.                *)
RollbackCandidates(records, current) ==
  {i \in 1..Len(records) : /\ records[i].prev # records[i].new
                           /\ ~records[i].dry
                           /\ records[i].new = current}

-----------------------------------------------------------------------------
(* Oscillation.                                                            *)

(* The places of the events in the window.                                 *)
RecentEvents(events, window) == {i \in DOMAIN events : events[i].age < window}

(* The recent events whose direction is not that of the recent event       *)
(* before them.                                                            *)
DirectionChanges(events, recent) ==
  {i \in recent : \E j \in recent : /\ j < i
                                    /\ \A k \in recent : k <= j \/ i <= k
                                    /\ events[i].dir # events[j].dir}

(* IsOscillating                                                           *)
IsOscillating(events, window) ==
  LET recent == RecentEvents(events, window)
  IN  /\ Cardinality(recent) >= 3
      /\ Cardinality(DirectionChanges(events, recent)) >= 2

(* A fault variant: the ring holds one event too many.                     *)
RecordEventOffByOne(events, e, size) ==
  Append(IF Len(events) > size THEN Tail(events) ELSE events, e)

(* Record: a ring of at most size events, oldest first.                    *)
RecordEvent(events, e, size) ==
  Append(IF Len(events) >= size THEN Tail(events) ELSE events, e)

-----------------------------------------------------------------------------
(* Cost.  total is the hourly cost of current replicas, current > 0.       *)

HoursPerMonth == 720

(* BudgetEnforcer.Check under hard enforcement; 0 means no limit.          *)
OverBudget(spec, total, current, proposed) ==
  \/ spec.maxHourly > 0 /\ total * proposed > spec.maxHourly * current
  \/ /\ spec.maxMonthly > 0
     /\ total * proposed * HoursPerMonth > spec.maxMonthly * current

Affordable(limit, total, current) == (limit * current) \div total

(* A fault variant: the monthly limit counts only without an hourly one.   *)
CostCeilingHourlyFirst(spec, total, current) ==
  IF total <= 0 \/ (spec.maxHourly <= 0 /\ spec.maxMonthly <= 0)
  THEN NoTarget
  ELSE Larger(IF spec.maxHourly > 0
              THEN Affordable(spec.maxHourly, total, current)
              ELSE Affordable(spec.maxMonthly, HoursPerMonth * total, current),
              spec.min)

(* computeCostCeiling: how many replicas the tighter budget pays for.      *)
CostCeiling(spec, total, current) ==
  LET hourly == Affordable(spec.maxHourly, total, current)
      monthly == Affordable(spec.maxMonthly, HoursPerMonth * total, current)
      tighter == IF spec.maxMonthly <= 0 THEN hourly
                 ELSE IF spec.maxHourly <= 0 \/ monthly < hourly THEN monthly
                 ELSE hourly
  IN  IF total <= 0 \/ (spec.maxHourly <= 0 /\ spec.maxMonthly <= 0)
      THEN NoTarget
      ELSE Larger(tighter, spec.min)

-----------------------------------------------------------------------------
(* Approval.  delta = total * (target - current) is the cost increase      *)
(* times current, 0 when there is no estimate.                             *)

Abs(x) == IF x < 0 THEN -x ELSE x

(* Manager.NeedsApproval                                                   *)
NeedsApproval(spec, dec, current, delta) ==
  \/ spec.requireApproval
  \/ \E trigger \in spec.approveWhen :
       CASE trigger.type = "ReplicaChangeExceeds" ->
              Abs(dec.target - current) > trigger.threshold
         [] trigger.type = "CostIncreaseExceeds" ->
              delta > trigger.threshold * current
         [] trigger.type = "ConfidenceBelow" -> dec.conf < trigger.threshold
         [] trigger.type = "Always" -> TRUE
         [] OTHER -> FALSE
=============================================================================
