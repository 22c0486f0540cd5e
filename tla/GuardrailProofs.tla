--------------------------- MODULE GuardrailProofs ---------------------------
(***************************************************************************)
(* What the decision functions return, for every input.                    *)
(***************************************************************************)
EXTENDS Guardrails, TLAPS, WellFoundedInduction, FiniteSetTheorems,
        SequenceTheorems

Below == {r \in Nat \X Nat : r[1] < r[2]}

(* A set of natural numbers that is not empty has a smallest element.      *)
LEMMA NatMinimum ==
  ASSUME NEW S \in SUBSET Nat, S # {}
  PROVE  \E i \in S : \A j \in S : i <= j
<1>0. IsWellFoundedOn(Below, Nat)
  BY NatLessThanWellFounded DEF OpToRel, Below
<1>1. PICK i \in S : \A j \in S : ~(<<j, i>> \in Below)
  BY <1>0, WFMin
<1>2. \A j \in S : ~(j < i)
  BY <1>1 DEF Below
<1> QED BY <1>2

LEMMA RankIsNat ==
  \A l \in Layers, flags \in Flags : Rank(l, flags) \in Nat
BY DEF Layers, Flags, Rank

(* Precedence: when somebody wants something the resolver finds a winner,  *)
(* who wants something and whom nobody that wants something outranks.      *)
THEOREM WinnerSpeaks ==
  ASSUME NEW wants, NEW flags \in Flags, Present(wants) # {}
  PROVE  /\ Winner(wants, flags) \in Present(wants)
         /\ \A k \in Present(wants) :
              Rank(Winner(wants, flags), flags) <= Rank(k, flags)
<1> DEFINE ranks == {Rank(l, flags) : l \in Present(wants)}
<1>1. Present(wants) \subseteq Layers
  BY DEF Present
<1>2. ranks \in SUBSET Nat /\ ranks # {}
  BY <1>1, RankIsNat
<1>3. PICK r \in ranks : \A s \in ranks : r <= s
  BY <1>2, NatMinimum
<1>4. \E l \in Present(wants) :
        \A k \in Present(wants) : Rank(l, flags) <= Rank(k, flags)
  BY <1>3
<1> QED BY <1>4 DEF Winner

(* Safety decides whenever it speaks, a human unless safety does, and the  *)
(* objectives, in their default place, unless one of those or a schedule   *)
(* does.                                                                   *)
THEOREM StrongestDecides ==
  ASSUME NEW wants, NEW flags \in Flags
  PROVE  /\ wants["safety"] # NoTarget
              => WinningTarget(wants, flags) = wants["safety"]
         /\ wants["safety"] = NoTarget /\ wants["human"] # NoTarget
              => WinningTarget(wants, flags) = wants["human"]
         /\ (/\ wants["safety"] = NoTarget /\ wants["human"] = NoTarget
             /\ wants["schedule"] = NoTarget /\ wants["slo"] # NoTarget
             /\ flags.slo)
              => WinningTarget(wants, flags) = wants["slo"]
<1> DEFINE w == Winner(wants, flags)
<1>1. ASSUME NEW l \in Layers, wants[l] # NoTarget
      PROVE  /\ w \in Layers /\ wants[w] # NoTarget
             /\ Rank(w, flags) <= Rank(l, flags)
             /\ WinningTarget(wants, flags) = wants[w]
  <2>1. l \in Present(wants)
    BY <1>1 DEF Present
  <2> QED BY <2>1, WinnerSpeaks DEF Present, WinningTarget
<1>2. \A k \in Layers \ {"safety"} : ~(Rank(k, flags) <= 1)
  BY DEF Layers, Rank, Flags
<1>3. \A k \in Layers \ {"safety", "human"} : ~(Rank(k, flags) <= 2)
  BY DEF Layers, Rank, Flags
<1>4. flags.slo => \A k \in Layers \ {"safety", "human", "schedule", "slo"} :
                     ~(Rank(k, flags) <= 4)
  BY DEF Layers, Rank, Flags
<1>5. /\ {"safety", "human", "schedule", "slo"} \subseteq Layers
      /\ Rank("safety", flags) = 1 /\ Rank("human", flags) = 2
      /\ flags.slo => Rank("slo", flags) = 4
  BY DEF Layers, Rank
<1> HIDE DEF w
<1>6. wants["safety"] # NoTarget => WinningTarget(wants, flags) = wants["safety"]
  BY <1>1, <1>2, <1>5
<1>7. wants["safety"] = NoTarget /\ wants["human"] # NoTarget
        => WinningTarget(wants, flags) = wants["human"]
  BY <1>1, <1>3, <1>5
<1>8. ASSUME wants["safety"] = NoTarget, wants["human"] = NoTarget,
             wants["schedule"] = NoTarget, wants["slo"] # NoTarget, flags.slo
      PROVE  WinningTarget(wants, flags) = wants["slo"]
  <2>1. /\ w \in Layers /\ wants[w] # NoTarget
        /\ Rank(w, flags) <= Rank("slo", flags) /\ Rank("slo", flags) = 4
        /\ WinningTarget(wants, flags) = wants[w]
    BY <1>1, <1>5, <1>8
  <2>2. \A k \in Layers \ {"safety", "human", "schedule", "slo"} :
          ~(Rank(k, flags) <= 4)
    BY <1>4, <1>8
  <2> QED BY <1>8, <2>1, <2>2
<1> QED BY <1>6, <1>7, <1>8, Zenon

LEMMA WinningTargetIsInt ==
  ASSUME NEW wants \in [Layers -> Optional(Int)], NEW flags \in Flags
  PROVE  WinningTarget(wants, flags) \in Int
<1>1. CASE Present(wants) = {}
  BY <1>1 DEF WinningTarget
<1>2. CASE Present(wants) # {}
  <2>1. Winner(wants, flags) \in Layers /\ wants[Winner(wants, flags)] # NoTarget
    BY <1>2, WinnerSpeaks DEF Present
  <2> QED BY <1>2, <2>1 DEF WinningTarget, Optional
<1> QED BY <1>1, <1>2

LEMMA ResolveIsInt ==
  ASSUME NEW wants \in [Layers -> Optional(Int)], NEW flags \in Flags,
         NEW ceiling \in Optional(Int), NEW lo \in Int, NEW hi \in Int
  PROVE  Resolve(wants, ceiling, lo, hi, flags) \in Int
<1>1. WinningTarget(wants, flags) \in Int
  BY WinningTargetIsInt
<1> QED BY <1>1 DEF Resolve, CapAt, Optional

(* Hard bounds: no layer and no ceiling gets past minReplicas and          *)
(* maxReplicas (Resolve applies them last).                                *)
THEOREM ResolveWithinBounds ==
  ASSUME NEW wants \in [Layers -> Optional(Int)], NEW flags \in Flags,
         NEW ceiling \in Optional(Int), NEW lo \in Nat, NEW hi \in Nat \ {0},
         lo <= hi
  PROVE  Resolve(wants, ceiling, lo, hi, flags) \in lo..hi
<1>1. WinningTarget(wants, flags) \in Int
  BY WinningTargetIsInt
<1> QED BY <1>1 DEF Resolve, CapAt, Optional

LEMMA LimitStepIsInt ==
  ASSUME NEW target \in Int, NEW current \in Int, NEW step \in Nat
  PROVE  /\ LimitStep(target, current, step) \in Int
         /\ LimitStep(target, current, step) - current <= step
         /\ current - LimitStep(target, current, step) <= step
BY DEF LimitStep

(* Validation: what reaches the actuator lies within the policy's bounds,  *)
(* whichever validator ran and however absurd the decision.                *)
THEOREM ValidatedWithinBounds ==
  ASSUME NEW dec, dec.target \in Int, NEW current \in Int, NEW spec,
         Bounded(spec)
  PROVE  /\ ValidatedReplicas(dec, current, spec) \in Nat
         /\ spec.min <= spec.max
              => /\ spec.min <= ValidatedReplicas(dec, current, spec)
                 /\ ValidatedReplicas(dec, current, spec) <= spec.max
<1> DEFINE dp == DirectionPolicy(dec.target, current, spec)
           limited == IF dp.set /\ dp.step > 0
                      THEN LimitStep(dec.target, current, dp.step)
                      ELSE dec.target
           gated == IF dp.set /\ dp.conf > 0 /\ dec.conf < dp.conf
                    THEN current ELSE limited
<1>1. /\ spec.min \in Nat \ {0} /\ spec.max \in Nat \ {0}
      /\ spec.step \in Nat \ {0}
  BY DEF Bounded
<1>2. dp.step \in Nat
  BY DEF Bounded, DirectionPolicy, NoPolicy
<1>3. limited \in Int
  BY <1>2, LimitStepIsInt
<1>4. gated \in Int
  BY <1>3
<1>5. LimitStep(dec.target, current, spec.step) \in Int
  BY <1>1, LimitStepIsInt
<1>6. \A x \in Int : /\ Clamp(x, spec.min, spec.max) \in Nat
                     /\ spec.min <= spec.max
                          => /\ spec.min <= Clamp(x, spec.min, spec.max)
                             /\ Clamp(x, spec.min, spec.max) <= spec.max
  BY <1>1 DEF Clamp
<1>7. ValidateAsymmetric(dec, current, spec) = Clamp(gated, spec.min, spec.max)
  BY DEF ValidateAsymmetric
<1>8. Validate(dec, current, spec)
        = Clamp(LimitStep(dec.target, current, spec.step), spec.min, spec.max)
  BY DEF Validate
<1> HIDE DEF gated
<1> QED BY <1>4, <1>5, <1>6, <1>7, <1>8 DEF ValidatedReplicas

(* Step limit: from within the bounds, the symmetric validator moves at    *)
(* most maxScaleStep.                                                      *)
THEOREM ValidateBoundsTheStep ==
  ASSUME NEW dec, dec.target \in Int, NEW current \in Int, NEW spec,
         Bounded(spec), spec.min <= current, current <= spec.max
  PROVE  Abs(Validate(dec, current, spec) - current) <= spec.step
<1>1. /\ spec.min \in Nat \ {0} /\ spec.max \in Nat \ {0}
      /\ spec.step \in Nat \ {0}
  BY DEF Bounded
<1> DEFINE limited == LimitStep(dec.target, current, spec.step)
<1>2. /\ limited \in Int
      /\ limited - current <= spec.step /\ current - limited <= spec.step
  BY <1>1, LimitStepIsInt
<1>3. Validate(dec, current, spec) = Clamp(limited, spec.min, spec.max)
  BY DEF Validate
<1> HIDE DEF limited
<1> QED BY <1>1, <1>2, <1>3 DEF Clamp, Abs

(* Holds: a decision for the present count changes nothing, if that count  *)
(* is within the bounds.                                                   *)
THEOREM ValidateKeepsHolds ==
  ASSUME NEW dec, NEW current \in Int, dec.target = current, NEW spec,
         Bounded(spec), spec.min <= current, current <= spec.max
  PROVE  ValidatedReplicas(dec, current, spec) = current
BY DEF Bounded, ValidatedReplicas, Validate, ValidateAsymmetric, LimitStep,
       Clamp, DirectionPolicy, NoPolicy

(* Floors: from within the bounds a decision not to go down is never       *)
(* validated into going down, whatever steps and confidences the policy    *)
(* asks for.                                                               *)
THEOREM ValidateKeepsFloors ==
  ASSUME NEW dec, dec.target \in Int, NEW current \in Int,
         current <= dec.target, NEW spec, Bounded(spec),
         spec.min <= current, current <= spec.max
  PROVE  current <= ValidatedReplicas(dec, current, spec)
BY DEF Bounded, ValidatedReplicas, Validate, ValidateAsymmetric, LimitStep,
       Clamp, DirectionPolicy, NoPolicy

(* Ceilings: likewise a decision not to go up.                             *)
LEMMA ValidateKeepsCeilings ==
  ASSUME NEW dec, dec.target \in Int, NEW current \in Int,
         dec.target <= current, NEW spec, Bounded(spec),
         spec.min <= current, current <= spec.max
  PROVE  ValidatedReplicas(dec, current, spec) <= current
BY DEF Bounded, ValidatedReplicas, Validate, ValidateAsymmetric, LimitStep,
       Clamp, DirectionPolicy, NoPolicy

(* Goals: a decision within the bounds is approached, not overshot.        *)
LEMMA ValidateStopsAtGoals ==
  ASSUME NEW dec, dec.target \in Int, NEW current \in Int, NEW spec,
         Bounded(spec), spec.min <= current, current <= spec.max,
         spec.min <= dec.target, dec.target <= spec.max
  PROVE  /\ current <= dec.target
              => ValidatedReplicas(dec, current, spec) <= dec.target
         /\ dec.target <= current
              => dec.target <= ValidatedReplicas(dec, current, spec)
BY DEF Bounded, ValidatedReplicas, Validate, ValidateAsymmetric, LimitStep,
       Clamp, DirectionPolicy, NoPolicy

(* Overshoot: scaling up beyond minReplicas never goes past the decision.  *)
THEOREM ValidateNeverOvershoots ==
  ASSUME NEW dec, dec.target \in Int, NEW current \in Int, NEW spec,
         Bounded(spec), current < ValidatedReplicas(dec, current, spec),
         spec.min < ValidatedReplicas(dec, current, spec)
  PROVE  ValidatedReplicas(dec, current, spec) <= dec.target
BY DEF Bounded, ValidatedReplicas, Validate, ValidateAsymmetric, LimitStep,
       Clamp, DirectionPolicy, NoPolicy

LEMMA ResolveAboveMin ==
  ASSUME NEW wants \in [Layers -> Optional(Int)], NEW flags \in Flags,
         NEW ceiling \in Optional(Int), NEW lo \in Int, NEW hi \in Int,
         lo < Resolve(wants, ceiling, lo, hi, flags)
  PROVE  /\ Resolve(wants, ceiling, lo, hi, flags) <= WinningTarget(wants, flags)
         /\ ceiling # NoTarget
              => Resolve(wants, ceiling, lo, hi, flags) <= ceiling
<1>1. WinningTarget(wants, flags) \in Int
  BY WinningTargetIsInt
<1> QED BY <1>1 DEF Resolve, CapAt, Optional

LEMMA ResolveInBounds ==
  ASSUME NEW wants, NEW flags, WinningTarget(wants, flags) \in Int,
         NEW lo \in Int, NEW hi \in Int
  PROVE  /\ \A n \in lo..hi :
              n <= WinningTarget(wants, flags)
                => n <= Resolve(wants, NoTarget, lo, hi, flags)
         /\ WinningTarget(wants, flags) \in lo..hi
              => Resolve(wants, NoTarget, lo, hi, flags)
                   = WinningTarget(wants, flags)
BY DEF Resolve, CapAt

(* Seen from within the bounds, the resolved count lies between them and   *)
(* on the way to the winning target.                                       *)
LEMMA ResolveGoesTowards ==
  ASSUME NEW wants, NEW flags, WinningTarget(wants, flags) \in Int,
         NEW lo \in Int, NEW hi \in Int, hi > 0, NEW n \in lo..hi
  PROVE  LET r == Resolve(wants, NoTarget, lo, hi, flags)
             t == WinningTarget(wants, flags)
         IN  /\ lo <= r /\ r <= hi
             /\ n <= t => n <= r /\ r <= t
             /\ t <= n => t <= r /\ r <= n
BY DEF Resolve, CapAt

-----------------------------------------------------------------------------
(* The types of the other functions' results.                              *)

LEMMA ReactiveReplicasIsInt ==
  ASSUME NEW rule, rule.amount \in Int, NEW current \in Nat
  PROVE  ReactiveReplicas(rule, current) \in Int
<1>1. \A x \in Int : Wrap(x) \in Int
  BY MaxIntAssumption DEF Wrap
<1> QED BY <1>1 DEF ReactiveReplicas, Larger

LEMMA CostCeilingIsOptional ==
  ASSUME NEW spec, spec.min \in Nat, spec.maxHourly \in Nat,
         spec.maxMonthly \in Nat, NEW total \in Nat, NEW current \in Nat
  PROVE  CostCeiling(spec, total, current) \in Optional(Int)
<1>1. CASE total = 0
  BY <1>1 DEF CostCeiling, Optional
<1>2. CASE total > 0
  <2>1. Affordable(spec.maxHourly, total, current) \in Int
    BY <1>2 DEF Affordable
  <2>2. HoursPerMonth * total \in Nat /\ HoursPerMonth * total > 0
    BY <1>2 DEF HoursPerMonth
  <2>3. spec.maxMonthly * current \in Int
    OBVIOUS
  <2>4. Affordable(spec.maxMonthly, HoursPerMonth * total, current) \in Int
    BY <2>2, <2>3 DEF Affordable
  <2> QED BY <2>1, <2>4 DEF CostCeiling, Larger, Optional
<1> QED BY <1>1, <1>2

(* What a budget pays for.                                                 *)
LEMMA AffordableIsCovered ==
  ASSUME NEW limit \in Nat, NEW total \in Nat \ {0}, NEW current \in Nat,
         NEW n \in Nat, n <= Affordable(limit, total, current)
  PROVE  total * n <= limit * current
<1> DEFINE q == (limit * current) \div total
<1>1. limit * current \in Nat
  OBVIOUS
<1>2. q \in Int /\ total * q <= limit * current
  BY <1>1
<1>3. n <= q
  BY DEF Affordable
<1> HIDE DEF q
<1>4. total * n <= total * q
  BY <1>2, <1>3
<1> QED BY <1>1, <1>2, <1>4

(* Budget: a count beyond minReplicas that the cost ceiling allows is      *)
(* within both limits.                                                     *)
THEOREM CeilingIsAffordable ==
  ASSUME NEW spec, spec.min \in Nat, spec.maxHourly \in Nat,
         spec.maxMonthly \in Nat, NEW total \in Nat, NEW current \in Nat,
         CostCeiling(spec, total, current) # NoTarget,
         NEW n \in Nat, spec.min < n, n <= CostCeiling(spec, total, current)
  PROVE  ~OverBudget(spec, total, current, n)
<1> DEFINE hourly == Affordable(spec.maxHourly, total, current)
           monthly == Affordable(spec.maxMonthly, HoursPerMonth * total, current)
<1>1. total \in Nat \ {0} /\ HoursPerMonth * total \in Nat \ {0}
  BY DEF CostCeiling, HoursPerMonth
<1>2. hourly \in Int /\ monthly \in Int
  BY <1>1 DEF Affordable
<1>3. /\ spec.maxHourly > 0 => n <= hourly
      /\ spec.maxMonthly > 0 => n <= monthly
  BY <1>1, <1>2 DEF CostCeiling, Larger
<1>4. spec.maxHourly > 0 => total * n <= spec.maxHourly * current
  BY <1>1, <1>3, AffordableIsCovered
<1>5. spec.maxMonthly > 0
        => (HoursPerMonth * total) * n <= spec.maxMonthly * current
  BY <1>1, <1>3, AffordableIsCovered
<1>6. (HoursPerMonth * total) * n = total * n * HoursPerMonth
  BY DEF HoursPerMonth
<1>7. /\ total * n \in Nat /\ spec.maxHourly * current \in Nat
      /\ total * n * HoursPerMonth \in Nat /\ spec.maxMonthly * current \in Nat
  BY DEF HoursPerMonth
<1> QED BY <1>4, <1>5, <1>6, <1>7 DEF OverBudget

(* Fewer replicas never cost more, and a budget that is exceeded has a     *)
(* ceiling.                                                                *)
LEMMA OverBudgetGrows ==
  ASSUME NEW spec, spec.maxHourly \in Nat, spec.maxMonthly \in Nat,
         NEW total \in Nat, NEW current \in Nat, NEW m \in Int, NEW n \in Int,
         m <= n, OverBudget(spec, total, current, m)
  PROVE  OverBudget(spec, total, current, n)
<1>1. total * m \in Int /\ total * n \in Int /\ total * m <= total * n
  OBVIOUS
<1>2. total * m * HoursPerMonth <= total * n * HoursPerMonth
  BY <1>1 DEF HoursPerMonth
<1>3. /\ spec.maxHourly * current \in Int /\ spec.maxMonthly * current \in Int
      /\ total * m * HoursPerMonth \in Int /\ total * n * HoursPerMonth \in Int
  BY <1>1 DEF HoursPerMonth
<1> QED BY <1>1, <1>2, <1>3 DEF OverBudget

LEMMA OverBudgetHasCeiling ==
  ASSUME NEW spec, spec.min \in Nat, spec.maxHourly \in Nat,
         spec.maxMonthly \in Nat, NEW total \in Nat, NEW current \in Nat,
         NEW n \in Int, OverBudget(spec, total, current, n)
  PROVE  CostCeiling(spec, total, current) # NoTarget
<1>1. total # 0
  <2> SUFFICES ASSUME total = 0 PROVE FALSE
    OBVIOUS
  <2>1. total * n = 0 /\ total * n * HoursPerMonth = 0
    BY DEF HoursPerMonth
  <2>2. spec.maxHourly * current >= 0 /\ spec.maxMonthly * current >= 0
    OBVIOUS
  <2> QED BY <2>1, <2>2 DEF OverBudget
<1>2. HoursPerMonth * total \in Nat \ {0}
  BY <1>1 DEF HoursPerMonth
<1>3. /\ Affordable(spec.maxHourly, total, current) \in Int
      /\ Affordable(spec.maxMonthly, HoursPerMonth * total, current) \in Int
  BY <1>1, <1>2 DEF Affordable
<1>4. spec.maxHourly > 0 \/ spec.maxMonthly > 0
  BY DEF OverBudget
<1> QED BY <1>1, <1>3, <1>4, NoTargetAssumption DEF CostCeiling, Larger

(* The detector keeps its events in the order in which they happened.      *)
Ordered(events) ==
  \A i, j \in DOMAIN events : i < j => events[j].age <= events[i].age

LEMMA RecordEventKeepsOrder ==
  ASSUME NEW S, NEW events \in Seq(S), NEW e \in S, NEW size \in Nat \ {0},
         \A x \in S : x.age \in Nat, e.age = 0, Ordered(events)
  PROVE  Ordered(RecordEvent(events, e, size))
<1> DEFINE kept == IF Len(events) >= size THEN Tail(events) ELSE events
<1>1. kept \in Seq(S) /\ Ordered(kept)
  <2>1. CASE Len(events) >= size
    <3>1. /\ kept = Tail(events) /\ kept \in Seq(S) /\ Len(kept) = Len(events) - 1
          /\ \A i \in 1..Len(kept) : kept[i] = events[i + 1]
      BY <2>1, HeadTailProperties
    <3>2. \A i \in DOMAIN kept : i + 1 \in DOMAIN events /\ kept[i] = events[i + 1]
      BY <3>1
    <3>3. DOMAIN kept \subseteq Int
      BY <3>1
    <3> HIDE DEF kept
    <3> QED BY <3>1, <3>2, <3>3 DEF Ordered
  <2>2. CASE ~(Len(events) >= size)
    BY <2>2
  <2> QED BY <2>1, <2>2
<1>2. RecordEvent(events, e, size) = Append(kept, e)
  BY DEF RecordEvent
<1> HIDE DEF kept
<1>3. \A i \in DOMAIN Append(kept, e) :
        /\ i \in 1..Len(kept) + 1
        /\ i <= Len(kept) => Append(kept, e)[i] = kept[i] /\ i \in DOMAIN kept
        /\ i = Len(kept) + 1 => Append(kept, e)[i] = e
        /\ Append(kept, e)[i] \in S
  BY <1>1
<1> QED BY <1>1, <1>2, <1>3 DEF Ordered

(* Oscillation: a detector that shows no thrashing shows none later unless *)
(* something is recorded; as time passes events only leave the window, the *)
(* oldest first.                                                           *)
THEOREM ThrashingFades ==
  ASSUME NEW old, NEW new, NEW n \in Nat, DOMAIN old = 1..n,
         DOMAIN new = 1..n, NEW window \in Nat,
         \A i \in 1..n : /\ old[i].age \in Nat /\ new[i].age \in Nat
                         /\ old[i].age <= new[i].age
                         /\ new[i].dir = old[i].dir,
         Ordered(new), IsOscillating(new, window)
  PROVE  IsOscillating(old, window)
<1> DEFINE before == RecentEvents(old, window)
           after == RecentEvents(new, window)
<1>1. after \subseteq before /\ before \subseteq 1..n
  BY DEF RecentEvents
<1>2. \A i \in after, j \in 1..n : i < j => j \in after
  BY DEF RecentEvents, Ordered
<1>3. DirectionChanges(new, after) \subseteq DirectionChanges(old, before)
  <2> SUFFICES ASSUME NEW i \in DirectionChanges(new, after)
               PROVE  i \in DirectionChanges(old, before)
    OBVIOUS
  <2>1. i \in after
    BY DEF DirectionChanges
  <2>2. PICK j \in after : /\ j < i
                           /\ \A k \in after : k <= j \/ i <= k
                           /\ new[i].dir # new[j].dir
    BY DEF DirectionChanges
  <2>3. i \in before /\ j \in before /\ old[i].dir # old[j].dir
    BY <1>1, <2>1, <2>2
  <2>4. \A k \in before : k <= j \/ i <= k
    BY <1>1, <1>2, <2>1, <2>2
  <2> QED BY <2>2, <2>3, <2>4 DEF DirectionChanges
<1>4. IsFiniteSet(before) /\ IsFiniteSet(DirectionChanges(old, before))
  <2>1. IsFiniteSet(1..n)
    BY FS_Interval
  <2>2. DirectionChanges(old, before) \subseteq before
    BY DEF DirectionChanges
  <2> QED BY <1>1, <2>1, <2>2, FS_Subset
<1>5. /\ Cardinality(after) <= Cardinality(before)
      /\ Cardinality(DirectionChanges(new, after))
           <= Cardinality(DirectionChanges(old, before))
  BY <1>1, <1>3, <1>4, FS_Subset
<1>6. /\ Cardinality(after) \in Nat /\ Cardinality(before) \in Nat
      /\ Cardinality(DirectionChanges(new, after)) \in Nat
      /\ Cardinality(DirectionChanges(old, before)) \in Nat
  BY <1>1, <1>3, <1>4, FS_Subset, FS_CardinalityType
<1> QED BY <1>5, <1>6 DEF IsOscillating

LEMMA RecordEventKeepsSize ==
  ASSUME NEW S, NEW events \in Seq(S), NEW e \in S, NEW size \in Nat \ {0},
         Len(events) <= size
  PROVE  /\ RecordEvent(events, e, size) \in Seq(S)
         /\ Len(RecordEvent(events, e, size)) <= size
BY DEF RecordEvent

-----------------------------------------------------------------------------
(* Bounds win over the ceiling and over every layer, but never by more     *)
(* than they must: the resolved count is the one within the bounds that is *)
(* nearest to what the strongest layer wants under the ceiling (Resolve).  *)
THEOREM ResolveIsNearest ==
  ASSUME NEW wants \in [Layers -> Optional(Int)], NEW flags \in Flags,
         NEW ceiling \in Optional(Int), NEW lo \in Nat, NEW hi \in Nat \ {0},
         lo <= hi, NEW m \in lo..hi
  PROVE  LET u == CapAt(WinningTarget(wants, flags), ceiling)
         IN  Abs(Resolve(wants, ceiling, lo, hi, flags) - u) <= Abs(m - u)
<1> DEFINE u == CapAt(WinningTarget(wants, flags), ceiling)
<1>1. u \in Int
  BY WinningTargetIsInt DEF CapAt, Optional
<1>2. Resolve(wants, ceiling, lo, hi, flags) =
        IF u < lo THEN lo ELSE IF u > hi THEN hi ELSE u
  BY <1>1 DEF Resolve
<1> HIDE DEF u
<1>3. Abs(Resolve(wants, ceiling, lo, hi, flags) - u) <= Abs(m - u)
  BY <1>1, <1>2 DEF Abs
<1> QED BY <1>3 DEF u

(* Approach: towards a goal within the bounds, with the confidence that    *)
(* the policies ask for, validation never moves a workload past the goal   *)
(* nor away from it, from within the bounds or from without                *)
(* (ValidateAsymmetric, Validate).                                         *)
THEOREM ValidateApproaches ==
  ASSUME NEW spec, Bounded(spec), NEW goal \in spec.min..spec.max,
         NEW current \in Nat
  PROVE  LET next == ValidatedReplicas([target |-> goal, conf |-> MaxConf], current, spec)
         IN  /\ Abs(next - goal) <= Abs(current - goal)
             /\ (current <= goal <=> next <= goal) \/ next = goal
<1> DEFINE dec == [target |-> goal, conf |-> MaxConf]
           next == ValidatedReplicas(dec, current, spec)
           dp == DirectionPolicy(goal, current, spec)
<1>1. /\ dec.target = goal /\ dec.conf = 10
      /\ spec.min \in Nat \ {0} /\ spec.max \in Nat \ {0} /\ spec.step \in Nat \ {0}
      /\ goal \in Nat /\ spec.min <= goal /\ goal <= spec.max
  BY DEF Bounded, MaxConf
<1>2. dp.step \in Nat /\ dp.conf \in 0..10
  BY DEF Bounded, DirectionPolicy, NoPolicy, MaxConf
<1>3. ASSUME NEW x \in Int, \/ current <= x /\ x <= goal
                            \/ goal <= x /\ x <= current
      PROVE  LET y == Clamp(x, spec.min, spec.max)
             IN  /\ Abs(y - goal) <= Abs(current - goal)
                 /\ (current <= goal <=> y <= goal) \/ y = goal
  BY <1>1, <1>3 DEF Clamp, Abs
<1>4. ASSUME NEW step \in Nat
      PROVE  LET x == LimitStep(goal, current, step)
             IN  /\ x \in Int
                 /\ \/ current <= x /\ x <= goal
                    \/ goal <= x /\ x <= current
  BY <1>1 DEF LimitStep
<1>5. ValidateAsymmetric(dec, current, spec) =
        Clamp(IF dp.set /\ dp.step > 0 THEN LimitStep(goal, current, dp.step) ELSE goal,
              spec.min, spec.max)
  <2> HIDE DEF dec
  <2>1. ~(dp.conf > 0 /\ dec.conf < dp.conf)
    BY <1>1, <1>2
  <2> QED BY <1>1, <2>1 DEF ValidateAsymmetric
<1>6. Validate(dec, current, spec) = Clamp(LimitStep(goal, current, spec.step), spec.min, spec.max)
  BY DEF Validate
<1>7. \E x \in Int : /\ \/ current <= x /\ x <= goal
                        \/ goal <= x /\ x <= current
                     /\ next = Clamp(x, spec.min, spec.max)
  <2>1. CASE UsesAsymmetric(spec)
    <3>1. next = ValidateAsymmetric(dec, current, spec)
      BY <2>1 DEF ValidatedReplicas
    <3>2. CASE dp.set /\ dp.step > 0
      BY <1>2, <1>4, <1>5, <3>1, <3>2
    <3>3. CASE ~(dp.set /\ dp.step > 0)
      BY <1>1, <1>5, <3>1, <3>3
    <3> QED BY <3>2, <3>3
  <2>2. CASE ~UsesAsymmetric(spec)
    <3>1. next = Validate(dec, current, spec)
      BY <2>2 DEF ValidatedReplicas
    <3> QED BY <1>1, <1>4, <1>6, <3>1
  <2> QED BY <2>1, <2>2
<1> HIDE DEF next
<1>8. /\ Abs(next - goal) <= Abs(current - goal)
      /\ (current <= goal <=> next <= goal) \/ next = goal
  BY <1>3, <1>7
<1> QED BY <1>8 DEF next

(* Symmetric directions: with the step of the policy in both directions    *)
(* and no confidence demanded, the asymmetric validator is the symmetric   *)
(* one (ValidateAsymmetric, Validate).                                     *)
THEOREM SymmetricDirectionsAgree ==
  ASSUME NEW dec, dec.target \in Int, NEW current \in Nat, NEW spec, Bounded(spec),
         spec.up.set, spec.down.set, spec.up.step = spec.step, spec.down.step = spec.step,
         spec.up.conf = 0, spec.down.conf = 0
  PROVE  ValidateAsymmetric(dec, current, spec) = Validate(dec, current, spec)
<1> DEFINE dp == DirectionPolicy(dec.target, current, spec)
<1>1. /\ spec.step \in Nat \ {0} /\ dp.conf = 0
      /\ dec.target # current => dp.set /\ dp.step = spec.step
  BY DEF Bounded, DirectionPolicy, NoPolicy
<1>2. dec.target = current => LimitStep(dec.target, current, spec.step) = dec.target
  BY <1>1 DEF LimitStep
<1>3. ValidateAsymmetric(dec, current, spec) =
        Clamp(IF dp.set /\ dp.step > 0
              THEN LimitStep(dec.target, current, dp.step) ELSE dec.target,
              spec.min, spec.max)
  BY <1>1 DEF ValidateAsymmetric
<1>4. CASE dec.target = current
  <2>1. dp = NoPolicy
    BY <1>4 DEF DirectionPolicy
  <2> QED BY <1>2, <1>3, <1>4, <2>1 DEF Validate, NoPolicy
<1>5. CASE dec.target # current
  BY <1>1, <1>3, <1>5 DEF Validate
<1> QED BY <1>4, <1>5
=============================================================================
