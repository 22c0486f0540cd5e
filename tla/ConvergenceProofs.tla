-------------------------- MODULE ConvergenceProofs --------------------------
(***************************************************************************)
(* The decision functions against their references, for every policy, all  *)
(* wants, ceilings and counts.  The list that Resolve builds is sorted by  *)
(* Rank and leaves out no layer, by induction along its appends.           *)
(***************************************************************************)
EXTENDS Convergence, GuardrailProofs

TypeInv ==
  /\ wants \in [Layers -> Optional(Int)] /\ ceiling \in Optional(Int)
  /\ flags \in Flags /\ spec \in SpecChoices /\ current \in Nat

(* s holds the layers up to rank r, strongest first.                       *)
Sorted(s, f, r) ==
  /\ s \in Seq(Layers)
  /\ \A i, j \in 1 .. Len(s) : i < j => Rank(s[i], f) < Rank(s[j], f)
  /\ \A i \in 1 .. Len(s) : Rank(s[i], f) <= r
  /\ \A l \in Layers : Rank(l, f) <= r => \E i \in 1 .. Len(s) : s[i] = l

LEMMA AppendSorted ==
  ASSUME NEW f \in Flags, NEW r \in Nat, NEW s, Sorted(s, f, r),
         NEW l \in Layers, Rank(l, f) = r + 1,
         \A k \in Layers : Rank(k, f) = r + 1 => k = l
  PROVE  Sorted(s \o <<l>>, f, r + 1)
<1> DEFINE t == s \o <<l>>
           n == Len(s)
<1>1. s \in Seq(Layers) /\ n \in Nat
  BY DEF Sorted
<1>2. t \in Seq(Layers) /\ Len(t) = n + 1 /\ t[n + 1] = l
      /\ \A i \in 1 .. n : t[i] = s[i]
  <2>1. t = Append(s, l)
    BY <1>1, AppendIsConcat
  <2> QED BY <1>1, <2>1, AppendProperties
<1>3. \A k \in Layers : Rank(k, f) \in Nat
  BY RankIsNat
<1>4. \A i \in 1 .. n : s[i] \in Layers
  BY <1>1
<1> HIDE DEF t, n
<1>5. \A i \in 1 .. n : Rank(t[i], f) <= r
  BY <1>2 DEF Sorted, n
<1>6. ASSUME NEW i \in 1 .. n + 1, NEW j \in 1 .. n + 1, i < j
      PROVE  Rank(t[i], f) < Rank(t[j], f)
  <2>1. i \in 1 .. n
    BY <1>1, <1>6
  <2>2. CASE j = n + 1
    BY <1>2, <1>3, <1>4, <1>5, <2>1, <2>2
  <2>3. CASE j # n + 1
    <3>1. j \in 1 .. n
      BY <1>1, <2>3
    <3> QED BY <1>2, <1>6, <2>1, <3>1 DEF Sorted, n
  <2> QED BY <2>2, <2>3
<1>7. \A i \in 1 .. n + 1 : Rank(t[i], f) <= r + 1
  BY <1>1, <1>2, <1>3, <1>4, <1>5
<1>8. ASSUME NEW k \in Layers, Rank(k, f) <= r + 1
      PROVE  \E i \in 1 .. n + 1 : t[i] = k
  <2>1. CASE Rank(k, f) <= r
    <3>1. PICK i \in 1 .. n : s[i] = k
      BY <2>1 DEF Sorted, n
    <3> QED BY <1>1, <1>2, <3>1
  <2>2. CASE Rank(k, f) = r + 1
    BY <1>1, <1>2, <2>2
  <2> QED BY <1>3, <1>8, <2>1, <2>2
<1>9. Sorted(t, f, r + 1)
  BY <1>2, <1>6, <1>7, <1>8 DEF Sorted
<1> QED BY <1>9 DEF t

LEMMA WhenSorted ==
  ASSUME NEW f \in Flags, NEW r \in Nat, NEW s, Sorted(s, f, r), NEW b \in BOOLEAN,
         NEW l \in Layers, b => Rank(l, f) = r + 1,
         \A k \in Layers : Rank(k, f) = r + 1 => b /\ k = l
  PROVE  Sorted(s \o When(b, l), f, r + 1)
<1>1. CASE b
  BY <1>1, AppendSorted DEF When
<1>2. CASE ~b
  <2>1. s \o When(b, l) = s
    BY <1>2, ConcatEmptySeq DEF When, Sorted
  <2>2. \A k \in Layers : Rank(k, f) <= r + 1 => Rank(k, f) <= r
    BY <1>2, RankIsNat
  <2>3. \A i \in 1 .. Len(s) : s[i] \in Layers
    BY DEF Sorted
  <2>4. \A i \in 1 .. Len(s) : Rank(s[i], f) <= r + 1
    BY <2>3, RankIsNat DEF Sorted
  <2> QED BY <2>1, <2>2, <2>4 DEF Sorted
<1> QED BY <1>1, <1>2

LEMMA WhenNotSorted ==
  ASSUME NEW f \in Flags, NEW r \in Nat, NEW s, Sorted(s, f, r), NEW b \in BOOLEAN,
         NEW l \in Layers, ~b => Rank(l, f) = r + 1,
         \A k \in Layers : Rank(k, f) = r + 1 => ~b /\ k = l
  PROVE  Sorted(s \o When(~b, l), f, r + 1)
<1>1. CASE b
  <2>1. When(~b, l) = When(FALSE, l)
    BY <1>1 DEF When
  <2>2. Sorted(s \o When(FALSE, l), f, r + 1)
    BY <1>1, WhenSorted
  <2> QED BY <2>1, <2>2
<1>2. CASE ~b
  <2>1. When(~b, l) = <<l>>
    BY <1>2 DEF When
  <2> QED BY <1>2, <2>1, AppendSorted
<1> QED BY <1>1, <1>2

LEMMA OrderSorted ==
  ASSUME NEW f \in Flags
  PROVE  Sorted(Order(f), f, 10)
<1> DEFINE s2 == <<"safety", "human">>
           s3 == s2 \o When(f.schedule, "schedule")
           s4 == s3 \o When(f.slo, "slo")
           s5 == s4 \o When(f.reactive, "reactive")
           s6 == s5 \o <<"llm">>
           s7 == s6 \o When(~f.reactive, "reactive")
           s8 == s7 \o When(~f.slo, "slo")
           s9 == s8 \o When(~f.schedule, "schedule")
<1>1. f.schedule \in BOOLEAN /\ f.slo \in BOOLEAN /\ f.reactive \in BOOLEAN
  BY DEF Flags
<1>2. Sorted(s2, f, 2)
  BY <1>1 DEF Sorted, Layers, Rank
<1>3. /\ f.schedule => Rank("schedule", f) = 2 + 1
      /\ \A k \in Layers : Rank(k, f) = 2 + 1 => f.schedule /\ k = "schedule"
  BY <1>1 DEF Layers, Rank
<1>4. /\ f.slo => Rank("slo", f) = 3 + 1
      /\ \A k \in Layers : Rank(k, f) = 3 + 1 => f.slo /\ k = "slo"
  BY <1>1 DEF Layers, Rank
<1>5. /\ f.reactive => Rank("reactive", f) = 4 + 1
      /\ \A k \in Layers : Rank(k, f) = 4 + 1 => f.reactive /\ k = "reactive"
  BY <1>1 DEF Layers, Rank
<1>6. /\ Rank("llm", f) = 5 + 1
      /\ \A k \in Layers : Rank(k, f) = 5 + 1 => k = "llm"
  BY <1>1 DEF Layers, Rank
<1>7. /\ ~f.reactive => Rank("reactive", f) = 6 + 1
      /\ \A k \in Layers : Rank(k, f) = 6 + 1 => ~f.reactive /\ k = "reactive"
  BY <1>1 DEF Layers, Rank
<1>8. /\ ~f.slo => Rank("slo", f) = 7 + 1
      /\ \A k \in Layers : Rank(k, f) = 7 + 1 => ~f.slo /\ k = "slo"
  BY <1>1 DEF Layers, Rank
<1>9. /\ ~f.schedule => Rank("schedule", f) = 8 + 1
      /\ \A k \in Layers : Rank(k, f) = 8 + 1 => ~f.schedule /\ k = "schedule"
  BY <1>1 DEF Layers, Rank
<1>10. /\ Rank("deterministic", f) = 9 + 1
       /\ \A k \in Layers : Rank(k, f) = 9 + 1 => k = "deterministic"
  BY <1>1 DEF Layers, Rank
<1>11. {"schedule", "slo", "reactive", "llm", "deterministic"} \subseteq Layers
  BY DEF Layers
<1>12. Order(f) = s9 \o <<"deterministic">>
  BY DEF Order
<1> HIDE DEF s2
<1>13. Sorted(s3, f, 3)
  BY <1>1, <1>2, <1>3, <1>11, WhenSorted
<1> HIDE DEF s3
<1>14. Sorted(s4, f, 4)
  BY <1>1, <1>4, <1>11, <1>13, WhenSorted
<1> HIDE DEF s4
<1>15. Sorted(s5, f, 5)
  BY <1>1, <1>5, <1>11, <1>14, WhenSorted
<1> HIDE DEF s5
<1>16. Sorted(s6, f, 6)
  BY <1>1, <1>6, <1>11, <1>15, AppendSorted
<1> HIDE DEF s6
<1>17. Sorted(s7, f, 7)
  BY <1>1, <1>7, <1>11, <1>16, WhenNotSorted
<1> HIDE DEF s7
<1>18. Sorted(s8, f, 8)
  BY <1>1, <1>8, <1>11, <1>17, WhenNotSorted
<1> HIDE DEF s8
<1>19. Sorted(s9, f, 9)
  BY <1>1, <1>9, <1>11, <1>18, WhenNotSorted
<1> HIDE DEF s9
<1>20. Sorted(s9 \o <<"deterministic">>, f, 10)
  BY <1>10, <1>11, <1>19, AppendSorted
<1> QED BY <1>12, <1>20

(* The first layer of the list that speaks is the one that wins.           *)
LEMMA FirstSpeakerWins ==
  ASSUME NEW w, NEW f \in Flags
  PROVE  LET list == Order(f)
             speaking == {i \in DOMAIN list : w[list[i]] # NoTarget}
         IN  WinningTarget(w, f) = IF speaking = {} THEN 0 ELSE w[list[First(speaking)]]
<1> DEFINE list == Order(f)
           speaking == {i \in DOMAIN list : w[list[i]] # NoTarget}
           first == First(speaking)
<1>1. Sorted(list, f, 10)
  BY OrderSorted
<1> HIDE DEF list
<1>2. /\ list \in Seq(Layers) /\ DOMAIN list = 1 .. Len(list) /\ Len(list) \in Nat
      /\ \A i, j \in DOMAIN list : i < j => Rank(list[i], f) < Rank(list[j], f)
  BY <1>1 DEF Sorted
<1>3. \A l \in Layers : \E i \in DOMAIN list : list[i] = l
  <2>1. \A l \in Layers : Rank(l, f) <= 10
    BY DEF Rank, Layers, Flags
  <2> QED BY <1>1, <1>2, <2>1 DEF Sorted
<1>4. CASE speaking = {}
  <2>1. Present(w) = {}
    BY <1>3, <1>4 DEF Present
  <2> QED BY <1>4, <2>1 DEF WinningTarget, list
<1>5. CASE speaking # {}
  <2>1. first \in speaking /\ \A j \in speaking : first <= j
    <3>1. speaking \in SUBSET Nat
      BY <1>2
    <3> HIDE DEF speaking
    <3> QED BY <1>5, <3>1, NatMinimum DEF First
  <2>2. list[first] \in Present(w)
    <3>1. first \in DOMAIN list /\ w[list[first]] # NoTarget
      BY <2>1
    <3> HIDE DEF first
    <3>2. list[first] \in Layers
      BY <1>2, <3>1
    <3> QED BY <3>1, <3>2 DEF Present
  <2> DEFINE win == Winner(w, f)
  <2>3. win \in Present(w) /\ Rank(win, f) <= Rank(list[first], f)
    BY <2>2, WinnerSpeaks
  <2>4. PICK i \in DOMAIN list : list[i] = win
    BY <1>3, <2>3 DEF Present
  <2>5. i \in speaking
    BY <2>3, <2>4 DEF Present
  <2>6. ~(first < i)
    <3>1. Rank(win, f) \in Nat /\ Rank(list[first], f) \in Nat
      BY <2>2, <2>3, RankIsNat DEF Present
    <3> HIDE DEF first, win, speaking
    <3> QED BY <1>2, <2>1, <2>3, <2>4, <3>1 DEF speaking
  <2>7. i = first
    <3> HIDE DEF first
    <3> QED BY <1>2, <2>1, <2>5, <2>6
  <2> QED BY <1>5, <2>2, <2>4, <2>7 DEF WinningTarget, list
<1> QED BY <1>4, <1>5

-----------------------------------------------------------------------------
LEMMA SpecTyped ==
  ASSUME TypeInv
  PROVE  /\ Bounded(spec) /\ spec.min <= spec.max
         /\ spec.min \in Nat \ {0} /\ spec.max \in Nat \ {0} /\ spec.step \in Nat \ {0}
         /\ Goal \in spec.min..spec.max
<1>1. Bounded(spec) /\ spec.min <= spec.max
  BY ConvergenceAssumption DEF TypeInv, ValidSpec
<1>2. spec.min \in Nat \ {0} /\ spec.max \in Nat \ {0} /\ spec.step \in Nat \ {0}
  BY <1>1 DEF Bounded
<1>3. Goal \in spec.min..spec.max
  BY <1>1, <1>2, ResolveWithinBounds DEF TypeInv, Goal
<1> QED BY <1>1, <1>2, <1>3

LEMMA ConvergenceInit == Init => TypeInv
BY ConvergenceAssumption DEF Init, TypeInv

LEMMA ConvergenceNext == ASSUME TypeInv, [Next]_vars PROVE TypeInv'
<1>1. CASE Next
  <2> DEFINE dec == [target |-> Goal, conf |-> MaxConf]
  <2>1. dec.target \in Int /\ current \in Int
    BY SpecTyped DEF TypeInv
  <2>2. ValidatedReplicas(dec, current, spec) \in Nat
    <3> HIDE DEF dec
    <3> QED BY <2>1, SpecTyped, ValidatedWithinBounds
  <2>3. current' \in Nat
    BY <1>1, <2>2 DEF Next
  <2> QED BY <1>1, <2>3 DEF Next, TypeInv
<1>2. CASE UNCHANGED vars
  BY <1>2 DEF vars, TypeInv
<1> QED BY <1>1, <1>2

LEMMA OrderIsFollowed == TypeInv => ResolveFollowsOrder
<1> SUFFICES ASSUME TypeInv PROVE ResolveFollowsOrder
  OBVIOUS
<1> DEFINE list == Order(flags)
           speaking == {i \in DOMAIN list : wants[list[i]] # NoTarget}
           wanted == IF speaking = {} THEN 0 ELSE wants[list[First(speaking)]]
           capped == IF ceiling # NoTarget /\ ceiling < wanted THEN ceiling ELSE wanted
           bounds == spec.min..spec.max
           Nearest(n) == \A m \in bounds : Abs(n - capped) <= Abs(m - capped)
<1>1. wanted = WinningTarget(wants, flags)
  BY FirstSpeakerWins DEF TypeInv
<1>2. wanted \in Int
  BY <1>1, WinningTargetIsInt DEF TypeInv
<1>3. capped = CapAt(WinningTarget(wants, flags), ceiling) /\ capped \in Int
  <2> HIDE DEF wanted
  <2> QED BY <1>1, <1>2 DEF CapAt, TypeInv, Optional
<1>4. Goal \in bounds /\ bounds \subseteq Int
  BY SpecTyped
<1>5. Nearest(Goal)
  <2> SUFFICES ASSUME NEW m \in bounds PROVE Abs(Goal - capped) <= Abs(m - capped)
    OBVIOUS
  <2> HIDE DEF capped
  <2> QED BY <1>3, SpecTyped, ResolveIsNearest DEF TypeInv, Goal
<1>6. ASSUME NEW n \in bounds, Nearest(n) PROVE n = Goal
  <2>1. Goal = IF capped < spec.min THEN spec.min
               ELSE IF capped > spec.max THEN spec.max ELSE capped
    <3> HIDE DEF capped
    <3> QED BY <1>3, SpecTyped DEF Goal, Resolve
  <2>2. Abs(n - capped) <= Abs(Goal - capped)
    BY <1>4, <1>6
  <2> HIDE DEF capped
  <2> QED BY <1>3, <2>1, <2>2, SpecTyped DEF Abs
<1>7. Goal = CHOOSE n \in bounds : Nearest(n)
  <2> HIDE DEF bounds, Nearest
  <2> QED BY <1>4, <1>5, <1>6
<1> QED BY <1>7 DEF ResolveFollowsOrder

LEMMA DirectionsAgree == TypeInv => AsymmetricAgrees
<1> SUFFICES ASSUME TypeInv, Symmetric(spec), NEW t \in 0 .. spec.max + spec.step + 1
             PROVE  ValidateAsymmetric([target |-> t, conf |-> 0], current, spec)
                      = Validate([target |-> t, conf |-> 0], current, spec)
  BY DEF AsymmetricAgrees
<1> DEFINE dec == [target |-> t, conf |-> 0]
<1>1. dec.target \in Int
  BY SpecTyped
<1>2. /\ spec.up.set /\ spec.down.set /\ spec.up.step = spec.step
      /\ spec.down.step = spec.step /\ spec.up.conf = 0 /\ spec.down.conf = 0
  BY DEF Symmetric
<1> HIDE DEF dec
<1>3. ValidateAsymmetric(dec, current, spec) = Validate(dec, current, spec)
  BY <1>1, <1>2, SpecTyped, SymmetricDirectionsAgree DEF TypeInv
<1> QED BY <1>3 DEF dec

(* The ranks pick the layer that Resolve's list has first, and the result  *)
(* is the count within the bounds that is nearest to what it wants under   *)
(* the ceiling, for all wants, ceilings, bounds and flags (Resolve).       *)
THEOREM OrderDecides == Spec => []ResolveFollowsOrder
BY ConvergenceInit, ConvergenceNext, OrderIsFollowed, PTL DEF Spec

(* With the same step in both directions the two validators agree on every *)
(* decision, for every policy and count (ValidateAsymmetric, Validate).    *)
THEOREM ValidatorsAgree == Spec => []AsymmetricAgrees
BY ConvergenceInit, ConvergenceNext, DirectionsAgree, PTL DEF Spec

(* No cycle moves a workload past the goal or away from it, whatever the   *)
(* policy's steps, and from whatever count (Validate, ValidateAsymmetric). *)
THEOREM GoalsAreApproached == Spec => NeverPastTheGoal
<1>1. ASSUME TypeInv, [Next]_vars
      PROVE  [/\ Abs(current' - Goal) <= Abs(current - Goal)
              /\ (current <= Goal <=> current' <= Goal) \/ current' = Goal]_vars
  <2>1. CASE Next
    <3>1. current' = ValidatedReplicas([target |-> Goal, conf |-> MaxConf], current, spec)
      BY <2>1 DEF Next
    <3>2. /\ Abs(current' - Goal) <= Abs(current - Goal)
          /\ (current <= Goal <=> current' <= Goal) \/ current' = Goal
      BY <1>1, <3>1, SpecTyped, ValidateApproaches DEF TypeInv
    <3> QED BY <3>2
  <2>2. CASE UNCHANGED vars
    BY <2>2
  <2> QED BY <1>1, <2>1, <2>2
<1> QED BY <1>1, ConvergenceInit, ConvergenceNext, PTL DEF Spec, NeverPastTheGoal
=============================================================================
