---------------------------- MODULE AlertingProofs ----------------------------
(***************************************************************************)
(* For every set of policies, plugins and rules: what an alert counts from *)
(* is never older than the condition it stands for; and rules, objectives  *)
(* and alerts are judged by what the services report, because each call of *)
(* a plugin either gets a signal in full or marks it as lost.              *)
(***************************************************************************)
EXTENDS AlertingProperties, WellFoundedInduction, TLAPS

(* What the argument needs of the types.                                   *)
AlertTypes ==
  /\ pc # "idle" => cur \in Policies
  /\ active \in [Alerts -> Duration]
  /\ DOMAIN since = Policies
  /\ \A p \in Policies : since[p] \in [DOMAIN AlertRules[p] -> Duration]
  /\ fired # {} => cur \in Policies /\ fired \subseteq DOMAIN AlertRules[cur]

(* The entry of an alert, if its name is its own, is at most as old as the *)
(* condition.                                                              *)
Grounded(p, i) ==
  active[AlertRules[p][i].name] # Nothing =>
    /\ since[p][i] # Nothing
    /\ active[AlertRules[p][i].name] <= since[p][i]

AlertInv ==
  /\ AlertTypes
  /\ \A p \in Policies : \A i \in DOMAIN AlertRules[p] : Alone(p, i) => Grounded(p, i)
  /\ AlertGrounded

LEMMA NamesAreAlerts ==
  \A p \in Policies : \A i \in DOMAIN AlertRules[p] : AlertRules[p][i].name \in Alerts
BY DEF Alerts

LEMMA AlertInit == Init => AlertInv
<1> SUFFICES ASSUME Init PROVE AlertInv
  OBVIOUS
<1>1. AlertTypes
  BY DEF Init, AlertTypes, Duration
<1>2. \A p \in Policies : \A i \in DOMAIN AlertRules[p] : Grounded(p, i)
  BY NamesAreAlerts DEF Init, Grounded
<1>3. AlertGrounded
  BY DEF Init, AlertGrounded
<1> QED BY <1>1, <1>2, <1>3 DEF AlertInv

(* Steps that touch no alert.                                              *)
LEMMA AlertsUntouched ==
  ASSUME AlertInv, UNCHANGED <<active, since>>,
         fired' = {} \/ UNCHANGED <<cur, fired>>,
         pc' # "idle" => cur' \in Policies
  PROVE  AlertInv'
<1>1. AlertTypes'
  BY DEF AlertInv, AlertTypes
<1>2. \A p \in Policies : \A i \in DOMAIN AlertRules[p] : Alone(p, i) => Grounded(p, i)'
  BY DEF AlertInv, Grounded
<1>3. AlertGrounded'
  BY DEF AlertInv, AlertGrounded, Alone
<1> QED BY <1>1, <1>2, <1>3 DEF AlertInv, Alone

LEMMA OlderFacts ==
  /\ \A a \in Duration : Older(a) \in Duration /\ (Older(a) = Nothing <=> a = Nothing)
  /\ \A a, b \in Ages : a <= b => Older(a) <= Older(b)
  /\ \A a \in Ages : a <= Older(a)
BY AlertingAssumption DEF Older, Duration, Ages

LEMMA TickInv == ASSUME AlertInv, Tick PROVE AlertInv'
<1>1. /\ active' = [n \in Alerts |-> Older(active[n])]
      /\ since' = [p \in Policies |-> [i \in DOMAIN since[p] |-> Older(since[p][i])]]
      /\ UNCHANGED <<pc, cur, fired>>
  BY DEF Tick, cycle
<1>2. AlertTypes'
  BY <1>1, OlderFacts DEF AlertInv, AlertTypes
<1>3. ASSUME NEW p \in Policies, NEW i \in DOMAIN AlertRules[p]
      PROVE  /\ since[p][i] \in Duration /\ since'[p][i] = Older(since[p][i])
             /\ active[AlertRules[p][i].name] \in Duration
             /\ active'[AlertRules[p][i].name] = Older(active[AlertRules[p][i].name])
  BY <1>1, NamesAreAlerts DEF AlertInv, AlertTypes
<1>4. ASSUME NEW p \in Policies, NEW i \in DOMAIN AlertRules[p], Grounded(p, i)
      PROVE  Grounded(p, i)'
  BY <1>3, <1>4, OlderFacts DEF Grounded, Duration
<1>5. AlertGrounded'
  <2> SUFFICES ASSUME NEW i \in fired, Alone(cur, i)
               PROVE  since'[cur][i] # Nothing /\ since'[cur][i] >= AlertRules[cur][i].for
    BY <1>1 DEF AlertGrounded, Alone
  <2>1. cur \in Policies /\ i \in DOMAIN AlertRules[cur]
    BY DEF AlertInv, AlertTypes
  <2>2. since[cur][i] # Nothing /\ since[cur][i] >= AlertRules[cur][i].for
    BY DEF AlertInv, AlertGrounded
  <2>3. since[cur][i] \in Ages /\ since'[cur][i] = Older(since[cur][i])
    BY <1>3, <2>1, <2>2 DEF Duration
  <2>4. Older(since[cur][i]) \in Ages
    BY <2>3, OlderFacts, AlertingAssumption DEF Duration
  <2> QED BY <2>1, <2>2, <2>3, <2>4, OlderFacts, AlertingAssumption DEF Ages
<1> QED BY <1>2, <1>4, <1>5 DEF AlertInv, Alone

LEMMA RestartInv == ASSUME AlertInv, Restart PROVE AlertInv'
<1>1. /\ active' = [n \in Alerts |-> Nothing] /\ since' = since
      /\ pc' = "idle" /\ fired' = {}
  BY DEF Restart
<1>2. AlertTypes'
  BY <1>1 DEF AlertInv, AlertTypes, Duration
<1>3. \A p \in Policies : \A i \in DOMAIN AlertRules[p] : Grounded(p, i)'
  BY <1>1, NamesAreAlerts DEF Grounded
<1> QED BY <1>1, <1>2, <1>3 DEF AlertInv, AlertGrounded

(* The evaluation of the rules of cur.                                     *)
LEMMA AgeFacts ==
  ASSUME AlertInv, cur \in Policies, NEW i \in DOMAIN AlertRules[cur]
  PROVE  /\ Age(i) \in Duration
         /\ Age(i) # Nothing <=> On(i)
         /\ On(i) => Age(i) \in {0, active[Rule(i).name]}
<1>1. active[Rule(i).name] \in Duration
  BY NamesAreAlerts DEF AlertInv, AlertTypes, Rule
<1> QED BY <1>1, AlertingAssumption DEF Age, Duration, Ages

(* The last rule of a name in a policy decides on its entry.               *)
LEMMA LastDecides ==
  ASSUME cur \in Policies, NEW i \in DOMAIN AlertRules[cur], \A j \in Namesakes(i) : j <= i
  PROVE  Last(Rule(i).name) = i
<1> DEFINE IsLast(k) == Rule(k).name = Rule(i).name /\ \A j \in Namesakes(k) : j <= k
<1>1. \A k \in DOMAIN AlertRules[cur] : k \in Nat
  BY AlertingAssumption
<1>2. ASSUME NEW k \in DOMAIN AlertRules[cur], IsLast(k) PROVE k = i
  <2>1. i \in Namesakes(k) /\ k \in Namesakes(i)
    BY <1>2 DEF Namesakes
  <2> QED BY <1>1, <1>2, <2>1
<1>3. IsLast(i)
  OBVIOUS
<1>4. Last(Rule(i).name) = CHOOSE k \in DOMAIN AlertRules[cur] : IsLast(k)
  BY DEF Last
<1> HIDE DEF IsLast
<1> QED BY <1>2, <1>3, <1>4

LEMMA AloneIsLast ==
  ASSUME cur \in Policies, NEW i \in DOMAIN AlertRules[cur], Alone(cur, i)
  PROVE  Last(AlertRules[cur][i].name) = i
<1>1. \A j \in Namesakes(i) : j = i
  BY DEF Alone, Namesakes, Rule
<1>2. i <= i
  BY AlertingAssumption, SMT
<1> QED BY <1>1, <1>2, LastDecides DEF Rule

LEMMA LeastExists ==
  ASSUME NEW S \in SUBSET Nat, S # {}
  PROVE  \E m \in S : \A j \in S : m <= j
<1>1. PICK m \in S : \A j \in S : ~(<<j, m>> \in OpToRel(<, Nat))
  BY NatLessThanWellFounded, WFMin, Zenon
<1>2. \A j \in S : ~(j < m)
  BY <1>1 DEF OpToRel
<1> QED BY <1>2

LEMMA LastIsRule ==
  ASSUME cur \in Policies, NEW n, \E i \in DOMAIN AlertRules[cur] : Rule(i).name = n
  PROVE  \E i \in DOMAIN AlertRules[cur] : Rule(i).name = n /\ Last(n) = i
<1> DEFINE len == Len(AlertRules[cur])
           T == {k \in Nat : len - k \in DOMAIN AlertRules[cur] /\ Rule(len - k).name = n}
<1>1. len \in Nat /\ DOMAIN AlertRules[cur] = 1 .. len
  BY AlertingAssumption
<1>2. PICK i \in DOMAIN AlertRules[cur] : Rule(i).name = n
  OBVIOUS
<1>3. len - i \in T
  BY <1>1, <1>2
<1>4. PICK k \in T : \A j \in T : k <= j
  <2> T # {} /\ T \subseteq Nat
    BY <1>3
  <2> HIDE DEF T
  <2> QED BY LeastExists
<1>5. /\ len - k \in DOMAIN AlertRules[cur] /\ Rule(len - k).name = n
      /\ \A j \in Namesakes(len - k) : j <= len - k
  <2>1. ASSUME NEW j \in DOMAIN AlertRules[cur], Rule(j).name = n
        PROVE  j <= len - k
    <3>1. len - j \in Nat /\ len - (len - j) = j
      BY <1>1
    <3>2. len - j \in T
      BY <2>1, <3>1
    <3>3. k \in Nat /\ k <= len - j
      BY <1>4, <3>2
    <3>4. len \in Nat /\ j \in Nat
      BY <1>1
    <3> HIDE DEF len, T
    <3> QED BY <3>3, <3>4
  <2> QED BY <2>1, <1>4 DEF Namesakes
<1> QED BY <1>5 DEF Last

LEMMA EvaluateInv == ASSUME AlertInv, EvaluateAlerts PROVE AlertInv'
<1>1. /\ cur \in Policies /\ cur' = cur /\ pc' = "idle"
      /\ active' = [n \in Alerts |->
                      IF \E i \in DOMAIN AlertRules[cur] : Rule(i).name = n
                      THEN Age(Last(n)) ELSE active[n]]
      /\ fired' = {i \in DOMAIN AlertRules[cur] : On(i) /\ Age(i) >= Rule(i).for}
      /\ since' = [since EXCEPT ![cur] = [i \in DOMAIN since[cur] |->
                     IF ~On(i) THEN Nothing
                     ELSE IF since[cur][i] = Nothing THEN 0 ELSE since[cur][i]]]
  BY DEF EvaluateAlerts, cycle, AlertInv, AlertTypes
<1>2. DOMAIN since[cur] = DOMAIN AlertRules[cur] /\ DOMAIN since = Policies
  BY <1>1 DEF AlertInv, AlertTypes
<1>3. \A p \in Policies \ {cur} : since'[p] = since[p]
  BY <1>1, <1>2
<1>4. ASSUME NEW i \in DOMAIN AlertRules[cur]
      PROVE  /\ since[cur][i] \in Duration
             /\ since'[cur][i] = IF ~On(i) THEN Nothing
                                 ELSE IF since[cur][i] = Nothing THEN 0 ELSE since[cur][i]
  BY <1>1, <1>2 DEF AlertInv, AlertTypes
<1>5. 0 \in Ages
  BY AlertingAssumption DEF Ages
<1>6. AlertTypes'
  <2>1. ASSUME NEW n \in Alerts PROVE active'[n] \in Duration
    <3>1. CASE \E i \in DOMAIN AlertRules[cur] : Rule(i).name = n
      <4>1. PICK i \in DOMAIN AlertRules[cur] : active'[n] = Age(i)
        BY <1>1, <3>1, LastIsRule
      <4> QED BY <1>1, <4>1, AgeFacts
    <3>2. CASE ~\E i \in DOMAIN AlertRules[cur] : Rule(i).name = n
      BY <1>1, <3>2 DEF AlertInv, AlertTypes
    <3> QED BY <3>1, <3>2
  <2>2. since'[cur] \in [DOMAIN AlertRules[cur] -> Duration]
    <3>1. since'[cur] = [i \in DOMAIN AlertRules[cur] |->
                           IF ~On(i) THEN Nothing
                           ELSE IF since[cur][i] = Nothing THEN 0 ELSE since[cur][i]]
      BY <1>1, <1>2
    <3> QED BY <1>4, <1>5, <3>1 DEF Duration
  <2>3. \A p \in Policies : since'[p] \in [DOMAIN AlertRules[p] -> Duration]
    BY <1>3, <2>2 DEF AlertInv, AlertTypes
  <2>4. active' \in [Alerts -> Duration]
    BY <1>1, <2>1
  <2>5. DOMAIN since' = Policies
    BY <1>1, <1>2
  <2> QED BY <1>1, <2>3, <2>4, <2>5 DEF AlertTypes
<1>7. ASSUME NEW p \in Policies, NEW i \in DOMAIN AlertRules[p], Alone(p, i)
      PROVE  Grounded(p, i)'
  <2> DEFINE n == AlertRules[p][i].name
  <2>1. n \in Alerts /\ Grounded(p, i)
    BY <1>7, NamesAreAlerts DEF AlertInv
  <2>2. CASE p = cur
    <3>1. active'[n] = Age(i)
      <4>1. Last(n) = i
        BY <1>7, <2>2, AloneIsLast
      <4> QED BY <1>1, <2>1, <2>2, <4>1 DEF Rule
    <3>2. Age(i) # Nothing =>
            /\ On(i) /\ Age(i) \in {0, active[n]}
      BY <1>1, <2>2, AgeFacts DEF Rule
    <3>3. /\ since[cur][i] \in Duration
          /\ since'[cur][i] = IF ~On(i) THEN Nothing
                              ELSE IF since[cur][i] = Nothing THEN 0 ELSE since[cur][i]
      BY <1>4, <2>2
    <3>4. CASE Age(i) # Nothing
      <4>1. since'[p][i] \in Ages
        BY <1>5, <2>2, <3>2, <3>3, <3>4, AlertingAssumption DEF Duration
      <4>2. active'[n] = 0 \/ active'[n] = active[n]
        BY <3>1, <3>2, <3>4
      <4>3. active'[n] = 0 => active'[n] <= since'[p][i]
        BY <4>1, AlertingAssumption DEF Ages
      <4>4. active'[n] = active[n] => active'[n] <= since'[p][i]
        BY <2>1, <2>2, <3>1, <3>2, <3>3, <3>4 DEF Grounded
      <4>5. since'[p][i] # Nothing
        BY <4>1, AlertingAssumption
      <4> QED BY <4>2, <4>3, <4>4, <4>5 DEF Grounded
    <3>5. CASE Age(i) = Nothing
      BY <3>1, <3>5 DEF Grounded
    <3> QED BY <3>4, <3>5
  <2>3. CASE p # cur
    <3>1. ~\E j \in DOMAIN AlertRules[cur] : Rule(j).name = n
      BY <1>1, <1>7, <2>3 DEF Alone, Rule
    <3>2. active'[n] = active[n]
      BY <1>1, <2>1, <3>1
    <3>3. since'[p][i] = since[p][i]
      BY <1>3, <2>3
    <3> QED BY <2>1, <3>2, <3>3 DEF Grounded
  <2> QED BY <2>2, <2>3
<1>8. AlertGrounded'
  <2> SUFFICES ASSUME NEW i \in fired', Alone(cur, i)
               PROVE  since'[cur][i] # Nothing /\ since'[cur][i] >= AlertRules[cur][i].for
    BY <1>1 DEF AlertGrounded, Alone
  <2>1. i \in DOMAIN AlertRules[cur] /\ On(i) /\ Age(i) >= AlertRules[cur][i].for
    BY <1>1 DEF Rule
  <2>2. Age(i) \in Ages
    BY <1>1, <2>1, AgeFacts DEF Duration
  <2>3. since'[cur][i] \in Ages
    BY <1>4, <1>5, <2>1 DEF Duration
  <2>4. Age(i) <= since'[cur][i]
    <3>1. Age(i) \in {0, active[AlertRules[cur][i].name]}
      BY <1>1, <2>1, AgeFacts DEF Rule
    <3>2. Grounded(cur, i)
      BY <1>1, <2>1 DEF AlertInv
    <3>3. CASE Age(i) = 0
      BY <2>3, <3>3, AlertingAssumption DEF Ages
    <3>4. CASE Age(i) = active[AlertRules[cur][i].name]
      BY <1>4, <2>1, <2>2, <3>2, <3>4, AlertingAssumption DEF Grounded
    <3> QED BY <3>1, <3>3, <3>4
  <2> QED BY <1>1, <2>1, <2>2, <2>3, <2>4, AlertingAssumption DEF Ages
<1> QED BY <1>6, <1>7, <1>8 DEF AlertInv, Alone

LEMMA NextInv == ASSUME AlertInv, [Next]_vars PROVE AlertInv'
<1>1. CASE \E p \in Policies : Begin(p)
  BY <1>1, AlertsUntouched DEF Begin
<1>2. CASE Collect \/ Judge
  <2>1. cur \in Policies
    BY <1>2 DEF Collect, Judge, AlertInv, AlertTypes
  <2> QED BY <1>2, <2>1, AlertsUntouched DEF Collect, Judge, alarms
<1>3. CASE EndEarly
  BY <1>3, AlertsUntouched DEF EndEarly, cycle, alarms
<1>4. CASE \E p \in Policies : Move(p)
  <2>1. pc # "idle" => cur \in Policies
    BY DEF AlertInv, AlertTypes
  <2> QED BY <1>4, <2>1, AlertsUntouched DEF Move, alarms
<1>5. CASE UNCHANGED vars
  <2>1. pc # "idle" => cur \in Policies
    BY DEF AlertInv, AlertTypes
  <2> QED BY <1>5, <2>1, AlertsUntouched DEF vars
<1> QED BY <1>1, <1>2, <1>3, <1>4, <1>5, EvaluateInv, TickInv, RestartInv
        DEF Next, Worker

(* An alert whose name is its own fires only if its condition held at      *)
(* every evaluation for its whole duration, whatever other policies,       *)
(* cycles that end early, and restarts do to the entries they share        *)
(* (Evaluator.Evaluate).                                                   *)
THEOREM AlertsAreGrounded == Spec => []AlertGrounded
<1>1. AlertInv => AlertGrounded
  BY DEF AlertInv
<1> QED BY <1>1, AlertInit, NextInv, PTL DEF Spec
-----------------------------------------------------------------------------
(* What a call of a plugin may do to the signals that it is there for: each *)
(* is written or lost, and what is not lost is what the service reports.    *)
Faithful(o, names, w) ==
  /\ o.lost \subseteq names /\ DOMAIN o.writes \subseteq names
  /\ \A n \in names : n \in DOMAIN o.writes \/ n \in o.lost
  /\ \A n \in DOMAIN o.writes : o.writes[n] \in Int
  /\ \A n \in DOMAIN o.writes : n \in o.lost \/ o.writes[n] = w[n]

LEMMA ResultsAreFaithful ==
  ASSUME NEW names \in SUBSET Names, NEW w \in [Names -> Int]
  PROVE  /\ Faithful(Reports(names, w), names, w) /\ Faithful(Silent(names), names, w)
         /\ Faithful(Fails(names), names, w) /\ Faithful(Zeros(names), names, w)
         /\ \A o \in Shown(names, w) : Faithful(o, names, w)
<1>1. Faithful(Reports(names, w), names, w)
  BY DEF Reports, Result, Faithful
<1>2. Faithful(Silent(names), names, w)
  BY DEF Silent, Result, Faithful
<1>3. Faithful(Fails(names), names, w)
  BY DEF Fails, Result, Faithful
<1>4. Faithful(Zeros(names), names, w)
  BY DEF Zeros, Result, Faithful
<1>5. ASSUME NEW empty \in SUBSET names
      PROVE  Faithful(Result([n \in names |-> IF n \in empty THEN 0 ELSE w[n]], empty, TRUE),
                      names, w)
  BY DEF Result, Faithful
<1>6. \A o \in Shown(names, w) : Faithful(o, names, w)
  BY <1>3, <1>5 DEF Shown
<1> QED BY <1>1, <1>2, <1>3, <1>4, <1>6

LEMMA SQSIsFaithful ==
  ASSUME NEW x, x.kind = "aws-sqs", IsPlugin(x), NEW w \in [Names -> Int], Agrees(x, w),
         NEW o \in SQS(x, w)
  PROVE  Faithful(o, Provides(x), w)
<1> DEFINE names == Provides(x)
           parts == {"sqs_visible_messages", "sqs_inflight_messages"}
           Attribute(n, gone) == IF n \in gone THEN 0 ELSE w[n]
           Depth(gone) == Attribute("sqs_visible_messages", gone)
                            + Attribute("sqs_inflight_messages", gone)
           Written(n, gone) == CASE n \in parts             -> Attribute(n, gone)
                                [] n = "queue_depth"      -> Depth(gone)
                                [] n = "sqs_target_ratio" -> Ratio(Depth(gone), x.length)
           Unread(gone) == IF gone = {} THEN {} ELSE names \ (parts \ gone)
           Answer(gone) == Result([n \in names |-> Written(n, gone)], Unread(gone), TRUE)
<1>1. /\ names = {"queue_depth", "sqs_visible_messages", "sqs_inflight_messages"}
                   \cup (IF x.length > 0 THEN {"sqs_target_ratio"} ELSE {})
      /\ names \subseteq Names /\ x.length \in Int
  BY DEF IsPlugin, Provides, Queue, Metric
<1>2. \A gone \in SUBSET parts : Depth(gone) \in Int
  BY <1>1
<1>3. ASSUME NEW gone \in SUBSET parts, NEW n \in names
      PROVE  Written(n, gone) \in Int
  <2>1. x.length > 0 => Ratio(Depth(gone), x.length) \in Int
    <3> HIDE DEF Depth
    <3> QED BY <1>1, <1>2 DEF Ratio
  <2>2. n \in parts => Attribute(n, gone) \in Int
    BY <1>1
  <2> HIDE DEF Attribute, Depth
  <2> QED BY <1>1, <1>2, <2>1, <2>2
<1>4. ASSUME NEW n \in names PROVE Written(n, {}) = w[n]
  <2>1. Depth({}) = w["queue_depth"]
    BY DEF Agrees
  <2>2. x.length > 0 => w["sqs_target_ratio"] = Ratio(Depth({}), x.length)
    BY <2>1 DEF Agrees
  <2> HIDE DEF Depth
  <2> QED BY <1>1, <2>1, <2>2
<1>5. ASSUME NEW gone \in SUBSET parts, NEW n \in names, n \notin Unread(gone)
      PROVE  Written(n, gone) = w[n]
  <2>1. CASE gone = {}
    BY <1>4, <2>1
  <2>2. CASE gone # {}
    <3>1. n \in parts /\ n \notin gone
      BY <1>5, <2>2
    <3> QED BY <3>1
  <2> QED BY <2>1, <2>2
<1>6. ASSUME NEW gone \in SUBSET parts PROVE Faithful(Answer(gone), names, w)
  <2>1. Unread(gone) \subseteq names
    OBVIOUS
  <2> HIDE DEF names, parts, Written, Unread
  <2> QED BY <1>3, <1>5, <2>1 DEF Result, Faithful
<1>7. SQS(x, w) = {Answer(gone) : gone \in SUBSET parts} \cup {Fails(names)}
  BY DEF SQS
<1> HIDE DEF Answer, parts
<1>8. Faithful(o, names, w)
  BY <1>1, <1>6, <1>7, ResultsAreFaithful
<1> QED BY <1>8

LEMMA PrometheusIsFaithful ==
  ASSUME NEW x, x.kind = "prometheus", IsPlugin(x), NEW w \in [Names -> Int],
         NEW o \in Prometheus(x, w)
  PROVE  Faithful(o, Provides(x), w)
<1> DEFINE Asked(k) == {x.queries[i] : i \in 1 .. k}
           all == Provides(x)
           Upto(written, empty, ok) ==
             Result([n \in written |-> IF n \in empty THEN 0 ELSE w[n]],
                    (all \ written) \cup empty, ok)
<1>1. all \subseteq Names /\ all = Asked(Len(x.queries)) \cup x.customs
      /\ Len(x.queries) \in Nat
  BY DEF IsPlugin, Provides, Metric
<1>2. ASSUME NEW written \in SUBSET all, NEW empty \in SUBSET all, NEW ok
      PROVE  Faithful(Upto(written, empty, ok), all, w)
  <2> HIDE DEF all
  <2> QED BY <1>1 DEF Result, Faithful
<1>3. \A k \in 1 .. Len(x.queries) : Asked(k - 1) \subseteq all
  BY <1>1
<1> DEFINE Whole(gone, empty) == Upto(all \ gone, empty, TRUE)
           Broken(k, empty) == Upto(Asked(k - 1), empty, FALSE)
<1>4. Prometheus(x, w) =
        {Whole(gone, empty) :
           gone \in SUBSET (x.customs \ Asked(Len(x.queries))), empty \in SUBSET all}
        \cup UNION {{Broken(k, empty) : empty \in SUBSET Asked(k - 1)} :
                       k \in 1 .. Len(x.queries)}
  BY DEF Prometheus
<1>5. ASSUME NEW gone \in SUBSET (x.customs \ Asked(Len(x.queries))),
             NEW empty \in SUBSET all
      PROVE  Faithful(Whole(gone, empty), all, w)
  <2> all \ gone \in SUBSET all
    OBVIOUS
  <2> HIDE DEF Upto, Asked, all
  <2> QED BY <1>2
<1>6. ASSUME NEW k \in 1 .. Len(x.queries), NEW empty \in SUBSET Asked(k - 1)
      PROVE  Faithful(Broken(k, empty), all, w)
  <2> Asked(k - 1) \in SUBSET all /\ empty \in SUBSET all
    BY <1>3
  <2> HIDE DEF Upto, Asked, all
  <2> QED BY <1>2
<1> HIDE DEF Upto, Asked, all, Whole, Broken
<1>7. Faithful(o, all, w)
  BY <1>4, <1>5, <1>6
<1> QED BY <1>7 DEF all

LEMMA KafkaIsFaithful ==
  ASSUME NEW names, names = Queue("kafka_consumer_lag"), names \subseteq Names,
         NEW w \in [Names -> Int], w["queue_depth"] = w["kafka_consumer_lag"],
         NEW o \in Kafka(names, w)
  PROVE  Faithful(o, names, w)
<1> DEFINE lag == w["kafka_consumer_lag"]
           Read(part) == Result([n \in names |-> part], IF part = lag THEN {} ELSE names, TRUE)
<1>1. \/ \E part \in 0 .. lag : o = Read(part)
      \/ o = Fails(names)
  BY DEF Kafka
<1>2. lag \in Int /\ \A n \in names : w[n] = lag
  BY DEF Queue
<1> HIDE DEF lag
<1>3. ASSUME NEW part \in 0 .. lag PROVE Faithful(Read(part), names, w)
  BY <1>2 DEF Result, Faithful
<1> QED BY <1>1, <1>3, ResultsAreFaithful DEF Read

LEMMA OutcomesAreFaithful ==
  ASSUME NEW x, IsPlugin(x), NEW w \in [Names -> Int], Agrees(x, w),
         NEW o \in Outcomes(x, w)
  PROVE  Faithful(o, Provides(x), w)
<1> DEFINE names == Provides(x)
<1>1. names \in SUBSET Names
  BY DEF IsPlugin
<1>2. CASE x.kind \in {"metrics-server", "keda", "opencost"}
  <2>1. o \in Shown(names, w) \cup {Silent(names)}
    BY <1>2 DEF Outcomes, MetricsServer, KEDA, OpenCost
  <2> QED BY <1>1, <2>1, ResultsAreFaithful
<1>3. CASE x.kind = "prometheus"
  <2>1. o \in Prometheus(x, w)
    BY <1>3 DEF Outcomes
  <2> QED BY <1>3, <2>1, PrometheusIsFaithful
<1>4. CASE x.kind = "kafka"
  <2>1. o \in Kafka(names, w)
    BY <1>4 DEF Outcomes
  <2>2. names = Queue("kafka_consumer_lag")
    BY <1>4 DEF Provides, Metric
  <2> QED BY <1>1, <1>4, <2>1, <2>2, KafkaIsFaithful DEF Agrees
<1>5. CASE x.kind = "aws-sqs"
  <2>1. o \in SQS(x, w)
    BY <1>5 DEF Outcomes
  <2> QED BY <1>5, <2>1, SQSIsFaithful
<1>6. CASE x.kind = "gcp-pubsub"
  <2>1. o \in PubSub(names, w)
    BY <1>6 DEF Outcomes
  <2>2. [w EXCEPT !["queue_depth"] = w["pubsub_unacked_messages"]] = w
    BY <1>6 DEF Agrees
  <2> QED BY <1>1, <2>1, <2>2, ResultsAreFaithful DEF PubSub, Metered, Gauge
<1>7. CASE x.kind \in {"cloudwatch", "gcp-monitoring", "datadog", "webhook"}
  <2>1. o \in Metered(names, w) \cup Webhook(names, w)
    BY <1>7 DEF Outcomes, Metered, CloudWatch, GCPMonitoring, Datadog
  <2> QED BY <1>1, <2>1, ResultsAreFaithful DEF Metered, Gauge, Webhook
<1>8. CASE x.kind = "nodes"
  <2>1. o \in Nodes /\ names = {}
    BY <1>8 DEF Outcomes, Provides, Metric
  <2> QED BY <1>1, <2>1, ResultsAreFaithful DEF Nodes
<1> QED BY <1>2, <1>3, <1>4, <1>5, <1>6, <1>7, <1>8 DEF IsPlugin, Kinds, Metric

-----------------------------------------------------------------------------
(* What bundle b says of the signals of p while the services report w,     *)
(* before plugin k is called: g is what it has in full, l what was lost.   *)
BundleOf(p, w, b, g, l, k) ==
  \A n \in Names :
    /\ n \in g => n \in Provided(p) /\ b[n] = w[n]
    /\ n \notin g => b[n] = 0 \/ b[n] \in Parts(p, n, w)
    /\ \A i \in DOMAIN Plugins[p] :
         i < k /\ n \in Provides(Plugins[p][i]) => n \in g \/ n \in l

BundleTrue ==
  pc # "idle" /\ ~moved => BundleOf(cur, world[cur], bundle, got, lost, index)

CycleTypes ==
  /\ world \in [Policies -> UNION {Worlds[p] : p \in Policies}]
  /\ \A p \in Policies : world[p] \in Worlds[p]
  /\ pc \in {"idle", "collect", "alerts"}
  /\ cur \in Policies \cup {Nothing}
  /\ index \in Nat \ {0}
  /\ bundle \in [Names -> Int]
  /\ lost \subseteq Names /\ got \subseteq Names
  /\ moved \in BOOLEAN
  /\ DOMAIN verdict = {"rule", "breached"} /\ verdict.rule \in Nat
  /\ moves \in 0 .. MaxMoves /\ faults \in 0 .. MaxFaults

(* The verdict is the one on the bundle as it is.                          *)
VerdictOf ==
  [rule |-> Firing,
   breached |-> IF Firing # 0 THEN {} ELSE {o \in Objectives[cur] : Breached(o, bundle)}]

VerdictInv ==
  pc = "alerts" => index > Len(Plugins[cur]) /\ verdict = VerdictOf

SignalInv == AlertInv /\ CycleTypes /\ BundleTrue /\ VerdictInv

(* One plugin more.                                                        *)
LEMMA PluginsTyped ==
  ASSUME NEW p \in Policies, NEW i \in DOMAIN Plugins[p], NEW w \in Worlds[p]
  PROVE  /\ IsPlugin(Plugins[p][i]) /\ w \in [Names -> Int] /\ Agrees(Plugins[p][i], w)
         /\ Provides(Plugins[p][i]) \subseteq Names
         /\ Provides(Plugins[p][i]) \subseteq Provided(p)
         /\ DOMAIN Plugins[p] = 1 .. Len(Plugins[p]) /\ Len(Plugins[p]) \in Nat
<1>1. /\ DOMAIN Plugins[p] = 1 .. Len(Plugins[p]) /\ Len(Plugins[p]) \in Nat
      /\ w \in [Names -> Int]
  BY AlertingAssumption
<1>2. IsPlugin(Plugins[p][i]) /\ Agrees(Plugins[p][i], w)
  BY AlertingAssumption
<1>3. Provides(Plugins[p][i]) \subseteq Names
  BY <1>2 DEF IsPlugin
<1> QED BY <1>1, <1>2, <1>3 DEF Provided

LEMMA CollectedOnce ==
  ASSUME NEW p \in Policies, NEW w \in Worlds[p], NEW k \in DOMAIN Plugins[p],
         NEW o \in Outcomes(Plugins[p][k], w), NEW b \in [Names -> Int],
         NEW g, NEW l, BundleOf(p, w, b, g, l, k)
  PROVE  /\ BundleOf(p, w, [n \in Names |-> IF n \in DOMAIN o.writes THEN o.writes[n] ELSE b[n]],
                     (g \ DOMAIN o.writes) \cup (DOMAIN o.writes \ o.lost), l \cup o.lost, k + 1)
         /\ [n \in Names |-> IF n \in DOMAIN o.writes THEN o.writes[n] ELSE b[n]] \in [Names -> Int]
         /\ DOMAIN o.writes \subseteq Names /\ o.lost \subseteq Names
<1> DEFINE D == DOMAIN o.writes
           x == Plugins[p][k]
           b1 == [n \in Names |-> IF n \in D THEN o.writes[n] ELSE b[n]]
           g1 == (g \ D) \cup (D \ o.lost)
           l1 == l \cup o.lost
<1>1. Faithful(o, Provides(x), w)
  BY PluginsTyped, OutcomesAreFaithful
<1>2. /\ o.lost \subseteq Names /\ D \subseteq Names /\ D \subseteq Provided(p)
      /\ \A n \in Provides(x) : n \in D \/ n \in o.lost
      /\ \A n \in D : o.writes[n] \in Int /\ (n \in o.lost \/ o.writes[n] = w[n])
  BY <1>1, PluginsTyped DEF Faithful
<1>3. \A n \in D \cap o.lost : o.writes[n] \in Parts(p, n, w)
  <2> SUFFICES ASSUME NEW n \in D, n \in o.lost PROVE o.writes[n] \in Parts(p, n, w)
    OBVIOUS
  <2> DEFINE answers == UNION {Outcomes(Plugins[p][i], w) : i \in DOMAIN Plugins[p]}
  <2>1. o \in answers
    OBVIOUS
  <2> HIDE DEF answers
  <2>2. o \in {a \in answers : n \in DOMAIN a.writes \cap a.lost}
    BY <2>1
  <2> QED BY <2>2 DEF Parts, answers
<1>4. b1 \in [Names -> Int]
  BY <1>2
<1>5. k \in Nat /\ \A i \in DOMAIN Plugins[p] : i \in Nat
  BY PluginsTyped
<1>6. ASSUME NEW n \in Names
      PROVE  /\ n \in g1 => n \in Provided(p) /\ b1[n] = w[n]
             /\ n \notin g1 => b1[n] = 0 \/ b1[n] \in Parts(p, n, w)
  <2>1. /\ n \in g => n \in Provided(p) /\ b[n] = w[n]
        /\ n \notin g => b[n] = 0 \/ b[n] \in Parts(p, n, w)
    BY DEF BundleOf
  <2>2. b1[n] = IF n \in D THEN o.writes[n] ELSE b[n]
    OBVIOUS
  <2> HIDE DEF D, b1
  <2> QED BY <1>2, <1>3, <2>1, <2>2
<1>7. ASSUME NEW n \in Names, NEW i \in DOMAIN Plugins[p], i < k + 1,
             n \in Provides(Plugins[p][i])
      PROVE  n \in g1 \/ n \in l1
  <2>1. CASE i = k
    BY <1>2, <1>7, <2>1
  <2>2. CASE i # k
    <3>1. i < k
      BY <1>5, <1>7, <2>2
    <3>2. n \in g \/ n \in l
      BY <1>7, <3>1 DEF BundleOf
    <3> QED BY <3>2
  <2> QED BY <2>1, <2>2
<1>8. BundleOf(p, w, b1, g1, l1, k + 1)
  <2> HIDE DEF b1, g1, l1
  <2> QED BY <1>6, <1>7 DEF BundleOf
<1> QED BY <1>2, <1>4, <1>8

(* First match wins (EvaluateReactiveRules).                               *)
LEMMA FirstMatchWins ==
  ASSUME cur \in Policies
  PROVE  /\ Firing \in Nat
         /\ Firing # 0 => /\ Firing \in DOMAIN RuleBook[cur]
                          /\ RuleHolds(RuleBook[cur][Firing], bundle)
         /\ \A i \in DOMAIN RuleBook[cur] :
              Firing = 0 \/ i < Firing => ~RuleHolds(RuleBook[cur][i], bundle)
<1> DEFINE held == {i \in DOMAIN RuleBook[cur] : RuleHolds(RuleBook[cur][i], bundle)}
<1>1. DOMAIN RuleBook[cur] = 1 .. Len(RuleBook[cur]) /\ Len(RuleBook[cur]) \in Nat
  BY AlertingAssumption
<1>2. held \in SUBSET Nat /\ 0 \notin held
  BY <1>1
<1>3. Firing = IF held = {} THEN 0 ELSE CHOOSE i \in held : \A j \in held : i <= j
  BY DEF Firing
<1>4. CASE held = {}
  BY <1>3, <1>4
<1>5. CASE held # {}
  <2>1. Firing \in held /\ \A j \in held : Firing <= j
    <3> HIDE DEF held
    <3> QED BY <1>2, <1>3, <1>5, LeastExists
  <2>2. ASSUME NEW i \in DOMAIN RuleBook[cur], i < Firing PROVE i \notin held
    BY <1>1, <1>2, <2>1, <2>2
  <2> QED BY <1>2, <2>1, <2>2
<1> QED BY <1>4, <1>5

-----------------------------------------------------------------------------
LEMMA SignalInit == Init => SignalInv
<1> SUFFICES ASSUME Init PROVE SignalInv
  OBVIOUS
<1>1. CycleTypes
  <2>1. /\ world \in [Policies -> UNION {Worlds[p] : p \in Policies}]
        /\ \A p \in Policies : world[p] \in Worlds[p]
        /\ pc = "idle" /\ cur = Nothing /\ index = 1
        /\ bundle = [n \in Names |-> 0] /\ lost = {} /\ got = {} /\ moved = FALSE
        /\ verdict = [rule |-> 0, breached |-> {}] /\ moves = 0 /\ faults = 0
    BY DEF Init, NewBundle, NoVerdict
  <2>2. bundle \in [Names -> Int] /\ moves \in 0 .. MaxMoves /\ faults \in 0 .. MaxFaults
    BY <2>1, AlertingAssumption
  <2>3. DOMAIN verdict = {"rule", "breached"} /\ verdict.rule \in Nat
    BY <2>1
  <2>4. moved \in BOOLEAN
    BY <2>1, Zenon
  <2>5. pc \in {"idle", "collect", "alerts"} /\ index \in Nat \ {0}
        /\ cur \in Policies \cup {Nothing} /\ lost \subseteq Names /\ got \subseteq Names
    BY <2>1
  <2> QED BY <2>1, <2>2, <2>3, <2>4, <2>5, Zenon DEF CycleTypes
<1>2. BundleTrue /\ VerdictInv
  BY DEF Init, BundleTrue, VerdictInv
<1> QED BY <1>1, <1>2, AlertInit DEF SignalInv

(* Steps that touch neither the cycle nor the services.                    *)
LEMMA CycleUntouched ==
  ASSUME CycleTypes, BundleTrue, VerdictInv, UNCHANGED <<world, cycle>>,
         pc' = "idle" \/ pc' = pc, moves' = moves, faults' \in 0 .. MaxFaults
  PROVE  CycleTypes' /\ BundleTrue' /\ VerdictInv'
<1>1. CycleTypes'
  BY DEF CycleTypes, cycle
<1>2. BundleTrue'
  BY DEF BundleTrue, cycle
<1>3. VerdictInv'
  BY DEF VerdictInv, VerdictOf, Firing, cycle
<1> QED BY <1>1, <1>2, <1>3

LEMMA FaultTyped == ASSUME CycleTypes, Fault PROVE faults' \in 0 .. MaxFaults
BY AlertingAssumption DEF CycleTypes, Fault

LEMMA BeginSignals ==
  ASSUME CycleTypes, NEW p \in Policies, Begin(p)
  PROVE  CycleTypes' /\ BundleTrue' /\ VerdictInv'
<1>1. /\ cur' = p /\ index' = 1 /\ bundle' = [n \in Names |-> 0]
      /\ lost' = {} /\ got' = {} /\ moved' = FALSE
      /\ verdict' = [rule |-> 0, breached |-> {}] /\ UNCHANGED <<world, moves>>
      /\ pc' \in {"idle", "collect"}
  BY DEF Begin, Fresh, NewBundle, NoVerdict, CycleTypes
<1>2. faults' \in 0 .. MaxFaults
  BY FaultTyped DEF Begin, CycleTypes
<1>3. CycleTypes'
  <2>1. bundle' \in [Names -> Int]
    BY <1>1
  <2>2. DOMAIN verdict' = {"rule", "breached"} /\ verdict'.rule \in Nat
    BY <1>1
  <2>3. moved' \in BOOLEAN
    BY <1>1, Zenon
  <2>4. pc' \in {"idle", "collect", "alerts"} /\ index' \in Nat \ {0}
        /\ cur' \in Policies \cup {Nothing} /\ lost' \subseteq Names /\ got' \subseteq Names
    BY <1>1
  <2>5. /\ world' \in [Policies -> UNION {Worlds[q] : q \in Policies}]
        /\ \A q \in Policies : world'[q] \in Worlds[q]
        /\ moves' \in 0 .. MaxMoves
    BY <1>1 DEF CycleTypes
  <2> QED BY <1>2, <2>1, <2>2, <2>3, <2>4, <2>5, Zenon DEF CycleTypes
<1>4. BundleOf(p, world[p], [n \in Names |-> 0], {}, {}, 1)
  <2>1. \A i \in DOMAIN Plugins[p] : ~(i < 1)
    BY AlertingAssumption
  <2> QED BY <2>1 DEF BundleOf
<1>5. BundleTrue'
  BY <1>1, <1>4 DEF BundleTrue
<1>6. VerdictInv'
  BY <1>1 DEF VerdictInv
<1> QED BY <1>3, <1>5, <1>6

LEMMA CollectSignals ==
  ASSUME CycleTypes, BundleTrue, cur \in Policies, Collect
  PROVE  CycleTypes' /\ BundleTrue' /\ VerdictInv'
<1> DEFINE k == index
<1>1. k \in DOMAIN Plugins[cur] /\ world[cur] \in Worlds[cur] /\ pc # "idle"
  BY AlertingAssumption DEF Collect, CycleTypes
<1>2. PICK o \in Outcomes(Plugins[cur][k], world[cur]) :
        /\ IF o.ok /\ o.lost = {} THEN UNCHANGED faults ELSE Fault
        /\ bundle' = [n \in Names |-> IF n \in DOMAIN o.writes THEN o.writes[n] ELSE bundle[n]]
        /\ lost' = lost \cup o.lost
        /\ got' = (got \ DOMAIN o.writes) \cup (DOMAIN o.writes \ o.lost)
        /\ pc' = IF ~o.ok /\ Plugins[cur][k].required THEN "idle" ELSE "collect"
  BY Zenon DEF Collect, Merged
<1>3. /\ index' = k + 1
      /\ UNCHANGED <<world, cur, moved, verdict, moves>>
  BY DEF Collect
<1>4. faults' \in 0 .. MaxFaults
  BY <1>2, FaultTyped DEF CycleTypes
<1>5. pc' \in {"idle", "collect"}
  BY <1>2
<1>6. bundle \in [Names -> Int]
  BY DEF CycleTypes
<1>7. ASSUME ~moved
      PROVE  BundleOf(cur, world[cur], bundle', got', lost', k + 1)
  <2>1. BundleOf(cur, world[cur], bundle, got, lost, k)
    BY <1>1, <1>7 DEF BundleTrue
  <2> QED BY <1>1, <1>2, <1>6, <2>1, CollectedOnce
<1>8. bundle' \in [Names -> Int] /\ lost' \subseteq Names /\ got' \subseteq Names
  <2>1. Faithful(o, Provides(Plugins[cur][k]), world[cur])
    BY <1>1, PluginsTyped, OutcomesAreFaithful
  <2>2. /\ o.lost \subseteq Names /\ DOMAIN o.writes \subseteq Names
        /\ \A n \in DOMAIN o.writes : o.writes[n] \in Int
    BY <1>1, <2>1, PluginsTyped DEF Faithful
  <2>3. lost \subseteq Names /\ got \subseteq Names
    BY DEF CycleTypes
  <2> QED BY <1>2, <1>6, <2>2, <2>3
<1>9. CycleTypes'
  <2>1. k + 1 \in Nat \ {0}
    BY DEF CycleTypes
  <2> QED BY <1>3, <1>4, <1>5, <1>8, <2>1 DEF CycleTypes
<1>10. BundleTrue'
  BY <1>3, <1>7 DEF BundleTrue
<1>11. VerdictInv'
  BY <1>5 DEF VerdictInv
<1> QED BY <1>9, <1>10, <1>11

LEMMA JudgeSignals ==
  ASSUME CycleTypes, BundleTrue, cur \in Policies, Judge
  PROVE  CycleTypes' /\ BundleTrue' /\ VerdictInv'
<1>1. /\ pc = "collect" /\ pc' = "alerts" /\ index > Len(Plugins[cur])
      /\ verdict' = VerdictOf
      /\ UNCHANGED <<world, cur, index, bundle, lost, got, moved, moves, faults>>
  BY DEF Judge, VerdictOf
<1>2. Firing \in Nat
  BY FirstMatchWins
<1>3. DOMAIN verdict' = {"rule", "breached"} /\ verdict'.rule \in Nat
  BY <1>1, <1>2 DEF VerdictOf
<1>4. CycleTypes'
  BY <1>1, <1>3 DEF CycleTypes
<1>5. BundleTrue'
  BY <1>1 DEF BundleTrue
<1>6. VerdictInv'
  BY <1>1 DEF VerdictInv, VerdictOf, Firing
<1> QED BY <1>4, <1>5, <1>6

LEMMA MoveSignals ==
  ASSUME CycleTypes, BundleTrue, VerdictInv, NEW p \in Policies, Move(p)
  PROVE  CycleTypes' /\ BundleTrue' /\ VerdictInv'
<1>1. /\ UNCHANGED <<pc, cur, index, bundle, lost, got, verdict, faults>>
      /\ moves < MaxMoves /\ moves' = moves + 1
  BY DEF Move
<1>2. moved' = (moved \/ (pc # "idle" /\ p = cur))
  BY DEF Move
<1>3. PICK w \in Worlds[p] : world' = [world EXCEPT ![p] = w]
  BY DEF Move
<1>4. /\ world' \in [Policies -> UNION {Worlds[q] : q \in Policies}]
      /\ \A q \in Policies : world'[q] \in Worlds[q]
      /\ \A q \in Policies \ {p} : world'[q] = world[q]
  BY <1>3 DEF CycleTypes
<1>5. CycleTypes'
  <2>1. moved' \in BOOLEAN
    BY <1>2, Zenon DEF CycleTypes
  <2>2. moves' \in 0 .. MaxMoves
    BY <1>1, AlertingAssumption DEF CycleTypes
  <2> QED BY <1>1, <1>4, <2>1, <2>2 DEF CycleTypes
<1>6. BundleTrue'
  <2> SUFFICES ASSUME pc # "idle", ~moved'
               PROVE  BundleOf(cur, world'[cur], bundle, got, lost, index)
    BY <1>1 DEF BundleTrue
  <2>1. ~moved /\ p # cur
    BY <1>2, Zenon
  <2>2. BundleOf(cur, world[cur], bundle, got, lost, index)
    BY <2>1 DEF BundleTrue
  <2>3. world'[cur] = world[cur]
    BY <1>3, <2>1 DEF CycleTypes
  <2> QED BY <2>2, <2>3
<1>7. VerdictInv'
  BY <1>1 DEF VerdictInv, VerdictOf, Firing
<1> QED BY <1>5, <1>6, <1>7

LEMMA SignalNext == ASSUME SignalInv, [Next]_vars PROVE SignalInv'
<1>1. CycleTypes /\ BundleTrue /\ VerdictInv /\ AlertInv' /\ (pc # "idle" => cur \in Policies)
  BY NextInv DEF SignalInv, AlertInv, AlertTypes
<1>2. CASE \E p \in Policies : Begin(p)
  BY <1>1, <1>2, BeginSignals DEF SignalInv
<1>3. CASE Collect
  <2>1. cur \in Policies
    BY <1>1, <1>3 DEF Collect
  <2> QED BY <1>1, <1>3, <2>1, CollectSignals DEF SignalInv
<1>4. CASE Judge
  <2>1. cur \in Policies
    BY <1>1, <1>4 DEF Judge
  <2> QED BY <1>1, <1>4, <2>1, JudgeSignals DEF SignalInv
<1>5. CASE EvaluateAlerts \/ EndEarly
  <2>1. UNCHANGED <<world, cycle, moves, faults>> /\ pc' = "idle"
    BY <1>5 DEF EvaluateAlerts, EndEarly
  <2>2. faults' \in 0 .. MaxFaults
    BY <1>1, <2>1 DEF CycleTypes
  <2> QED BY <1>1, <2>1, <2>2, CycleUntouched DEF SignalInv
<1>6. CASE Tick
  <2>1. UNCHANGED <<world, cycle, pc, moves, faults>>
    BY <1>6 DEF Tick
  <2>2. faults' \in 0 .. MaxFaults
    BY <1>1, <2>1 DEF CycleTypes
  <2> QED BY <1>1, <2>1, <2>2, CycleUntouched DEF SignalInv
<1>7. CASE Restart
  <2>1. /\ pc' = "idle" /\ cur' = Nothing
        /\ UNCHANGED <<world, index, bundle, lost, got, moved, verdict, moves>>
    BY <1>7 DEF Restart
  <2>2. faults' \in 0 .. MaxFaults
    BY <1>1, <1>7, FaultTyped DEF Restart
  <2>3. CycleTypes' /\ BundleTrue' /\ VerdictInv'
    BY <1>1, <2>1, <2>2 DEF CycleTypes, BundleTrue, VerdictInv
  <2> QED BY <1>1, <2>3 DEF SignalInv
<1>8. CASE \E p \in Policies : Move(p)
  BY <1>1, <1>8, MoveSignals DEF SignalInv
<1>9. CASE UNCHANGED vars
  <2>1. UNCHANGED <<world, cycle, pc, moves, faults>>
    BY <1>9 DEF vars, cycle
  <2>2. faults' \in 0 .. MaxFaults
    BY <1>1, <2>1 DEF CycleTypes
  <2> QED BY <1>1, <2>1, <2>2, CycleUntouched DEF SignalInv
<1> QED BY <1>2, <1>3, <1>4, <1>5, <1>6, <1>7, <1>8, <1>9 DEF Next, Worker

-----------------------------------------------------------------------------
(* When every plugin has been asked, each value that can be read from the  *)
(* bundle is one that the services' reports explain.                       *)
Value(n) == IF n \in Names THEN bundle[n] ELSE 0

LEMMA ValuesAreReadings ==
  ASSUME SignalInv, pc = "alerts", ~moved, NEW n
  PROVE  Value(n) \in Readings(cur, n, Gone)
<1>1. cur \in Policies /\ world[cur] \in Worlds[cur] /\ index > Len(Plugins[cur])
      /\ index \in Nat
  BY DEF SignalInv, AlertInv, AlertTypes, CycleTypes, VerdictInv
<1>2. Provided(cur) \subseteq Names
  <2> SUFFICES ASSUME NEW i \in DOMAIN Plugins[cur] PROVE Provides(Plugins[cur][i]) \subseteq Names
    BY DEF Provided
  <2> QED BY <1>1, PluginsTyped
<1>3. CASE n \notin Names
  BY <1>2, <1>3 DEF Value, Readings
<1>4. CASE n \in Names
  <2>1. /\ n \in got => n \in Provided(cur) /\ bundle[n] = world[cur][n]
        /\ n \notin got => bundle[n] = 0 \/ bundle[n] \in Parts(cur, n, world[cur])
        /\ \A i \in DOMAIN Plugins[cur] :
             i < index /\ n \in Provides(Plugins[cur][i]) => n \in got \/ n \in lost
    BY <1>4 DEF SignalInv, BundleTrue, BundleOf
  <2>2. CASE n \notin Provided(cur)
    <3>1. Parts(cur, n, world[cur]) = {}
      <4> SUFFICES ASSUME NEW i \in DOMAIN Plugins[cur],
                          NEW o \in Outcomes(Plugins[cur][i], world[cur])
                   PROVE  n \notin DOMAIN o.writes
        BY DEF Parts
      <4>1. Faithful(o, Provides(Plugins[cur][i]), world[cur])
        BY <1>1, PluginsTyped, OutcomesAreFaithful
      <4>2. Provides(Plugins[cur][i]) \subseteq Provided(cur)
        BY <1>1, PluginsTyped
      <4> QED BY <2>2, <4>1, <4>2 DEF Faithful
    <3> QED BY <1>4, <2>1, <2>2, <3>1 DEF Value, Readings
  <2>3. CASE n \in Provided(cur) /\ n \in Gone
    BY <1>4, <2>1, <2>3 DEF Value, Readings, Gone
  <2>4. CASE n \in Provided(cur) /\ n \notin Gone
    <3>1. PICK i \in DOMAIN Plugins[cur] : n \in Provides(Plugins[cur][i])
      BY <2>4 DEF Provided
    <3>2. i < index
      BY <1>1, PluginsTyped
    <3>3. n \in got
      BY <2>1, <2>4, <3>1, <3>2 DEF Gone
    <3> QED BY <1>4, <2>1, <2>4, <3>3 DEF Value, Readings
  <2> QED BY <2>2, <2>3, <2>4
<1> QED BY <1>3, <1>4

LEMMA MetricsAreValues ==
  ASSUME NEW metric
  PROVE  ResolveMetric(metric, bundle) = Value(Judged(metric))
BY SignalsAssumption DEF ResolveMetric, Value, Judged, Names, Core

LEMMA AlertsAreValues ==
  ASSUME NEW metric
  PROVE  AlertValue(metric, bundle) =
           IF metric = "error_rate" THEN Value(Watched(metric)) * 100 ELSE Value(Watched(metric))
BY SignalsAssumption, AlertingAssumption DEF AlertValue, Value, Watched, Names, Core

LEMMA RulesMeet ==
  ASSUME NEW rule
  PROVE  RuleHolds(rule, bundle) <=> Meets(rule, Value(Judged(rule.metric)))
BY MetricsAreValues DEF RuleHolds, Meets

LEMMA ObjectivesMiss ==
  ASSUME CycleTypes, cur \in Policies, NEW o \in Objectives[cur]
  PROVE  Breached(o, bundle) <=> Misses(o, Value(Judged(o.metric)))
<1> DEFINE v == Value(Judged(o.metric))
<1>1. v \in Int /\ o.target \in Nat
  BY AlertingAssumption DEF Value, CycleTypes
<1>2. ResolveMetric(o.metric, bundle) = v
  BY MetricsAreValues
<1> HIDE DEF v
<1>3. Margin(o, v) < 0 <=> Misses(o, v)
  BY <1>1 DEF Margin, Misses
<1> QED BY <1>2, <1>3 DEF Breached, v

LEMMA SignalsTyped == SignalInv => SignalTypes
<1> SUFFICES ASSUME SignalInv PROVE SignalTypes
  OBVIOUS
<1>1. CycleTypes /\ AlertTypes
  BY DEF SignalInv, AlertInv
<1>2. fired \subseteq Nat /\ (fired # {} => cur \in Policies)
  BY <1>1, AlertingAssumption DEF AlertTypes
<1> QED BY <1>1, <1>2 DEF CycleTypes, AlertTypes, SignalTypes

LEMMA VerdictsFollow == SignalInv => VerdictTrue
<1> SUFFICES ASSUME SignalInv, pc = "alerts", ~moved PROVE VerdictTrue
  BY DEF VerdictTrue
<1> DEFINE rules == RuleBook[cur]
           Seen(metric) == Readings(cur, Judged(metric), Gone)
           r == verdict.rule
<1>1. cur \in Policies /\ CycleTypes /\ verdict = VerdictOf
  BY DEF SignalInv, AlertInv, AlertTypes, VerdictInv
<1>2. /\ r = Firing
      /\ r = 0 => verdict.breached = {o \in Objectives[cur] : Breached(o, bundle)}
  BY <1>1 DEF VerdictOf
<1>3. \A metric : Value(Judged(metric)) \in Seen(metric)
  BY ValuesAreReadings
<1>4. r # 0 => /\ r \in DOMAIN rules
               /\ \E v \in Seen(rules[r].metric) : Meets(rules[r], v)
  <2> SUFFICES ASSUME r # 0
               PROVE  r \in DOMAIN rules /\ \E v \in Seen(rules[r].metric) : Meets(rules[r], v)
    OBVIOUS
  <2>1. r \in DOMAIN rules /\ RuleHolds(rules[r], bundle)
    BY <1>1, <1>2, FirstMatchWins
  <2>2. Meets(rules[r], Value(Judged(rules[r].metric)))
    BY <2>1, RulesMeet
  <2> QED BY <1>3, <2>1, <2>2
<1>5. ASSUME NEW i \in DOMAIN rules, r = 0 \/ i < r
      PROVE  \E v \in Seen(rules[i].metric) : ~Meets(rules[i], v)
  <2>1. ~RuleHolds(rules[i], bundle)
    BY <1>1, <1>2, <1>5, FirstMatchWins
  <2>2. ~Meets(rules[i], Value(Judged(rules[i].metric)))
    BY <2>1, RulesMeet
  <2> QED BY <1>3, <2>2
<1>6. ASSUME r = 0, NEW o \in Objectives[cur]
      PROVE  \E v \in Seen(o.metric) : Misses(o, v) <=> o \in verdict.breached
  <2>1. Misses(o, Value(Judged(o.metric))) <=> o \in verdict.breached
    BY <1>1, <1>2, <1>6, ObjectivesMiss
  <2> QED BY <1>3, <2>1
<1> QED BY <1>4, <1>5, <1>6 DEF VerdictTrue

LEMMA EvaluationFollows ==
  ASSUME SignalInv, EvaluateAlerts, ~moved,
         NEW i \in DOMAIN AlertRules[cur], \A j \in Namesakes(i) : j <= i
  PROVE  \E v \in Readings(cur, Watched(Rule(i).metric), Gone) :
           Alarms(Rule(i), v) <=> active'[Rule(i).name] # Nothing
<1> DEFINE v == Value(Watched(Rule(i).metric))
<1>1. cur \in Policies /\ pc = "alerts" /\ AlertInv
  BY DEF SignalInv, AlertInv, AlertTypes, EvaluateAlerts
<1>2. v \in Readings(cur, Watched(Rule(i).metric), Gone)
  BY <1>1, ValuesAreReadings
<1>3. active'[Rule(i).name] = Age(i)
  <2>1. Rule(i).name \in Alerts /\ Last(Rule(i).name) = i
    BY <1>1, NamesAreAlerts, LastDecides DEF Rule
  <2>2. active' = [n \in Alerts |->
                     IF \E j \in DOMAIN AlertRules[cur] : Rule(j).name = n
                     THEN Age(Last(n)) ELSE active[n]]
    BY DEF EvaluateAlerts
  <2> QED BY <2>1, <2>2
<1>4. active'[Rule(i).name] # Nothing <=> On(i)
  BY <1>1, <1>3, AgeFacts
<1>5. On(i) <=> Alarms(Rule(i), v)
  BY AlertsAreValues DEF On, AlertHolds, Alarms
<1> QED BY <1>2, <1>4, <1>5

(* The bundle has a number for every signal, whatever plugins write or     *)
(* leave out, and the entries of the shared map are ages (Bundle,          *)
(* Manager.Collect, Evaluator).                                            *)
THEOREM SignalsAreTyped == Spec => []SignalTypes
BY SignalInit, SignalNext, SignalsTyped, PTL DEF Spec

(* Rules and objectives are judged by what the services report: whatever   *)
(* plugins a policy has and however they fail, no value of another cycle   *)
(* or policy decides, and no value that was got is missing                 *)
(* (Manager.Collect, EvaluateReactiveRules, EvaluateSLOs).                 *)
THEOREM VerdictsAreTrue == Spec => []VerdictTrue
BY SignalInit, SignalNext, VerdictsFollow, PTL DEF Spec

(* An evaluation leaves an alert pending exactly if the reports of this    *)
(* cycle call for it, whatever another policy with a rule of that name has *)
(* left there (Evaluator.Evaluate).                                        *)
THEOREM AlertsAreTrue == Spec => AlertsTrue
<1>1. ASSUME SignalInv, [Next]_vars
      PROVE  [EvaluateAlerts /\ ~moved =>
                \A i \in DOMAIN AlertRules[cur] :
                  (\A j \in Namesakes(i) : j <= i) =>
                    \E v \in Readings(cur, Watched(Rule(i).metric), Gone) :
                      Alarms(Rule(i), v) <=> active'[Rule(i).name] # Nothing]_vars
  BY <1>1, EvaluationFollows
<1> QED BY <1>1, SignalInit, SignalNext, PTL DEF Spec, AlertsTrue
=============================================================================
