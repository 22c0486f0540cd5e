------------------------- MODULE AlertingProperties -------------------------
(***************************************************************************)
(* What policies and their users may conclude from verdicts and alerts,    *)
(* with plugins that fail, stay silent or answer while the services move.  *)
(***************************************************************************)
EXTENDS Alerting

Duration == Ages \cup {Nothing}

(* Every variable stays within its type; the bundle has a number for each  *)
(* signal whatever the plugins wrote (Bundle, Evaluator).                  *)
SignalTypes ==
  /\ world \in [Policies -> UNION {Worlds[p] : p \in Policies}]
  /\ pc \in {"idle", "collect", "alerts"}
  /\ cur \in Policies \cup {Nothing}
  /\ pc # "idle" => cur \in Policies
  /\ index \in Nat \ {0}
  /\ bundle \in [Names -> Int]
  /\ lost \subseteq Names /\ got \subseteq Names
  /\ moved \in BOOLEAN
  /\ DOMAIN verdict = {"rule", "breached"} /\ verdict.rule \in Nat
  /\ active \in [Alerts -> Duration]
  /\ DOMAIN since = Policies
  /\ \A p \in Policies : since[p] \in [DOMAIN AlertRules[p] -> Duration]
  /\ fired \subseteq Nat /\ (fired # {} => cur \in Policies)
  /\ moves \in 0 .. MaxMoves /\ faults \in 0 .. MaxFaults

-----------------------------------------------------------------------------
(* What the bundle may say of a signal n of p while the services report    *)
(* world[p]: 0 if no plugin reads it, the report if the cycle got it, and  *)
(* 0 or what a plugin makes of a part of it if it is gone.                 *)

Provided(p) == UNION {Provides(Plugins[p][i]) : i \in DOMAIN Plugins[p]}

Parts(p, n, w) ==
  LET answers == UNION {Outcomes(Plugins[p][i], w) : i \in DOMAIN Plugins[p]}
  IN  {o.writes[n] : o \in {a \in answers : n \in DOMAIN a.writes \cap a.lost}}

Readings(p, n, gone) ==
  IF n \notin Provided(p) THEN {0}
  ELSE IF n \in gone THEN {0} \cup Parts(p, n, world[p])
  ELSE {world[p][n]}

Gone == lost \ got

(* The signals that rules and objectives, and alert rules, name.           *)
Judged(metric) == IF metric = "p99_latency" THEN "p95_latency" ELSE metric

Watched(metric) ==
  CASE metric = "cpu"    -> "cpu_utilization"
    [] metric = "memory" -> "memory_utilization"
    [] metric \in {"cpu_utilization", "memory_utilization"} -> Nothing
    [] OTHER             -> metric

Meets(rule, v) ==
  IF rule.op = "!=" THEN v # rule.threshold ELSE Holds(rule.op, v, rule.threshold)

Misses(o, v) ==
  IF o.target = 0 THEN v # 0
  ELSE IF o.metric = "availability" THEN v < o.target ELSE v > o.target

(* Alert rules on the error rate are in percent.                           *)
Alarms(rule, v) ==
  /\ rule.wellFormed
  /\ Holds(rule.op, IF rule.metric = "error_rate" THEN v * 100 ELSE v, rule.threshold)

(* Unless the services changed during the cycle, each reactive rule and    *)
(* each objective is judged by what they report about its metric: no value *)
(* is left over from another cycle or policy, and none is missing that the *)
(* cycle got, however plugins fail halfway (Manager.Collect, EvaluateSLOs, *)
(* EvaluateReactiveRules).                                                 *)
VerdictTrue ==
  pc = "alerts" /\ ~moved =>
    LET rules == RuleBook[cur]
        Seen(metric) == Readings(cur, Judged(metric), Gone)
    IN  /\ verdict.rule # 0 =>
             /\ verdict.rule \in DOMAIN rules
             /\ \E v \in Seen(rules[verdict.rule].metric) : Meets(rules[verdict.rule], v)
        /\ \A i \in DOMAIN rules :
             verdict.rule = 0 \/ i < verdict.rule =>
               \E v \in Seen(rules[i].metric) : ~Meets(rules[i], v)
        /\ verdict.rule = 0 =>
             \A o \in Objectives[cur] :
               \E v \in Seen(o.metric) : Misses(o, v) <=> o \in verdict.breached

(* No other rule has the name of rule i of p.                              *)
Alone(p, i) ==
  \A q \in Policies : \A j \in DOMAIN AlertRules[q] :
    AlertRules[q][j].name = AlertRules[p][i].name => q = p /\ j = i

(* Unless the services changed during the cycle, its evaluation leaves an  *)
(* alert pending exactly if what they report calls for it, whatever a rule *)
(* of that name in another policy left there; of the rules of a policy     *)
(* with one name the last decides.  A lost signal counts as 0 and clears   *)
(* an alert on a high value (Evaluate).                                    *)
AlertsTrue ==
  [][EvaluateAlerts /\ ~moved =>
       \A i \in DOMAIN AlertRules[cur] :
         (\A j \in Namesakes(i) : j <= i) =>
           \E v \in Readings(cur, Watched(Rule(i).metric), Gone) :
             Alarms(Rule(i), v) <=> active'[Rule(i).name] # Nothing]_vars

(* An alert whose name no other rule has fires only if its condition held  *)
(* at every evaluation of its own for at least its duration: cycles of     *)
(* other policies, cycles that end early and restarts do not make it       *)
(* older.  Of two rules with one name, one ages the other (evaluator.go).  *)
AlertGrounded ==
  \A i \in fired :
    Alone(cur, i) => since[cur][i] # Nothing /\ since[cur][i] >= AlertRules[cur][i].for

Called(p, rule) == \A v \in Readings(p, Watched(rule.metric), {}) : Alarms(rule, v)

(* While its condition lasts, such an alert fires again and again; holes   *)
(* in the signals and restarts only delay it.                              *)
AlertsFire ==
  \A p \in Policies : \A i \in DOMAIN AlertRules[p] :
    Alone(p, i) => (<>[]Called(p, AlertRules[p][i]) => []<>(cur = p /\ i \in fired))
=============================================================================
