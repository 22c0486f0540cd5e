------------------------------ MODULE Alerting ------------------------------
(***************************************************************************)
(* From signals to verdicts: each cycle of a policy runs its plugins one   *)
(* after the other into a new bundle (Manager.Collect), judges reactive    *)
(* rules and objectives (fetchDecision) and, if it gets so far, evaluates  *)
(* the alert rules (evaluateAlerts) with the one Evaluator of the process, *)
(* while the services change what they report.  The decision in between is *)
(* in Reconciler.                                                          *)
(***************************************************************************)
EXTENDS Signals

CONSTANTS
  Policies,
  Plugins,     \* of a policy: a sequence of plugins
  RuleBook,    \* its reactive rules: a sequence
  Objectives,  \* its SLOs: a set
  AlertRules,  \* its alert rules: a sequence
  Worlds,      \* what the services may report about it
  MaxAge,      \* caps durations
  MaxMoves,    \* bounds how often the services change what they report
  MaxFaults,   \* bounds failures, lost signals and restarts
  Nothing

Ages == 0 .. MaxAge
Alerts == UNION {{AlertRules[p][i].name : i \in DOMAIN AlertRules[p]} : p \in Policies}

ASSUME AlertingAssumption ==
  /\ MaxAge \in Nat /\ MaxMoves \in Nat /\ MaxFaults \in Nat
  /\ Nothing \notin Ages /\ Nothing \notin Policies /\ Nothing \notin Names
  /\ \A p \in Policies :
       /\ \A s \in {Plugins[p], RuleBook[p], AlertRules[p]} :
            Len(s) \in Nat /\ DOMAIN s = 1 .. Len(s)
       /\ \A i \in DOMAIN AlertRules[p] : AlertRules[p][i].for \in Ages
       /\ \A o \in Objectives[p] : o.target \in Nat
       /\ Worlds[p] \subseteq [Names -> Int]
       /\ \A i \in DOMAIN Plugins[p] :
            IsPlugin(Plugins[p][i]) /\ \A w \in Worlds[p] : Agrees(Plugins[p][i], w)

VARIABLES
  world,   \* what the services report now
  pc,      \* the step of the cycle that is next
  cur,     \* the policy of the cycle
  index,   \* the plugin that is next
  bundle,
  lost,    \* history: the signals that a plugin of this cycle did not get
  got,     \* history: those of which the bundle has the whole value
  moved,   \* history: the services changed while it ran
  verdict, \* the reactive rule that fires, and the breached objectives
  active,  \* activeAlerts: the age of a pending alert
  since,   \* history: how long a rule has held at every evaluation of its own
  fired,   \* the alert rules that fired in this cycle
  moves, faults

vars == <<world, pc, cur, index, bundle, lost, got, moved, verdict, active, since,
          fired, moves, faults>>
cycle == <<cur, index, bundle, lost, got, moved, verdict>>
alarms == <<active, since, fired>>

NoVerdict == [rule |-> 0, breached |-> {}]

Init ==
  /\ world \in [Policies -> UNION {Worlds[p] : p \in Policies}]
  /\ \A p \in Policies : world[p] \in Worlds[p]
  /\ pc = "idle" /\ cur = Nothing /\ index = 1
  /\ bundle = NewBundle /\ lost = {} /\ got = {} /\ moved = FALSE /\ verdict = NoVerdict
  /\ active = [n \in Alerts |-> Nothing]
  /\ since = [p \in Policies |-> [i \in DOMAIN AlertRules[p] |-> Nothing]]
  /\ fired = {}
  /\ moves = 0 /\ faults = 0

Fault == faults < MaxFaults /\ faults' = faults + 1

-----------------------------------------------------------------------------
(* A fault variant: the manager outlives the cycle, with its bundle.       *)
FreshKept == bundle

(* Collect starts from an empty bundle.                                    *)
Fresh == NewBundle

(* NewManager; a plugin that cannot be set up, or whose secret cannot be   *)
(* read, fails the cycle whether it is required or not.                    *)
Begin(p) ==
  /\ pc = "idle"
  /\ \/ pc' = "collect" /\ UNCHANGED faults
     \/ Fault /\ UNCHANGED pc
  /\ cur' = p /\ index' = 1
  /\ bundle' = Fresh /\ lost' = {} /\ got' = {} /\ moved' = FALSE
  /\ verdict' = NoVerdict /\ fired' = {}
  /\ UNCHANGED <<world, active, since, moves>>

(* A fault variant: a plugin that writes replaces the map.                 *)
MergedAlone(writes) == writes

Merged(writes) == [n \in Names |-> IF n \in DOMAIN writes THEN writes[n] ELSE bundle[n]]

(* The next plugin.  What a plugin does not get counts as a fault; it ends *)
(* the cycle only if the plugin returned an error and is required.         *)
Collect ==
  /\ pc = "collect" /\ index <= Len(Plugins[cur])
  /\ LET x == Plugins[cur][index]
     IN  \E o \in Outcomes(x, world[cur]) :
           /\ IF o.ok /\ o.lost = {} THEN UNCHANGED faults ELSE Fault
           /\ bundle' = Merged(o.writes)
           /\ lost' = lost \cup o.lost
           /\ got' = (got \ DOMAIN o.writes) \cup (DOMAIN o.writes \ o.lost)
           /\ pc' = IF ~o.ok /\ x.required THEN "idle" ELSE "collect"
  /\ index' = index + 1
  /\ UNCHANGED <<world, cur, moved, verdict, alarms, moves>>

(* EvaluateReactiveRules: the first that holds.                            *)
Firing ==
  LET rules == RuleBook[cur]
      held == {i \in DOMAIN rules : RuleHolds(rules[i], bundle)}
  IN  IF held = {} THEN 0 ELSE CHOOSE i \in held : \A j \in held : i <= j

(* fetchDecision: a rule that fires keeps the objectives from being        *)
(* evaluated (the default precedence).                                     *)
Judge ==
  /\ pc = "collect" /\ index > Len(Plugins[cur])
  /\ verdict' = [rule |-> Firing,
                 breached |-> IF Firing # 0 THEN {}
                              ELSE {o \in Objectives[cur] : Breached(o, bundle)}]
  /\ pc' = "alerts"
  /\ UNCHANGED <<world, cur, index, bundle, lost, got, moved, alarms, moves, faults>>

-----------------------------------------------------------------------------
(* Evaluator.Evaluate goes through the rules in turn.  Age(i) is what it   *)
(* keeps under the name of rule i when it is done with it: a condition     *)
(* that does not hold takes the entry away, and an earlier rule of the     *)
(* same name may have done so.                                             *)

Rule(i) == AlertRules[cur][i]
Namesakes(i) == {j \in DOMAIN AlertRules[cur] : Rule(j).name = Rule(i).name}
On(i) == AlertHolds(Rule(i), bundle)

(* A fault variant: a condition that does not hold leaves the entry.       *)
AgeKept(i) ==
  IF active[Rule(i).name] # Nothing THEN active[Rule(i).name]
  ELSE IF On(i) THEN 0 ELSE Nothing

(* A fault variant: every evaluation restarts the clock.                   *)
AgeRestarted(i) == IF On(i) THEN 0 ELSE Nothing

Age(i) ==
  IF ~On(i) THEN Nothing
  ELSE IF /\ active[Rule(i).name] # Nothing
          /\ \A j \in Namesakes(i) : j < i => On(j)
       THEN active[Rule(i).name]
       ELSE 0

Last(n) ==
  CHOOSE i \in DOMAIN AlertRules[cur] :
    /\ Rule(i).name = n
    /\ \A j \in Namesakes(i) : j <= i

EvaluateAlerts ==
  /\ pc = "alerts"
  /\ pc' = "idle"
  /\ active' = [n \in Alerts |->
                  IF \E i \in DOMAIN AlertRules[cur] : Rule(i).name = n
                  THEN Age(Last(n)) ELSE active[n]]
  /\ fired' = {i \in DOMAIN AlertRules[cur] : On(i) /\ Age(i) >= Rule(i).for}
  /\ since' = [since EXCEPT ![cur] = [i \in DOMAIN @ |->
                 IF ~On(i) THEN Nothing
                 ELSE IF @[i] = Nothing THEN 0 ELSE @[i]]]
  /\ UNCHANGED <<world, cycle, moves, faults>>

(* A hold of the cooldown, a deferral or an error on the way: the cycle    *)
(* does not reach its alert rules.                                         *)
EndEarly ==
  /\ pc = "alerts"
  /\ pc' = "idle"
  /\ UNCHANGED <<world, cycle, alarms, moves, faults>>

-----------------------------------------------------------------------------
Older(a) == IF a = Nothing \/ a = MaxAge THEN a ELSE a + 1

Tick ==
  /\ active' = [n \in Alerts |-> Older(active[n])]
  /\ since' = [p \in Policies |-> [i \in DOMAIN since[p] |-> Older(since[p][i])]]
  /\ UNCHANGED <<world, pc, cycle, fired, moves, faults>>

Move(p) ==
  /\ moves < MaxMoves /\ moves' = moves + 1
  /\ \E w \in Worlds[p] \ {world[p]} : world' = [world EXCEPT ![p] = w]
  /\ moved' = (moved \/ (pc # "idle" /\ p = cur))
  /\ UNCHANGED <<pc, cur, index, bundle, lost, got, verdict, alarms, faults>>

(* The process starts again: activeAlerts is empty.                        *)
Restart ==
  /\ Fault
  /\ pc' = "idle" /\ cur' = Nothing /\ fired' = {}
  /\ active' = [n \in Alerts |-> Nothing]
  /\ UNCHANGED <<world, index, bundle, lost, got, moved, verdict, since, moves>>

Worker ==
  \/ Collect \/ Judge \/ EvaluateAlerts \/ EndEarly
  \/ \E p \in Policies : Begin(p)

Next == Worker \/ Tick \/ Restart \/ \E p \in Policies : Move(p)

Spec == Init /\ [][Next]_vars

(* Time passes, the worker runs, every policy has its turn (NeverForgotten *)
(* in ReconcilerProperties) and not every cycle of it is held.             *)
FairSpec ==
  /\ Spec /\ WF_vars(Worker) /\ WF_vars(Tick)
  /\ \A p \in Policies :
       SF_vars(Begin(p)) /\ SF_vars(cur = p /\ EvaluateAlerts)
=============================================================================
