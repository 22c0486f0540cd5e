----------------------------- MODULE Rollbacks -----------------------------
(***************************************************************************)
(* What the rollbacks of checkRollback rest on: the reconcile loop, with   *)
(* the history of what every workload has really run and of what was       *)
(* written to the audit store.  History is only written, so it changes     *)
(* nothing of what the loop does.                                          *)
(***************************************************************************)
EXTENDS ReconcilerProperties

VARIABLES
  had,       \* had[w]: the replica counts w has had
  written    \* written[w]: the last records written for w, newest first

histVars == <<had, written>>

Running(w) == {dep[d].status : d \in {e \in Deployments : Workload[e] = w}}

HistoryInit ==
  /\ had = [w \in Workloads |-> Running(w)]
  /\ written = [w \in Workloads |-> <<>>]

(* The audit store takes the record of the cycle in progress.              *)
Recorded(w) ==
  /\ pc = "recordAudit" /\ w = Workload[obj.spec.target]
  /\ auditSynced[w] /\ ~auditSynced'[w]

(* The newest of the records the store has room for.                       *)
Remembered(records) ==
  SubSeq(records, 1, IF Len(records) < AuditSize THEN Len(records) ELSE AuditSize)

HistoryNext ==
  /\ had' = [w \in Workloads |-> had[w] \cup Running(w)']
  /\ written' =
       LET step == [from |-> cyc.current, to |-> cyc.validated,
                    live |-> ~obj.spec.dryRun]
       IN  [w \in Workloads |->
              IF Recorded(w) THEN Remembered(<<step>> \o written[w])
                             ELSE written[w]]

HistorySpec ==
  Init /\ HistoryInit /\ [][Next /\ HistoryNext]_<<vars, histVars>>

(* Rollback: safety never asks for a count the workload has not had; 0 is  *)
(* what a cycle believes it had whose metrics plugin failed.  (A record is *)
(* written whether or not anything was patched, from an informer that may  *)
(* be late, and may be read cycles and restarts later.)                    *)
RollbackGrounded ==
  Decided /\ cyc.cand["safety"] # NoDecision
    => cyc.cand["safety"].target \in had[Workload[obj.spec.target]] \cup {0}

(* The places in a history of the scalings that led to a count.            *)
LedTo(history, n) ==
  {i \in DOMAIN history : /\ history[i].to = n /\ history[i].from # n
                          /\ history[i].live}

(* An audit list that is not behind asks for the count before the latest   *)
(* written scaling to the present one.                                     *)
LatestUndone ==
  LET history == written[Workload[obj.spec.target]]
      led == LedTo(history, cyc.current)
  IN  /\ pc = "checkRollback" /\ pc' = "resolveTentative"
      /\ auditSynced[Workload[obj.spec.target]]
      /\ cyc'.cand["safety"] # cyc.cand["safety"]
      => \E i \in led : /\ \A j \in led : i <= j
                        /\ cyc'.cand["safety"].target = history[i].from

(* Rollback: unless the informer is late, it is the latest written scaling *)
(* to the present count that is undone, whatever was written and pruned    *)
(* since.                                                                  *)
UndoesTheLatest == [][LatestUndone]_<<vars, histVars>>
=============================================================================
