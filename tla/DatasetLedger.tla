---------------------------- MODULE DatasetLedger ----------------------------
(***************************************************************************)
(* What the nightly update keeps between its processes, whoever runs and   *)
(* whoever dies (ops/post_close_job_store.py, and the end of the data set  *)
(* in risk_config.yaml): PostCloseUpdate implements it.                    *)
(*                                                                         *)
(* A job belongs to the evening it was opened in.  Only in that evening    *)
(* may it be settled, once, or move the data set, to its own evening; it   *)
(* passes when the data set has got there.  A job whose process died stays *)
(* open and does nothing more.                                             *)
(***************************************************************************)
EXTENDS Naturals

CONSTANTS
  Job,      \* ids of jobs
  Outcome   \* how a job may end; "PASS" is one way

VARIABLES
  today,    \* the evening
  target,   \* per job opened: its evening
  status,   \* per job opened: "RUNNING", or how it ended
  gate      \* the end of the data set

lvars == <<today, target, status, gate>>

Opened == DOMAIN status

Init ==
  /\ today = 1 /\ gate = 0
  /\ target = [j \in {} |-> 0] /\ status = [j \in {} |-> "RUNNING"]

With(f, j, v) == [k \in DOMAIN f \cup {j} |-> IF k = j THEN v ELSE f[k]]

Open(j) ==
  /\ j \notin Opened
  /\ target' = With(target, j, today) /\ status' = With(status, j, "RUNNING")
  /\ UNCHANGED <<today, gate>>

UnderWay(j) == j \in Opened /\ status[j] = "RUNNING" /\ target[j] = today

Promote(j) ==
  /\ UnderWay(j)
  /\ gate' = target[j]
  /\ UNCHANGED <<today, target, status>>

Settle(j, outcome) ==
  /\ UnderWay(j)
  /\ outcome = "PASS" => gate = target[j]
  /\ status' = With(status, j, outcome)
  /\ UNCHANGED <<today, target, gate>>

NextEvening ==
  /\ today' = today + 1
  /\ UNCHANGED <<target, status, gate>>

Next ==
  \/ \E j \in Job : Open(j) \/ Promote(j) \/ \E outcome \in Outcome : Settle(j, outcome)
  \/ NextEvening

Spec == Init /\ [][Next]_lvars

\* The data set ends where a job of the table has brought it, no later than
\* today, and nowhere short of a job that says it passed.
GateAccounted ==
  /\ gate <= today
  /\ gate = 0 \/ \E j \in Opened : target[j] = gate
  /\ \A j \in Opened : status[j] = "PASS" => target[j] <= gate

\* The data set never loses days, a job that has ended never says anything
\* else, and one left open by an earlier evening is never taken for done.
NothingTakenBack ==
  [][/\ gate' >= gate
     /\ \A j \in Opened :
          /\ j \in Opened' /\ target'[j] = target[j]
          /\ status[j] # "RUNNING" \/ target[j] # today => status'[j] = status[j]]_lvars
=============================================================================
