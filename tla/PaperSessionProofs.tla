------------------------- MODULE PaperSessionProofs -------------------------
(***************************************************************************)
(* Proofs about PaperSession, for any number of sessions, cycles and       *)
(* orders, with Kafka required or not.                                     *)
(***************************************************************************)
EXTENDS PaperSession, TLAPS

(***************************************************************************)
(* One worker.  Under OneWorker a Start can only find dead threads, and    *)
(* the last step of a worker is the one that releases the session.         *)
(* Progress says which cycle a worker is in.                               *)
(***************************************************************************)
Progress ==
  /\ running => current \in Session
  /\ \A s \in Session :
    /\ pc[s] = "sleep" => cycle[s] < Cycles
    /\ pc[s] \in {"none", "dead", "init", "starting"} => cycle[s] = 0
    /\ pc[s] \in Trading \ {"init", "starting"} => cycle[s] \in Cycle

WorkerInv == TypeOK /\ OneWorker /\ Progress

\* No thread exists initially.
LEMMA InitWorkerInv == Init => WorkerInv
<1> USE ConstantsAssumption
<1> SUFFICES ASSUME Init PROVE WorkerInv
  OBVIOUS
<1>1. TypeOK
  <2>1. running \in BOOLEAN /\ stopEvent \in BOOLEAN /\ doubtful \in BOOLEAN
    BY Zenon DEF Init
  <2> QED
    BY <2>1 DEF Init, TypeOK, Alive, Trading, Wrapping, Verdicts, Terminal, Cycle
<1>2. OneWorker /\ Progress
  BY DEF Init, OneWorker, Progress, Alive, Trading, Wrapping
<1> QED
  BY <1>1, <1>2 DEF WorkerInv

\* The flags stay Boolean.
LEMMA NextFlags ==
  ASSUME running \in BOOLEAN, stopEvent \in BOOLEAN, doubtful \in BOOLEAN, [Next]_vars
  PROVE  running' \in BOOLEAN /\ stopEvent' \in BOOLEAN /\ doubtful' \in BOOLEAN
<1>1. ASSUME NEW r \in BOOLEAN, Handed(r) \/ Refused \/ Flushed \/ FlushRaises
      PROVE  doubtful' \in BOOLEAN
  BY <1>1, Zenon DEF Handed, Refused, Flushed, FlushRaises
<1>2. ASSUME NEW s \in Session, Trade(s)
      PROVE  running' \in BOOLEAN /\ stopEvent' \in BOOLEAN /\ doubtful' \in BOOLEAN
  <2>1. running' = running /\ stopEvent' = stopEvent
    BY <1>2, Zenon DEF Trade, Preflight, Started, StartedFlush, RunOnce, Decide, DecideFlush, Submit, Tally,
       Publish, Sleep, object
  <2>2. doubtful' \in BOOLEAN
    BY <1>1, <1>2, Zenon DEF Trade, Preflight, Started, StartedFlush, RunOnce, Decide, DecisionHanded,
       DecideFlush, Submit, Tally, Publish, Sleep
  <2> QED
    BY <2>1, <2>2
<1>3. ASSUME NEW s \in Session, WrapUp(s)
      PROVE  running' \in BOOLEAN /\ stopEvent' \in BOOLEAN /\ doubtful' \in BOOLEAN
  <2>1. running' \in BOOLEAN /\ stopEvent' = stopEvent
    BY <1>3, Zenon DEF WrapUp, WriteReport, Settle, Announce, FinalFlush, Failing, AnnounceFailed,
       FailedFlush, Ending, object
  <2>2. doubtful' \in BOOLEAN
    BY <1>1, <1>3, Zenon DEF WrapUp, WriteReport, Settle, Announce, FinalFlush, Failing,
       AnnounceFailed, FailedFlush, Ending
  <2> QED
    BY <2>1, <2>2
<1>4. ASSUME NEW s \in Session, Start(s) \/ StartFails(s)
      PROVE  running' \in BOOLEAN /\ stopEvent' \in BOOLEAN /\ doubtful' \in BOOLEAN
  BY <1>1, <1>4, Zenon DEF Start, StartFails, Fresh
<1>5. ASSUME Stop \/ Shutdown
      PROVE  running' \in BOOLEAN /\ stopEvent' \in BOOLEAN /\ doubtful' \in BOOLEAN
  BY <1>1, <1>5, Zenon DEF Stop, Shutdown, StopFlags
<1>6. ASSUME Exit
      PROVE  running' \in BOOLEAN /\ stopEvent' \in BOOLEAN /\ doubtful' \in BOOLEAN
  BY <1>6, Zenon DEF Exit
<1>7. ASSUME UNCHANGED vars
      PROVE  running' \in BOOLEAN /\ stopEvent' \in BOOLEAN /\ doubtful' \in BOOLEAN
  BY <1>7, Zenon DEF vars, object
<1> QED
  BY <1>2, <1>3, <1>4, <1>5, <1>6, <1>7, Zenon DEF Next, Worker

\* So does the flag kept per session.
LEMMA NextStopped ==
  ASSUME stopped \in [Session -> BOOLEAN], stopEvent \in BOOLEAN, [Next]_vars
  PROVE  stopped' \in [Session -> BOOLEAN]
<1>1. \/ stopped' = stopped
      \/ \E s \in Session : stopped' = [stopped EXCEPT ![s] = stopEvent]
      \/ \E S \in SUBSET Session :
           stopped' = [s \in Session |-> IF s \in S THEN FALSE ELSE stopped[s]]
  <2>1. ASSUME NEW s \in Session, Trade(s) PROVE stopped' = stopped
    BY <2>1, Zenon DEF Trade, Preflight, Started, StartedFlush, RunOnce, Decide, DecideFlush,
       Submit, Tally, Publish, Sleep, CycleRaises, Concludes, local
  <2>2. ASSUME NEW s \in Session, WrapUp(s)
        PROVE  \/ stopped' = stopped
               \/ stopped' = [stopped EXCEPT ![s] = stopEvent]
               \/ stopped' = [t \in Session |-> IF t \in {s} THEN FALSE ELSE stopped[t]]
    BY <2>2, Zenon DEF WrapUp, WriteReport, Settle, Announce, FinalFlush, Failing, AnnounceFailed,
       FailedFlush, Ending, Gone, local
  <2>3. ASSUME NEW s \in Session, Start(s) \/ StartFails(s) PROVE stopped' = stopped
    BY <2>3, Zenon DEF Start, StartFails, local
  <2>4. ASSUME Stop \/ Shutdown \/ UNCHANGED vars PROVE stopped' = stopped
    BY <2>4, Zenon DEF Stop, Shutdown, StopFlags, local, vars
  <2>5. ASSUME Exit
        PROVE  \E S \in SUBSET Session :
                 stopped' = [s \in Session |-> IF s \in S THEN FALSE ELSE stopped[s]]
    <3>1. {s \in Session : pc[s] \in Alive} \in SUBSET Session
      OBVIOUS
    <3> QED
      BY <2>5, <3>1, Zenon DEF Exit, Gone
  <2>6. \A s \in Session : {s} \in SUBSET Session
    OBVIOUS
  <2> QED
    BY <2>1, <2>2, <2>3, <2>4, <2>5, <2>6, Zenon DEF Next, Worker
<1> QED
  BY <1>1, Zenon

\* Every step keeps the types, the single worker and its place in the run.
LEMMA NextWorkerInv == WorkerInv /\ [Next]_vars => WorkerInv'
<1> USE ConstantsAssumption
        DEF WorkerInv, TypeOK, OneWorker, Progress, Cycle, Alive, Trading, Wrapping, Verdicts,
            Terminal, object, counts, local, broker, history, Goto, Handed, Refused, Flushed,
            FlushRaises
<1> SUFFICES ASSUME WorkerInv, [Next]_vars,
                    running' \in BOOLEAN, stopEvent' \in BOOLEAN, doubtful' \in BOOLEAN,
                    stopped' \in [Session -> BOOLEAN]
             PROVE  WorkerInv'
  BY NextFlags, NextStopped
<1>1. ASSUME NEW s \in Session, Start(s) PROVE WorkerInv'
  BY <1>1, SMTT(60) DEF Start, Fresh
<1>2. ASSUME NEW s \in Session, StartFails(s) PROVE WorkerInv'
  BY <1>2, SMTT(60) DEF StartFails, Fresh
<1>3. CASE Stop
  BY <1>3, SMTT(60) DEF Stop, StopFlags
<1>4. CASE Shutdown
  BY <1>4, SMTT(60) DEF Shutdown, StopFlags
<1>5. CASE Exit
  <2>1. pc' \in [Session -> Alive \cup {"none", "dead"}]
    BY <1>5, SMTT(30) DEF Exit, Gone
  <2>2. cycle' \in [Session -> 0 .. Cycles] /\ fills' \in [Session -> 0 .. MaxOrders]
    BY <1>5, SMTT(30) DEF Exit, Gone
  <2>3. verdict' \in [Session -> Verdicts] /\ report' \in [Session -> {"PASS", "SKIP", "FAIL"}]
    BY <1>5, SMTT(30) DEF Exit, Gone
  <2>4. OneWorker' /\ Progress'
    BY <1>5, SMTT(30) DEF Exit, Gone
  <2> QED
    BY <1>5, <2>1, <2>2, <2>3, <2>4 DEF Exit
<1>6. ASSUME NEW s \in Session, Preflight(s) PROVE WorkerInv'
  BY <1>6, SMTT(60) DEF Preflight, Concludes
<1>7. ASSUME NEW s \in Session, Started(s) PROVE WorkerInv'
  BY <1>7, SMTT(60) DEF Started
<1>8. ASSUME NEW s \in Session, StartedFlush(s) PROVE WorkerInv'
  BY <1>8, SMTT(60) DEF StartedFlush
<1>9. ASSUME NEW s \in Session, RunOnce(s) PROVE WorkerInv'
  BY <1>9, SMTT(60) DEF RunOnce, Concludes
<1>10. ASSUME NEW s \in Session, Decide(s) PROVE WorkerInv'
  BY <1>10, SMTT(60) DEF Decide, DecisionHanded, CycleRaises, Concludes
<1>11. ASSUME NEW s \in Session, DecideFlush(s) PROVE WorkerInv'
  BY <1>11, SMTT(60) DEF DecideFlush, CycleRaises, Concludes
<1>12. ASSUME NEW s \in Session, Submit(s) PROVE WorkerInv'
  BY <1>12, SMTT(60) DEF Submit
<1>13. ASSUME NEW s \in Session, Tally(s) PROVE WorkerInv'
  BY <1>13, SMTT(60) DEF Tally
<1>14. ASSUME NEW s \in Session, Publish(s) PROVE WorkerInv'
  BY <1>14, SMTT(60) DEF Publish, CycleRaises, Concludes
<1>15. ASSUME NEW s \in Session, Sleep(s) PROVE WorkerInv'
  BY <1>15, SMTT(60) DEF Sleep, Concludes
<1>16. ASSUME NEW s \in Session, WriteReport(s) PROVE WorkerInv'
  BY <1>16, SMTT(60) DEF WriteReport
<1>17. ASSUME NEW s \in Session, Settle(s) PROVE WorkerInv'
  BY <1>17, SMTT(60) DEF Settle
<1>18. ASSUME NEW s \in Session, Announce(s) PROVE WorkerInv'
  BY <1>18, SMTT(60) DEF Announce
<1>19. ASSUME NEW s \in Session, FinalFlush(s) PROVE WorkerInv'
  BY <1>19, SMTT(60) DEF FinalFlush
<1>20. ASSUME NEW s \in Session, Failing(s) PROVE WorkerInv'
  BY <1>20, SMTT(60) DEF Failing
<1>21. ASSUME NEW s \in Session, AnnounceFailed(s) PROVE WorkerInv'
  BY <1>21, SMTT(60) DEF AnnounceFailed
<1>22. ASSUME NEW s \in Session, FailedFlush(s) PROVE WorkerInv'
  BY <1>22, SMTT(60) DEF FailedFlush
<1>23. ASSUME NEW s \in Session, Ending(s) PROVE WorkerInv'
  <2>1. pc' \in [Session -> Alive \cup {"none", "dead"}]
    BY <1>23, SMTT(30) DEF Ending, Gone
  <2>2. cycle' \in [Session -> 0 .. Cycles] /\ fills' \in [Session -> 0 .. MaxOrders]
    BY <1>23, SMTT(30) DEF Ending, Gone
  <2>3. verdict' \in [Session -> Verdicts] /\ report' \in [Session -> {"PASS", "SKIP", "FAIL"}]
    BY <1>23, SMTT(30) DEF Ending, Gone
  <2>4. OneWorker' /\ Progress'
    BY <1>23, SMTT(30) DEF Ending, Gone
  <2> QED
    BY <1>23, <2>1, <2>2, <2>3, <2>4 DEF Ending
<1>24. CASE UNCHANGED vars
  BY <1>24 DEF vars
<1> QED
  BY <1>1, <1>2, <1>3, <1>4, <1>5, <1>6, <1>7, <1>8, <1>9, <1>10, <1>11, <1>12, <1>13, <1>14,
     <1>15, <1>16, <1>17, <1>18, <1>19, <1>20, <1>21, <1>22, <1>23, <1>24
  DEF Next, Worker, Trade, WrapUp

\* TypeOK and OneWorker, at any number of sessions: no Start finds a worker
\* that is still alive, whatever was published, stopped or killed before.
THEOREM SessionCorrect == Spec => [](TypeOK /\ OneWorker)
<1>1. WorkerInv => TypeOK /\ OneWorker
  BY DEF WorkerInv
<1> QED
  BY <1>1, InitWorkerInv, NextWorkerInv, PTL DEF Spec

-----------------------------------------------------------------------------
(***************************************************************************)
(* Decision before order.  With a required Kafka a flush that returns      *)
(* leaves no doubtful future; so a worker that waits for its flush has     *)
(* either published its decision or will see the flush raise.  OneWorker   *)
(* is needed because the event is published under the session id the       *)
(* object holds, not under the worker's own.                               *)
(***************************************************************************)
Decided ==
  Required => \A s \in Session :
    /\ pc[s] = "decide_flush" /\ ~doubtful => cycle[s] \in decided[s]
    /\ pc[s] = "submit" => cycle[s] \in decided[s]

DecisionInv == Decided /\ DecisionFirst

\* No order and no decision initially.
LEMMA InitDecisionInv == Init => DecisionInv
  BY DEF Init, DecisionInv, Decided, DecisionFirst

\* Only Decide, its flush and Submit matter.
LEMMA NextDecisionInv == WorkerInv /\ DecisionInv /\ [Next]_vars => DecisionInv'
<1> USE DEF DecisionInv, Decided, DecisionFirst, object, counts, local, broker, history, Goto,
            Handed, Refused, Flushed, FlushRaises, Cycle, Alive, Trading, Wrapping
<1> SUFFICES ASSUME TypeOK, OneWorker, DecisionInv, [Next]_vars PROVE DecisionInv'
  BY DEF WorkerInv
<1> USE DEF TypeOK
<1>1. ASSUME NEW s \in Session, Start(s) \/ StartFails(s) PROVE DecisionInv'
  BY <1>1, SMTT(60) DEF Start, StartFails, Fresh
<1>2. CASE Stop \/ Shutdown
  BY <1>2, SMTT(60) DEF Stop, Shutdown, StopFlags
<1>3. CASE Exit
  BY <1>3, SMTT(60) DEF Exit, Gone
<1>4. ASSUME NEW s \in Session, Preflight(s) \/ RunOnce(s) PROVE DecisionInv'
  BY <1>4, SMTT(60) DEF Preflight, RunOnce, Concludes
<1>4a. ASSUME NEW s \in Session, Started(s) PROVE DecisionInv'
  BY <1>4a, SMTT(60) DEF Started
<1>4b. ASSUME NEW s \in Session, StartedFlush(s) PROVE DecisionInv'
  BY <1>4b, SMTT(60) DEF OneWorker, StartedFlush
<1>5. ASSUME NEW s \in Session, Decide(s) PROVE DecisionInv'
  BY <1>5, SMTT(60) DEF OneWorker, Decide, DecisionHanded, CycleRaises, Concludes
<1>6. ASSUME NEW s \in Session, DecideFlush(s) PROVE DecisionInv'
  BY <1>6, SMTT(60) DEF OneWorker, DecideFlush, CycleRaises, Concludes
<1>7. ASSUME NEW s \in Session, Submit(s) PROVE DecisionInv'
  BY <1>7, SMTT(60) DEF Submit
<1>8. ASSUME NEW s \in Session, Tally(s) \/ Publish(s) \/ Sleep(s) PROVE DecisionInv'
  BY <1>8, SMTT(60) DEF Tally, Publish, Sleep, CycleRaises, Concludes
<1>9. ASSUME NEW s \in Session, WriteReport(s) \/ Settle(s) \/ Failing(s) PROVE DecisionInv'
  BY <1>9, SMTT(60) DEF WriteReport, Settle, Failing
<1>9a. ASSUME NEW s \in Session, Announce(s) \/ AnnounceFailed(s) PROVE DecisionInv'
  BY <1>9a, SMTT(60) DEF Announce, AnnounceFailed
<1>9b. ASSUME NEW s \in Session, FinalFlush(s) \/ FailedFlush(s) PROVE DecisionInv'
  BY <1>9b, SMTT(60) DEF OneWorker, FinalFlush, FailedFlush
<1>9c. ASSUME NEW s \in Session, Ending(s) PROVE DecisionInv'
  BY <1>9c, SMTT(60) DEF Ending, Gone
<1>10. CASE UNCHANGED vars
  BY <1>10 DEF vars
<1> QED
  BY <1>1, <1>2, <1>3, <1>4, <1>4a, <1>4b, <1>5, <1>6, <1>7, <1>8, <1>9, <1>9a, <1>9b,
     <1>9c, <1>10 DEF Next, Worker, Trade, WrapUp

\* DecisionFirst: no order of a cycle reaches the broker before the cycle's
\* DECISION_COMPLETED has reached the topic, when Kafka is required.
THEOREM DecisionsFirst == Spec => []DecisionFirst
<1>1. DecisionInv => DecisionFirst
  BY DEF DecisionInv
<1> QED
  BY <1>1, InitWorkerInv, NextWorkerInv, InitDecisionInv, NextDecisionInv, PTL DEF Spec

-----------------------------------------------------------------------------
(***************************************************************************)
(* After the terminal event.  It is published on the way out, and no step  *)
(* leads from there back to the trading loop.                              *)
(***************************************************************************)
ClosedWrapping ==
  \A s \in Session : closed[s] # {} => pc[s] \in Wrapping \cup {"dead"}

\* Nothing is published initially.
LEMMA InitClosedWrapping == Init => ClosedWrapping
  BY DEF Init, ClosedWrapping

\* A terminal event is published by a worker that is wrapping up.
LEMMA NextClosedWrapping ==
  WorkerInv /\ ClosedWrapping /\ [Next]_vars => ClosedWrapping'
<1> SUFFICES ASSUME pc \in [Session -> Alive \cup {"none", "dead"}],
                    closed \in [Session -> SUBSET {"stopped", "failed"}],
                    ClosedWrapping, [Next]_vars
             PROVE  ClosedWrapping'
  BY DEF WorkerInv, TypeOK
<1> USE DEF ClosedWrapping, Goto
<1>1. ASSUME NEW s \in Session, Start(s) \/ StartFails(s) PROVE ClosedWrapping'
  <2>1. /\ pc[s] = "none" /\ closed' = closed
        /\ pc' = [pc EXCEPT ![s] = "init"] \/ pc' = [pc EXCEPT ![s] = "dead"]
    BY <1>1, Zenon DEF Start, StartFails
  <2> QED
    BY <2>1 DEF Wrapping
<1>2. CASE Stop \/ Shutdown \/ UNCHANGED vars
  <2>1. pc' = pc /\ closed' = closed
    BY <1>2, Zenon DEF Stop, Shutdown, StopFlags, vars, history
  <2> QED
    BY <2>1, Zenon
<1>3. CASE Exit
  <2>1. /\ closed' = closed
        /\ pc' = [t \in Session |->
                    IF t \in {u \in Session : pc[u] \in Alive} THEN "dead" ELSE pc[t]]
    BY <1>3, Zenon DEF Exit, Gone, history
  <2> QED
    BY <2>1
<1>4. ASSUME NEW s \in Session, Trade(s) PROVE ClosedWrapping'
  <2>1. pc[s] \in Trading /\ closed' = closed
    BY <1>4, Zenon DEF Trade, Preflight, Started, StartedFlush, RunOnce, Decide, DecideFlush,
       Submit, Tally, Publish, Sleep, Trading, history
  <2>2. \E x \in Alive : pc' = [pc EXCEPT ![s] = x]
    BY <1>4, Zenon DEF Trade, Preflight, Started, StartedFlush, RunOnce, Decide, DecideFlush,
       Submit, Tally, Publish, Sleep, CycleRaises, Concludes, Alive, Trading, Wrapping
  <2> QED
    BY <2>1, <2>2 DEF Trading, Wrapping
<1>5. ASSUME NEW s \in Session, WrapUp(s) PROVE ClosedWrapping'
  <2>1. \/ closed' = closed
        \/ \E e : closed' = [closed EXCEPT ![s] = @ \cup {e}]
    BY <1>5, Zenon DEF WrapUp, WriteReport, Settle, Announce, FinalFlush, Failing, AnnounceFailed,
       FailedFlush, Ending, history
  <2>2. \/ \E x \in Wrapping : pc' = [pc EXCEPT ![s] = x]
        \/ pc' = [t \in Session |-> IF t \in {s} THEN "dead" ELSE pc[t]]
    BY <1>5, Zenon DEF WrapUp, WriteReport, Settle, Announce, FinalFlush, Failing, AnnounceFailed,
       FailedFlush, Ending, Gone, Wrapping
  <2> QED
    BY <2>1, <2>2
<1> QED
  BY <1>1, <1>2, <1>3, <1>4, <1>5, Zenon DEF Next, Worker

\* QuietAfterClose: the broker takes no order of a session whose terminal
\* event is published.
THEOREM QuietAfterTheEnd == Spec => QuietAfterClose
<1>1. WorkerInv /\ ClosedWrapping /\ [Next]_vars =>
        [\A s \in Session : closed[s] # {} =>
           ordered'[s] = ordered[s] /\ acked'[s] = acked[s]]_vars
  <2> USE DEF broker, ClosedWrapping, Wrapping
  <2> SUFFICES ASSUME TypeOK, ClosedWrapping, Next, NEW t \in Session, closed[t] # {}
               PROVE  ordered'[t] = ordered[t] /\ acked'[t] = acked[t]
    BY DEF WorkerInv
  <2>1. ASSUME NEW s \in Session, Submit(s)
        PROVE  ordered'[t] = ordered[t] /\ acked'[t] = acked[t]
    BY <2>1 DEF Submit, TypeOK
  <2>2. ASSUME NEW s \in Session, Trade(s), ~Submit(s) PROVE UNCHANGED broker
    BY <2>2, Zenon DEF Trade, Preflight, Started, StartedFlush, RunOnce, Decide, DecideFlush,
       Tally, Publish, Sleep
  <2>3. ASSUME NEW s \in Session, WrapUp(s) PROVE UNCHANGED broker
    BY <2>3, Zenon DEF WrapUp, WriteReport, Settle, Announce, FinalFlush, Failing,
       AnnounceFailed, FailedFlush, Ending
  <2>4. ASSUME NEW s \in Session, Start(s) \/ StartFails(s) PROVE UNCHANGED broker
    BY <2>4, Zenon DEF Start, StartFails
  <2>5. ASSUME Stop \/ Shutdown \/ Exit PROVE UNCHANGED broker
    BY <2>5, Zenon DEF Stop, Shutdown, StopFlags, Exit
  <2> QED
    BY <2>1, <2>2, <2>3, <2>4, <2>5 DEF Next, Worker
<1> QED
  BY <1>1, InitWorkerInv, NextWorkerInv, InitClosedWrapping, NextClosedWrapping, PTL
  DEF Spec, QuietAfterClose

-----------------------------------------------------------------------------
(***************************************************************************)
(* Stop.  StopHonoured is inductive beside WorkerInv: a sleep that ends    *)
(* finds the stop event, and the worker of the running session is the only *)
(* one whose cycle can advance.                                            *)
(***************************************************************************)
\* Every step keeps the bound of the cycles.
LEMMA NextStopHonoured == WorkerInv /\ StopHonoured /\ [Next]_vars => StopHonoured'
<1> SUFFICES ASSUME WorkerInv, StopHonoured, [Next]_vars PROVE StopHonoured'
  OBVIOUS
<1>a. /\ cycle \in [Session -> 0 .. Cycles] /\ begunAtStop \in 0 .. Cycles
      /\ Cycles \in Nat /\ (running => current \in Session)
      /\ \A s \in Session : pc[s] = "starting" => cycle[s] = 0
  BY ConstantsAssumption DEF WorkerInv, TypeOK, Progress
<1> USE DEF StopHonoured
<1>1. ASSUME NEW s \in Session, Start(s) PROVE StopHonoured'
  BY <1>1, Zenon DEF Start, Fresh
<1>2. ASSUME NEW s \in Session, StartFails(s) PROVE StopHonoured'
  BY <1>2, Zenon DEF StartFails, Fresh
<1>3. CASE Stop \/ Shutdown
  <2>1. /\ running /\ current' = current /\ cycle' = cycle
        /\ begunAtStop' = IF stopEvent THEN begunAtStop ELSE cycle[current]
    BY <1>3, Zenon DEF Stop, Shutdown, StopFlags, local
  <2> QED
    BY <2>1, <1>a
<1>4. CASE Exit
  BY <1>4, Zenon DEF Exit
<1>5. ASSUME NEW s \in Session, Started(s) PROVE StopHonoured'
  <2>1. /\ UNCHANGED <<object, begunAtStop>> /\ cycle' = [cycle EXCEPT ![s] = 1]
        /\ pc[s] = "starting"
    BY <1>5, Zenon DEF Started, history
  <2> QED
    BY <2>1, <1>a DEF object
<1>6. ASSUME NEW s \in Session, Sleep(s) PROVE StopHonoured'
  <2>1. /\ UNCHANGED <<object, begunAtStop>>
        /\ stopEvent => cycle' = cycle
    BY <1>6, Zenon DEF Sleep
  <2> QED
    BY <2>1, <1>a DEF object
<1>7. ASSUME NEW s \in Session, Trade(s), ~Started(s), ~Sleep(s) PROVE StopHonoured'
  <2>1. UNCHANGED <<object, begunAtStop, cycle>>
    BY <1>7, Zenon DEF Trade, Preflight, StartedFlush, RunOnce, Decide, DecideFlush, Submit,
       Tally, Publish, CycleRaises, history, local
  <2> QED
    BY <2>1 DEF object
<1>8. ASSUME NEW s \in Session, WrapUp(s), ~Ending(s) PROVE StopHonoured'
  <2>1. UNCHANGED <<running, current, stopEvent, begunAtStop, cycle>>
    BY <1>8, Zenon DEF WrapUp, WriteReport, Settle, Announce, FinalFlush, Failing, AnnounceFailed,
       FailedFlush, history, local, object
  <2> QED
    BY <2>1
<1>9. ASSUME NEW s \in Session, Ending(s) PROVE StopHonoured'
  BY <1>9, Zenon DEF Ending
<1>10. CASE UNCHANGED vars
  BY <1>10 DEF vars, object, local, history
<1> QED
  BY <1>1, <1>2, <1>3, <1>4, <1>5, <1>6, <1>7, <1>8, <1>9, <1>10, Zenon DEF Next, Worker, WrapUp

\* StopHonoured: after Stop was accepted the session begins no further cycle.
THEOREM StopIsHonoured == Spec => []StopHonoured
<1>1. Init => StopHonoured
  BY Zenon DEF Init, StopHonoured
<1> QED
  BY <1>1, InitWorkerInv, NextWorkerInv, NextStopHonoured, PTL DEF Spec

-----------------------------------------------------------------------------
(***************************************************************************)
(* The counter.  Between Submit and Tally the counter lags by the fills of *)
(* the cycle; an exception in between would lose them for good, and there  *)
(* is none: DECISION_COMPLETED is published before Submit, everything else *)
(* after Tally.                                                            *)
(***************************************************************************)
Counted ==
  /\ \A s \in Session : pc[s] = "none" => acked[s] = 0
  /\ current \in Session /\ pc[current] = "tally" =>
       submitted + fills[current] = acked[current]

CounterInv == Counted /\ CountersMatchBroker

\* Nothing is counted initially.
LEMMA InitCounterInv == Init => CounterInv
  BY DEF Init, CounterInv, Counted, CountersMatchBroker

\* Only Start, Submit and Tally matter.
LEMMA NextCounterInv == WorkerInv /\ CounterInv /\ [Next]_vars => CounterInv'
<1> SUFFICES ASSUME WorkerInv, CounterInv, [Next]_vars PROVE CounterInv'
  OBVIOUS
<1>a. /\ fills \in [Session -> 0 .. MaxOrders] /\ acked \in [Session -> Nat]
      /\ pc \in [Session -> Alive \cup {"none", "dead"}]
      /\ submitted \in Nat /\ MaxOrders \in Nat
      /\ current \in Session \cup {NoSession} /\ NoSession \notin Session
      /\ \A s \in Session : pc[s] \in Alive => current = s
  BY ConstantsAssumption DEF WorkerInv, TypeOK, OneWorker
<1> USE DEF CounterInv, Counted, CountersMatchBroker, Goto
<1>1. ASSUME NEW s \in Session, Start(s) \/ StartFails(s) PROVE CounterInv'
  <2>1. /\ pc[s] = "none" /\ current' = s /\ submitted' = 0 /\ acked' = acked
        /\ pc' = [pc EXCEPT ![s] = "init"] \/ pc' = [pc EXCEPT ![s] = "dead"]
    BY <1>1, Zenon DEF Start, StartFails, Fresh, broker
  <2> QED
    BY <2>1, <1>a
<1>2. CASE Stop \/ Shutdown \/ UNCHANGED vars
  <2>1. UNCHANGED <<current, submitted, acked, fills, pc>>
    BY <1>2, Zenon DEF Stop, Shutdown, StopFlags, vars, object, counts, broker, local
  <2> QED
    BY <2>1
<1>3. CASE Exit
  <2>1. /\ current' = NoSession /\ acked' = acked
        /\ pc' = [t \in Session |->
                    IF t \in {u \in Session : pc[u] \in Alive} THEN "dead" ELSE pc[t]]
    BY <1>3, Zenon DEF Exit, Gone, broker
  <2> QED
    BY <2>1, <1>a
<1>4. ASSUME NEW s \in Session, Submit(s) PROVE CounterInv'
  <2>1. PICK n \in 0 .. MaxOrders :
          /\ fills' = [fills EXCEPT ![s] = n] /\ acked' = [acked EXCEPT ![s] = @ + n]
          /\ pc[s] = "submit" /\ pc' = [pc EXCEPT ![s] = "tally"]
          /\ UNCHANGED <<current, submitted>>
    BY <1>4, Zenon DEF Submit, object, counts
  <2> QED
    BY <2>1, <1>a DEF Alive, Trading
<1>5. ASSUME NEW s \in Session, Tally(s) PROVE CounterInv'
  <2>1. /\ submitted' = submitted + fills[s]
        /\ pc[s] = "tally" /\ pc' = [pc EXCEPT ![s] = "publish"]
        /\ UNCHANGED <<current, acked, fills>>
    BY <1>5, Zenon DEF Tally, object, broker, local
  <2> QED
    BY <2>1, <1>a DEF Alive, Trading
<1>6. ASSUME NEW s \in Session, Trade(s), ~Submit(s), ~Tally(s) PROVE CounterInv'
  <2>1. UNCHANGED <<current, submitted, acked>>
    BY <1>6, Zenon DEF Trade, Preflight, Started, StartedFlush, RunOnce, Decide, DecideFlush,
       Publish, Sleep, CycleRaises, Concludes, object, counts, broker
  <2>2. /\ pc[s] \in Trading \ {"tally"}
        /\ \E x \in Alive : pc' = [pc EXCEPT ![s] = x]
    BY <1>6, Zenon DEF Trade, Preflight, Started, StartedFlush, RunOnce, Decide, DecideFlush,
       Publish, Sleep, CycleRaises, Concludes, Alive, Trading, Wrapping
  <2>3. pc'[s] = "tally" => fills'[s] = 0
    BY <1>6, <1>a DEF Trade, Preflight, Started, StartedFlush, RunOnce, Decide, DecideFlush,
       Publish, Sleep, CycleRaises, Concludes
  <2> QED
    BY <2>1, <2>2, <2>3, <1>a DEF Alive, Trading, Wrapping
<1>7. ASSUME NEW s \in Session, WrapUp(s) PROVE CounterInv'
  <2>1. UNCHANGED <<current, submitted, acked>>
    BY <1>7, Zenon DEF WrapUp, WriteReport, Settle, Announce, FinalFlush, Failing, AnnounceFailed,
       FailedFlush, Ending, object, counts, broker
  <2>2. /\ pc[s] \in Wrapping
        /\ \/ \E x \in Wrapping : pc' = [pc EXCEPT ![s] = x]
           \/ pc' = [t \in Session |-> IF t \in {s} THEN "dead" ELSE pc[t]]
    BY <1>7, Zenon DEF WrapUp, WriteReport, Settle, Announce, FinalFlush, Failing, AnnounceFailed,
       FailedFlush, Ending, Gone, Wrapping
  <2> QED
    BY <2>1, <2>2, <1>a DEF Alive, Trading, Wrapping
<1> QED
  BY <1>1, <1>2, <1>3, <1>4, <1>5, <1>6, <1>7, Zenon DEF Next, Worker

\* CountersMatchBroker: orders_submitted is the number of orders the broker
\* acknowledged, whatever publication failed.
THEOREM CountersCorrect == Spec => []CountersMatchBroker
<1>1. CounterInv => CountersMatchBroker
  BY DEF CounterInv
<1> QED
  BY <1>1, InitWorkerInv, NextWorkerInv, InitCounterInv, NextCounterInv, PTL DEF Spec

-----------------------------------------------------------------------------
(***************************************************************************)
(* The session keeps its contract.  What is left to know is which terminal *)
(* events may already be out at each step of the way down: none before     *)
(* Announce, one after it, and a worker that fails after it has published  *)
(* one does so because a required flush raised.                            *)
(***************************************************************************)
BeforeAnnounce == Trading \cup {"none", "write", "settle", "announce"}

ClosingInv ==
  \A s \in Session :
    /\ pc[s] \in BeforeAnnounce => closed[s] = {}
    /\ pc[s] \in {"final_flush", "failing", "announce_failed"} =>
         closed[s] \in {{}, {"stopped"}, {"failed"}}
    /\ pc[s] \in {"failing", "announce_failed"} /\ closed[s] # {} => Required

\* Nothing is published initially.
LEMMA InitClosingInv == Init => ClosingInv
BY DEF Init, ClosingInv

\* What a step does to the place of a worker and to the events it published.
LEMMA ClosingSteps ==
  ASSUME TypeOK, NEW s \in Session, Worker(s)
  PROVE  \/ /\ closed' = closed
            /\ \/ \E x \in BeforeAnnounce \ {"none"} :
                    pc[s] \in BeforeAnnounce \ {"none"} /\ pc' = [pc EXCEPT ![s] = x]
               \/ /\ \/ pc[s] \in BeforeAnnounce \ {"none"}
                     \/ pc[s] = "final_flush" /\ Required
                  /\ pc' = [pc EXCEPT ![s] = "failing"]
               \/ pc[s] = "failing" /\ pc' = [pc EXCEPT ![s] = "announce_failed"]
               \/ pc' = [pc EXCEPT ![s] = "ending"]
               \/ pc' = [t \in Session |-> IF t \in {s} THEN "dead" ELSE pc[t]]
         \/ /\ pc[s] = "announce" /\ pc' = [pc EXCEPT ![s] = "final_flush"]
            /\ \E e \in {"stopped", "failed"} : closed' = [closed EXCEPT ![s] = @ \cup {e}]
         \/ /\ pc[s] = "announce_failed" /\ pc' = [pc EXCEPT ![s] = "failed_flush"]
            /\ closed' = [closed EXCEPT ![s] = @ \cup {"failed"}]
<1> USE DEF BeforeAnnounce, Goto, history
<1>1. CASE Trade(s)
  <2>1. closed' = closed /\ pc[s] \in Trading
    BY <1>1, Zenon DEF Trade, Preflight, Started, StartedFlush, RunOnce, Decide, DecideFlush,
       Submit, Tally, Publish, Sleep, Trading
  <2>2. \E x \in Trading \cup {"write", "failing"} : pc' = [pc EXCEPT ![s] = x]
    BY <1>1, Zenon DEF Trade, Preflight, Started, StartedFlush, RunOnce, Decide, DecideFlush,
       Submit, Tally, Publish, Sleep, CycleRaises, Concludes, Trading
  <2>3. PICK x \in Trading \cup {"write", "failing"} : pc' = [pc EXCEPT ![s] = x]
    BY <2>2
  <2>4. CASE x = "failing"
    BY <2>1, <2>3, <2>4 DEF Trading
  <2>5. CASE x # "failing"
    <3>1. x \in BeforeAnnounce \ {"none"} /\ pc[s] \in BeforeAnnounce \ {"none"}
      BY <2>1, <2>3, <2>5 DEF Trading
    <3> QED
      BY <2>1, <2>3, <3>1
  <2> QED
    BY <2>4, <2>5
<1>2. CASE WriteReport(s)
  <2>1. /\ pc[s] = "write" /\ closed' = closed
        /\ pc' = [pc EXCEPT ![s] = "settle"] \/ pc' = [pc EXCEPT ![s] = "failing"]
    BY <1>2, Zenon DEF WriteReport
  <2>2. "write" \in BeforeAnnounce \ {"none"} /\ "settle" \in BeforeAnnounce \ {"none"}
    OBVIOUS
  <2> QED
    BY <2>1, <2>2, Zenon
<1>3. CASE Settle(s)
  BY <1>3, Zenon DEF Settle
<1>4. CASE Announce(s)
  <2>1. pc[s] = "announce"
    BY <1>4 DEF Announce
  <2>2. \/ /\ pc' = [pc EXCEPT ![s] = "final_flush"]
           /\ \E e \in {"stopped", "failed"} : closed' = [closed EXCEPT ![s] = @ \cup {e}]
        \/ pc' = [pc EXCEPT ![s] = "failing"] /\ closed' = closed
    BY <1>4, Zenon DEF Announce
  <2>3. "announce" \in BeforeAnnounce \ {"none"}
    OBVIOUS
  <2> QED
    BY <2>1, <2>2, <2>3, Zenon
<1>5. CASE FinalFlush(s)
  BY <1>5, Zenon DEF FinalFlush, FlushRaises
<1>6. CASE Failing(s)
  BY <1>6, Zenon DEF Failing
<1>7. CASE AnnounceFailed(s)
  BY <1>7, Zenon DEF AnnounceFailed
<1>8. CASE FailedFlush(s)
  BY <1>8, Zenon DEF FailedFlush
<1>9. CASE Ending(s)
  BY <1>9, Zenon DEF Ending, Gone
<1> QED
  BY <1>1, <1>2, <1>3, <1>4, <1>5, <1>6, <1>7, <1>8, <1>9, Zenon DEF Worker, WrapUp

\* Every step keeps the account of the terminal events.
LEMMA NextClosingInv == WorkerInv /\ ClosingInv /\ [Next]_vars => ClosingInv'
<1> SUFFICES ASSUME WorkerInv, ClosingInv, [Next]_vars PROVE ClosingInv'
  OBVIOUS
<1>a. /\ pc \in [Session -> Alive \cup {"none", "dead"}]
      /\ closed \in [Session -> SUBSET {"stopped", "failed"}]
  BY DEF WorkerInv, TypeOK
<1> USE DEF ClosingInv, BeforeAnnounce, Trading, Goto
<1>1. ASSUME NEW s \in Session, Start(s) \/ StartFails(s) PROVE ClosingInv'
  <2>1. /\ pc[s] = "none" /\ closed' = closed
        /\ pc' = [pc EXCEPT ![s] = "init"] \/ pc' = [pc EXCEPT ![s] = "dead"]
    BY <1>1, Zenon DEF Start, StartFails
  <2> QED
    BY <1>a, <2>1
<1>2. CASE Stop \/ Shutdown \/ UNCHANGED vars
  <2>1. pc' = pc /\ closed' = closed
    BY <1>2, Zenon DEF Stop, Shutdown, StopFlags, vars, history
  <2> QED
    BY <2>1, Zenon
<1>3. CASE Exit
  <2>1. /\ closed' = closed
        /\ pc' = [t \in Session |->
                    IF t \in {u \in Session : pc[u] \in Alive} THEN "dead" ELSE pc[t]]
    BY <1>3, Zenon DEF Exit, Gone, history
  <2> QED
    BY <1>a, <2>1
<1>4. ASSUME NEW s \in Session, Worker(s) PROVE ClosingInv'
  <2>1. TypeOK
    BY DEF WorkerInv
  <2> QED
    BY <1>4, <1>a, <2>1, ClosingSteps
<1> QED
  BY <1>1, <1>2, <1>3, <1>4, Zenon DEF Next


-----------------------------------------------------------------------------
(***************************************************************************)
(* The refinement.  The live session of the contract is the one whose      *)
(* worker is alive; a step of another thread is impossible (OneWorker).    *)
(***************************************************************************)
Used == {t \in Session : pc[t] # "none"}

\* A worker's step is the live session's, and only its last one ends it.
LEMMA WorkerLives ==
  ASSUME WorkerInv, NEW s \in Session, Worker(s)
  PROVE  /\ running /\ current = s /\ pc[s] \in Alive
         /\ Used' = Used
         /\ ~Ending(s) => UNCHANGED <<running, current, stopEvent>>
<1>1. pc[s] \in Alive
  BY Zenon DEF Worker, Trade, WrapUp, Preflight, Started, StartedFlush, RunOnce, Decide, DecideFlush, Submit,
     Tally, Publish, Sleep, WriteReport, Settle, Announce, FinalFlush, Failing, AnnounceFailed, FailedFlush,
     Ending, Alive, Trading, Wrapping
<1>2. running /\ current = s
  BY <1>1, Zenon DEF WorkerInv, OneWorker
<1>3. ~Ending(s) => UNCHANGED <<running, current, stopEvent>>
  BY Zenon DEF Worker, Trade, WrapUp, Preflight, Started, StartedFlush, RunOnce, Decide, DecideFlush, Submit,
     Tally, Publish, Sleep, WriteReport, Settle, Announce, FinalFlush, Failing, AnnounceFailed, FailedFlush,
     object
<1>4. \/ \E x \in Alive : pc' = [pc EXCEPT ![s] = x]
      \/ pc' = [t \in Session |-> IF t \in {s} THEN "dead" ELSE pc[t]]
  BY Zenon DEF Worker, Trade, WrapUp, Preflight, Started, StartedFlush, RunOnce, Decide, DecideFlush, Submit,
     Tally, Publish, Sleep, WriteReport, Settle, Announce, FinalFlush, Failing, AnnounceFailed, FailedFlush,
     Ending, Gone, Goto, CycleRaises, Concludes, Alive, Trading, Wrapping
<1>5. pc \in [Session -> Alive \cup {"none", "dead"}]
  BY DEF WorkerInv, TypeOK
<1>6. Used' = Used
  BY <1>1, <1>4, <1>5 DEF Used, Alive, Trading, Wrapping
<1> QED
  BY <1>1, <1>2, <1>3, <1>6

\* Steps of a worker that the contract does not see.
LEMMA UnseenSteps ==
  ASSUME NEW s \in Session,
         \/ Preflight(s) \/ StartedFlush(s) \/ RunOnce(s) \/ DecideFlush(s) \/ Publish(s)
         \/ WriteReport(s) \/ Settle(s) \/ FinalFlush(s) \/ Failing(s) \/ FailedFlush(s)
  PROVE  UNCHANGED <<cycle, submitted, decided, ordered, acked, closed>>
BY Zenon DEF Preflight, StartedFlush, RunOnce, DecideFlush, Publish, WriteReport, Settle, FinalFlush, Failing,
   FailedFlush, CycleRaises, object, counts, local, broker, history

\* Nothing has happened to the contract initially.
LEMMA InitContract == Init => Contract!Init
<1> SUFFICES ASSUME Init PROVE Contract!Init
  OBVIOUS
<1>1. running = FALSE /\ {t \in Session : pc[t] # "none"} = {}
  BY DEF Init
<1> QED
  BY <1>1, Zenon DEF Init, Contract!Init

\* Every step is one of the contract or leaves it alone.
LEMMA NextContract ==
  ASSUME WorkerInv, DecisionInv, StopHonoured, CounterInv, ClosingInv, [Next]_vars
  PROVE  [Contract!Next]_(Contract!svars)
<1> DEFINE Live    == IF running THEN current ELSE NoSession
           Told    == running /\ stopEvent
           Begun   == IF running THEN cycle[current] ELSE 0
           Counter == IF running THEN submitted ELSE 0
<1>a. /\ running => current \in Session
      /\ NoSession \notin Session
      /\ pc \in [Session -> Alive \cup {"none", "dead"}]
      /\ cycle \in [Session -> 0 .. Cycles] /\ Cycles \in Nat \ {0} /\ MaxOrders \in Nat
      /\ acked \in [Session -> Nat] /\ submitted \in Nat
      /\ closed \in [Session -> SUBSET {"stopped", "failed"}]
  BY ConstantsAssumption DEF WorkerInv, TypeOK, Progress
<1>b. ASSUME NEW s \in Session, Contract!Open(s) \/ Contract!Refuse(s)
      PROVE  Contract!Next
  BY <1>b DEF Contract!Next
<1>1. ASSUME NEW s \in Session, Start(s)
      PROVE  Contract!Next
  <2>1. /\ ~running /\ pc[s] = "none" /\ running' = TRUE /\ current' = s /\ stopEvent' = FALSE
        /\ submitted' = 0 /\ pc' = [pc EXCEPT ![s] = "init"] /\ cycle' = cycle
        /\ UNCHANGED <<decided, ordered, acked, closed>>
    BY <1>1, Zenon DEF Start, Fresh, Goto, local, broker
  <2>2. Live = NoSession /\ Live' = s /\ ~Told /\ ~Told' /\ Told' = Told
    BY <2>1
  <2>3. Begun = 0 /\ Begun' = 0 /\ Counter = 0 /\ Counter' = 0
    <3>1. cycle[s] = 0
      BY <2>1 DEF WorkerInv, Progress
    <3> QED
      BY <2>1, <3>1
  <2>4. s \notin Used /\ Used' = Used \cup {s}
    BY <2>1, <1>a DEF Used
  <2>5. Contract!Open(s)
    BY <2>1, <2>2, <2>3, <2>4, Zenon DEF Used, Contract!Open, Contract!Lives, Contract!books
  <2> QED
    BY <2>5, <1>b
<1>2. ASSUME NEW s \in Session, StartFails(s)
      PROVE  Contract!Next
  <2>1. /\ ~running /\ pc[s] = "none" /\ running' = running
        /\ pc' = [pc EXCEPT ![s] = "dead"]
        /\ UNCHANGED <<decided, ordered, acked, closed>>
    BY <1>2, Zenon DEF StartFails, Goto, broker
  <2>2. Live = NoSession /\ Live' = Live /\ Told' = Told /\ Begun' = Begun /\ Counter' = Counter
    BY <2>1
  <2>3. s \notin Used /\ Used' = Used \cup {s}
    BY <2>1, <1>a DEF Used
  <2>4. Contract!Refuse(s)
    BY <2>1, <2>2, <2>3, Zenon DEF Used, Contract!Refuse, Contract!Lives, Contract!books, Contract!now
  <2> QED
    BY <2>4, <1>b
<1>3. CASE Stop \/ Shutdown
  <2>1. /\ running /\ stopEvent' = TRUE
        /\ UNCHANGED <<running, current, pc, cycle, submitted, decided, ordered, acked, closed>>
    BY <1>3, Zenon DEF Stop, Shutdown, StopFlags, counts, local, broker
  <2>2. Live # NoSession /\ Live' = Live /\ Told' = TRUE /\ Begun' = Begun /\ Counter' = Counter
    BY <2>1, <1>a
  <2>3. Used' = Used
    BY <2>1 DEF Used
  <2> QED
    BY <2>1, <2>2, <2>3, Zenon DEF Used, Contract!Next, Contract!Stop, Contract!Lives, Contract!books
<1>4. CASE Exit
  <2>1. /\ running' = FALSE /\ UNCHANGED <<decided, ordered, acked, closed>>
        /\ pc' = [t \in Session |->
                    IF t \in {u \in Session : pc[u] \in Alive} THEN "dead" ELSE pc[t]]
    BY <1>4, Zenon DEF Exit, Gone, broker, history
  <2>2. Live' = NoSession /\ ~Told' /\ Begun' = 0 /\ Counter' = 0
    BY <2>1
  <2>3. Used' = Used
    BY <2>1, <1>a DEF Used, Alive, Trading, Wrapping
  <2>4. CASE running
    <3>1. Live # NoSession
      BY <2>4, <1>a
    <3>2. Told' = FALSE
      BY <2>1
    <3> QED
      BY <2>1, <2>2, <2>3, <3>1, <3>2, Zenon DEF Used, Contract!Next, Contract!End, Contract!Lives, Contract!books
  <2>5. CASE ~running
    <3>1. Live' = Live /\ Told' = Told /\ Begun' = Begun /\ Counter' = Counter
      BY <2>1, <2>5
    <3> QED
      BY <2>1, <2>3, <3>1, Zenon DEF Used, Contract!svars, Contract!now, Contract!books
  <2> QED
    BY <2>4, <2>5
<1>5. ASSUME NEW s \in Session, Worker(s)
      PROVE  [Contract!Next]_(Contract!svars)
  <2>a. /\ running /\ current = s /\ pc[s] \in Alive /\ s # NoSession
        /\ Used' = Used
        /\ ~Ending(s) => UNCHANGED <<running, current, stopEvent>>
    BY <1>5, <1>a, WorkerLives
  <2>b. Live = s /\ (Told => stopEvent) /\ Begun = cycle[s] /\ Counter = submitted
    BY <2>a
  <2>c. ~Ending(s) => /\ Live' = Live /\ Told' = Told
                      /\ Begun' = cycle'[s] /\ Counter' = submitted'
    BY <2>a
  <2>d. pc[s] \in BeforeAnnounce => closed[s] = {}
    BY DEF ClosingInv
  <2>1. ASSUME \/ Preflight(s) \/ StartedFlush(s) \/ RunOnce(s) \/ DecideFlush(s) \/ Publish(s)
               \/ WriteReport(s) \/ Settle(s) \/ FinalFlush(s) \/ Failing(s) \/ FailedFlush(s)
        PROVE  UNCHANGED Contract!svars
    <3>1. UNCHANGED <<cycle, submitted, decided, ordered, acked, closed>>
      BY <2>1, UnseenSteps, Zenon
    <3>2. ~Ending(s)
      BY <2>1 DEF Ending, Preflight, StartedFlush, RunOnce, DecideFlush, Publish, WriteReport, Settle, FinalFlush,
         Failing, FailedFlush
    <3>3. Begun' = Begun /\ Counter' = Counter
      BY <3>1, <3>2, <2>b, <2>c
    <3> QED
      BY <3>1, <3>2, <3>3, <2>a, <2>c, Zenon DEF Used, Contract!svars, Contract!now, Contract!books
  <2>2. CASE Started(s)
    <3>1. /\ pc[s] = "starting" /\ cycle' = [cycle EXCEPT ![s] = 1]
          /\ UNCHANGED <<submitted, decided, ordered, acked, closed>>
      BY <2>2, Zenon DEF Started, counts, broker, history
    <3>2. ~Ending(s)
      BY <3>1 DEF Ending
    <3>3. cycle[s] = 0 /\ cycle'[s] = 1
      BY <3>1, <1>a DEF WorkerInv, Progress
    <3>4. closed[s] = {}
      BY <3>1, <2>d DEF BeforeAnnounce, Trading
    <3>5. Begun = 0 /\ Begun' = Begun + 1 /\ Begun < Cycles
      BY <3>3, <2>b, <2>c, <3>2, <1>a
    <3>6. Counter' = Counter
      BY <3>1, <3>2, <2>b, <2>c
    <3>7. Live # NoSession /\ closed[Live] = {}
      BY <2>a, <2>b, <3>4
    <3> QED
      BY <3>1, <3>2, <3>5, <3>6, <3>7, <2>a, <2>c, Zenon DEF Used, Contract!Next, Contract!BeginCycle,
         Contract!Trading, Contract!Lives, Contract!books
  <2>3. CASE Sleep(s)
    <3>1. /\ pc[s] = "sleep"
          /\ cycle' = cycle \/ (~stopEvent /\ cycle' = [cycle EXCEPT ![s] = @ + 1])
          /\ UNCHANGED <<submitted, decided, ordered, acked, closed>>
      BY <2>3, Zenon DEF Sleep, counts, broker
    <3>2. ~Ending(s)
      BY <3>1 DEF Ending
    <3>3. cycle[s] < Cycles
      BY <3>1 DEF WorkerInv, Progress
    <3>4. closed[s] = {}
      BY <3>1, <2>d DEF BeforeAnnounce, Trading
    <3>6. Counter' = Counter
      BY <3>1, <3>2, <2>b, <2>c
    <3>7. Live # NoSession /\ closed[Live] = {}
      BY <2>a, <2>b, <3>4
    <3>8. CASE cycle' = cycle
      <4>1. Begun' = Begun
        BY <3>8, <3>2, <2>b, <2>c
      <4> QED
        BY <3>1, <3>2, <3>6, <4>1, <2>a, <2>c, Zenon DEF Used, Contract!svars, Contract!now, Contract!books
    <3>9. CASE ~stopEvent /\ cycle' = [cycle EXCEPT ![s] = @ + 1]
      <4>1. ~Told /\ Begun' = Begun + 1 /\ Begun < Cycles
        BY <3>9, <3>3, <3>2, <2>b, <2>c, <1>a
      <4> QED
        BY <3>1, <3>2, <3>6, <3>7, <4>1, <2>a, <2>c, Zenon DEF Used, Contract!Next, Contract!BeginCycle,
           Contract!Trading, Contract!Lives, Contract!books
    <3> QED
      BY <3>1, <3>8, <3>9
  <2>4. CASE Decide(s)
    <3>1. /\ pc[s] = "decide" /\ cycle' = cycle
          /\ \/ decided' = [decided EXCEPT ![current] = @ \cup {cycle[s]}]
             \/ UNCHANGED decided
          /\ UNCHANGED <<submitted, ordered, acked, closed>>
      BY <2>4, Zenon DEF Decide, DecisionHanded, CycleRaises, counts, broker, local
    <3>2. ~Ending(s)
      BY <3>1 DEF Ending
    <3>3. Counter' = Counter /\ Begun' = Begun
      BY <3>1, <3>2, <2>b, <2>c
    <3>4. closed[s] = {}
      BY <3>1, <2>d DEF BeforeAnnounce, Trading
    <3>5. Live # NoSession /\ closed[Live] = {}
      BY <2>a, <2>b, <3>4
    <3>6. CASE UNCHANGED decided
      BY <3>1, <3>2, <3>3, <3>6, <2>a, <2>c, Zenon DEF Used, Contract!svars, Contract!now, Contract!books
    <3>7. CASE decided' = [decided EXCEPT ![current] = @ \cup {cycle[s]}]
      <4>1. decided' = [decided EXCEPT ![Live] = @ \cup {Begun}]
        BY <3>7, <2>a, <2>b
      <4> QED
        BY <3>1, <3>2, <3>3, <3>5, <4>1, <2>a, <2>c, Zenon DEF Used, Contract!Next, Contract!Decide,
           Contract!Trading, Contract!Lives, Contract!now
    <3> QED
      BY <3>1, <3>6, <3>7
  <2>5. CASE Submit(s)
    <3>1. PICK n \in 0 .. MaxOrders, held \in BOOLEAN :
            /\ pc[s] = "submit" /\ cycle' = cycle
            /\ acked' = [acked EXCEPT ![s] = @ + n]
            /\ ordered' = IF n > 0 \/ held THEN [ordered EXCEPT ![s] = @ \cup {cycle[s]}] ELSE ordered
            /\ UNCHANGED <<submitted, decided, closed>>
      BY <2>5, Zenon DEF Submit, counts, history
    <3>2. ~Ending(s)
      BY <3>1 DEF Ending
    <3>3. Counter' = Counter /\ Begun' = Begun
      BY <3>1, <3>2, <2>b, <2>c
    <3>4. closed[s] = {}
      BY <3>1, <2>d DEF BeforeAnnounce, Trading
    <3>5. Live # NoSession /\ closed[Live] = {}
      BY <2>a, <2>b, <3>4
    <3>6. Counter = acked[Live]
      BY <3>1, <2>a, <2>b DEF CounterInv, CountersMatchBroker
    <3>7. Required => Begun \in decided[Live]
      BY <3>1, <2>b DEF DecisionInv, Decided
    <3>8. CASE n > 0 \/ held
      <4>1. /\ acked' = [acked EXCEPT ![Live] = @ + n]
            /\ ordered' = [ordered EXCEPT ![Live] = @ \cup {Begun}]
        BY <3>1, <3>8, <2>b
      <4>2. Contract!Order(n)
        BY <3>1, <3>2, <3>3, <3>5, <3>6, <3>7, <4>1, <2>a, <2>c, Zenon DEF Used, Contract!Order,
           Contract!Trading, Contract!Lives, Contract!now
      <4> QED
        BY <4>2 DEF Contract!Next
    <3>9. CASE ~(n > 0 \/ held)
      <4>1. n = 0 /\ ordered' = ordered
        BY <3>1, <3>9
      <4>2. acked' = acked
        BY <3>1, <4>1, <1>a
      <4> QED
        BY <3>1, <3>2, <3>3, <4>1, <4>2, <2>a, <2>c, Zenon DEF Used, Contract!svars, Contract!now, Contract!books
    <3> QED
      BY <3>8, <3>9
  <2>6. CASE Tally(s)
    <3>1. /\ pc[s] = "tally" /\ submitted' = submitted + fills[s]
          /\ UNCHANGED <<cycle, decided, ordered, acked, closed>>
      BY <2>6, Zenon DEF Tally, local, broker, history
    <3>2. ~Ending(s)
      BY <3>1 DEF Ending
    <3>3. Begun' = Begun /\ Counter' = acked[Live]
      BY <3>1, <3>2, <2>a, <2>b, <2>c DEF CounterInv, Counted
    <3>4. closed[s] = {}
      BY <3>1, <2>d DEF BeforeAnnounce, Trading
    <3>5. Live # NoSession /\ closed[Live] = {}
      BY <2>a, <2>b, <3>4
    <3> QED
      BY <3>1, <3>2, <3>3, <3>5, <2>a, <2>c, Zenon DEF Used, Contract!Next, Contract!Count,
         Contract!Trading, Contract!Lives, Contract!books
  <2>7. CASE Announce(s) \/ AnnounceFailed(s)
    <3>1. /\ UNCHANGED <<cycle, submitted, decided, ordered, acked>>
          /\ \/ closed' = closed
             \/ /\ pc[s] = "announce"
                /\ \E e \in {"stopped", "failed"} : closed' = [closed EXCEPT ![s] = @ \cup {e}]
             \/ pc[s] = "announce_failed" /\ closed' = [closed EXCEPT ![s] = @ \cup {"failed"}]
      BY <2>7, Zenon DEF Announce, AnnounceFailed, counts, local, broker
    <3>2. ~Ending(s)
      BY <2>7 DEF Ending, Announce, AnnounceFailed
    <3>3. Counter' = Counter /\ Begun' = Begun
      BY <3>1, <3>2, <2>b, <2>c
    <3>4. CASE closed' = closed
      BY <3>1, <3>2, <3>3, <3>4, <2>a, <2>c, Zenon DEF Used, Contract!svars, Contract!now, Contract!books
    <3>5. ASSUME NEW e \in {"stopped", "failed"}, closed' = [closed EXCEPT ![s] = @ \cup {e}],
                 closed[s] = {} \/ (Required /\ closed[s] = {"stopped"} /\ e = "failed")
          PROVE  Contract!Next
      <4>1. /\ Live # NoSession
            /\ closed[Live] = {} \/ (Required /\ closed[Live] = {"stopped"} /\ e = "failed")
            /\ closed' = [closed EXCEPT ![Live] = @ \cup {e}]
        BY <3>5, <2>a, <2>b
      <4>2. Contract!Close(e)
        BY <3>1, <3>2, <3>3, <4>1, <2>a, <2>c, Zenon DEF Used, Contract!Close, Contract!Trading,
           Contract!Lives, Contract!now
      <4> QED
        BY <4>2 DEF Contract!Next
    <3>6. CASE pc[s] = "announce" /\ \E e \in {"stopped", "failed"} : closed' = [closed EXCEPT ![s] = @ \cup {e}]
      <4>1. closed[s] = {}
        BY <3>6, <2>d DEF BeforeAnnounce
      <4> QED
        BY <3>5, <3>6, <4>1
    <3>7. CASE pc[s] = "announce_failed" /\ closed' = [closed EXCEPT ![s] = @ \cup {"failed"}]
      <4>1. \/ closed[s] = {} \/ (Required /\ closed[s] = {"stopped"})
            \/ closed[s] = {"failed"}
        BY <3>7 DEF ClosingInv
      <4>2. CASE closed[s] = {"failed"}
        <5>1. closed' = closed
          BY <3>7, <4>2, <1>a
        <5> QED
          BY <5>1, <3>4
      <4> QED
        BY <3>5, <3>7, <4>1, <4>2
    <3> QED
      BY <3>1, <3>4, <3>6, <3>7
  <2>8. CASE Ending(s)
    <3>1. running' = FALSE /\ UNCHANGED <<decided, ordered, acked, closed>>
      BY <2>8, Zenon DEF Ending, broker, history
    <3>2. Live' = NoSession /\ Told' = FALSE /\ Begun' = 0 /\ Counter' = 0 /\ Live # NoSession
      BY <3>1, <2>a, <2>b
    <3> QED
      BY <3>1, <3>2, <2>a, Zenon DEF Used, Contract!Next, Contract!End, Contract!Lives, Contract!books
  <2> QED
    BY <1>5, <2>1, <2>2, <2>3, <2>4, <2>5, <2>6, <2>7, <2>8, Zenon DEF Worker, Trade, WrapUp
<1>6. CASE UNCHANGED vars
  <2>1. UNCHANGED <<running, current, stopEvent, pc, cycle, submitted, decided, ordered, acked, closed>>
    BY <1>6, Zenon DEF vars, object, counts, local, broker, history
  <2> QED
    BY <2>1, Zenon DEF Contract!svars, Contract!now, Contract!books
<1> QED
  BY <1>1, <1>2, <1>3, <1>4, <1>5, <1>6, Zenon DEF Next

\* SessionSpec: the session keeps its contract, for any number of sessions,
\* cycles and orders, with Kafka required or not.
THEOREM ImplementsContract == Spec => SessionSpec
<1> DEFINE Inv == WorkerInv /\ DecisionInv /\ StopHonoured /\ CounterInv /\ ClosingInv
<1>1. Init => Inv
  <2>1. Init => StopHonoured
    BY Zenon DEF Init, StopHonoured
  <2> QED
    BY <2>1, InitWorkerInv, InitDecisionInv, InitCounterInv, InitClosingInv
<1>2. Inv /\ [Next]_vars => Inv'
  BY NextWorkerInv, NextDecisionInv, NextStopHonoured, NextCounterInv, NextClosingInv
<1>3. Inv /\ [Next]_vars => [Contract!Next]_(Contract!svars)
  BY NextContract
<1> QED
  BY <1>1, <1>2, <1>3, InitContract, PTL DEF Spec, SessionSpec, Contract!Spec

-----------------------------------------------------------------------------
(***************************************************************************)
(* Where Kafka is not required no publication raises, so that nothing      *)
(* keeps a worker that ends by itself from saying so.                      *)
(***************************************************************************)
Said ==
  ~Required => \A s \in Session :
    pc[s] \in {"final_flush", "failed_flush", "ending"} => closed[s] # {}

EndAnnounced == ~Required /\ current # NoSession /\ ~running => closed[current] # {}

\* Nothing has ended initially.
LEMMA InitAnnounced == Init => Said /\ EndAnnounced
BY DEF Init, Said, EndAnnounced

\* Every step keeps the last words of the sessions.
LEMMA NextAnnounced == WorkerInv /\ Said /\ EndAnnounced /\ [Next]_vars => Said' /\ EndAnnounced'
<1> SUFFICES ASSUME WorkerInv, Said, EndAnnounced, [Next]_vars, ~Required
             PROVE  Said' /\ EndAnnounced'
  BY DEF Said, EndAnnounced
<1>a. /\ pc \in [Session -> Alive \cup {"none", "dead"}]
      /\ closed \in [Session -> SUBSET {"stopped", "failed"}]
      /\ NoSession \notin Session
  BY ConstantsAssumption DEF WorkerInv, TypeOK
<1> USE DEF Said, EndAnnounced, Goto
<1>1. ASSUME NEW s \in Session, Start(s)
      PROVE  Said' /\ EndAnnounced'
  <2>1. running' = TRUE /\ pc' = [pc EXCEPT ![s] = "init"] /\ closed' = closed
    BY <1>1, Zenon DEF Start
  <2> QED
    BY <2>1, <1>a
<1>2. ASSUME NEW s \in Session, StartFails(s)
      PROVE  FALSE
  BY <1>2, Zenon DEF StartFails, Refused
<1>3. CASE Stop \/ Shutdown \/ UNCHANGED vars
  <2>1. UNCHANGED <<pc, closed, running, current>>
    BY <1>3, Zenon DEF Stop, Shutdown, StopFlags, vars, history, object
  <2> QED
    BY <2>1, Zenon
<1>4. CASE Exit
  <2>1. /\ closed' = closed /\ current' = NoSession
        /\ pc' = [t \in Session |->
                    IF t \in {u \in Session : pc[u] \in Alive} THEN "dead" ELSE pc[t]]
    BY <1>4, Zenon DEF Exit, Gone, history
  <2> QED
    BY <1>a, <2>1
<1>5. ASSUME NEW s \in Session, Worker(s), ~Ending(s)
      PROVE  Said' /\ EndAnnounced'
  <2>1. running /\ current = s /\ UNCHANGED <<running, current>>
    BY <1>5, WorkerLives
  <2>2. \/ /\ pc[s] \in {"final_flush", "failed_flush"}
           /\ pc' = [pc EXCEPT ![s] = "ending"] /\ closed' = closed
        \/ \E x \in Alive \ {"final_flush", "failed_flush", "ending"} :
             pc' = [pc EXCEPT ![s] = x] /\ closed' = closed
        \/ \E x \in Alive, e \in {"stopped", "failed"} :
             pc' = [pc EXCEPT ![s] = x] /\ closed' = [closed EXCEPT ![s] = @ \cup {e}]
    <3>1. CASE Trade(s)
      <4>1. closed' = closed
        BY <3>1, Zenon DEF Trade, Preflight, Started, StartedFlush, RunOnce, Decide, DecideFlush,
           Submit, Tally, Publish, Sleep, history
      <4>2. \E x \in Trading \cup {"write", "failing"} : pc' = [pc EXCEPT ![s] = x]
        BY <3>1, Zenon DEF Trade, Preflight, Started, StartedFlush, RunOnce, Decide, DecideFlush,
           Submit, Tally, Publish, Sleep, CycleRaises, Concludes, Trading
      <4> QED
        BY <4>1, <4>2 DEF Alive, Trading, Wrapping
    <3>2. CASE WriteReport(s) \/ Settle(s) \/ Failing(s)
      <4>1. closed' = closed
        BY <3>2, Zenon DEF WriteReport, Settle, Failing, history
      <4>2. \E x \in {"settle", "failing", "announce", "announce_failed"} : pc' = [pc EXCEPT ![s] = x]
        BY <3>2, Zenon DEF WriteReport, Settle, Failing
      <4> QED
        BY <4>1, <4>2 DEF Alive, Trading, Wrapping
    <3>3. CASE Announce(s)
      <4>1. /\ pc' = [pc EXCEPT ![s] = "final_flush"]
            /\ \E e \in {"stopped", "failed"} : closed' = [closed EXCEPT ![s] = @ \cup {e}]
        BY <3>3, Zenon DEF Announce, Refused
      <4> QED
        BY <4>1 DEF Alive, Wrapping
    <3>4. CASE AnnounceFailed(s)
      <4>1. /\ pc' = [pc EXCEPT ![s] = "failed_flush"]
            /\ closed' = [closed EXCEPT ![s] = @ \cup {"failed"}]
        BY <3>4, Zenon DEF AnnounceFailed, Refused
      <4> QED
        BY <4>1 DEF Alive, Wrapping
    <3>5. CASE FinalFlush(s) \/ FailedFlush(s)
      BY <3>5, Zenon DEF FinalFlush, FailedFlush, FlushRaises, history
    <3> QED
      BY <1>5, <3>1, <3>2, <3>3, <3>4, <3>5, Zenon DEF Worker, WrapUp
  <2> QED
    BY <2>1, <2>2, <1>a
<1>6. ASSUME NEW s \in Session, Ending(s)
      PROVE  Said' /\ EndAnnounced'
  <2>1. /\ pc[s] = "ending" /\ closed' = closed /\ current' = current
        /\ pc' = [t \in Session |-> IF t \in {s} THEN "dead" ELSE pc[t]]
    BY <1>6, Zenon DEF Ending, Gone, history
  <2>2. current = s
    BY <2>1, Zenon DEF WorkerInv, OneWorker, Alive, Wrapping
  <2> QED
    BY <2>1, <2>2, <1>a
<1> QED
  BY <1>1, <1>2, <1>3, <1>4, <1>5, <1>6, Zenon DEF Next

\* EndAnnounced: where Kafka is not required, the session that ended by itself
\* has handed over a terminal event, whatever failed on the way.
THEOREM EndIsAnnounced == Spec => []EndAnnounced
BY InitWorkerInv, NextWorkerInv, InitAnnounced, NextAnnounced, PTL DEF Spec

-----------------------------------------------------------------------------
(***************************************************************************)
(* The end of a session.  Every step of a worker brings it nearer to its   *)
(* last one, which is what SessionEnds rests on besides fairness: the      *)
(* stages of a cycle come down to its sleep, a sleep starts the next of    *)
(* the Cycles, and the way down has no way back.                           *)
(***************************************************************************)
StageRank ==
  [ending |-> 1, failed_flush |-> 2, announce_failed |-> 3, failing |-> 4, final_flush |-> 5,
   announce |-> 6, settle |-> 7, write |-> 8, sleep |-> 9, publish |-> 10, tally |-> 11,
   submit |-> 12, decide_flush |-> 13, decide |-> 14, cycle |-> 15, start_flush |-> 16,
   starting |-> 17, init |-> 18]

WorkLeft(s) ==
  IF pc[s] \notin Alive THEN 0
  ELSE StageRank[pc[s]] + (IF pc[s] \in Trading THEN 7 * (Cycles - cycle[s]) ELSE 0)

\* A step of a worker leaves it less to do, and no handler and no other thread
\* gives it more.
WorkersAdvance ==
  [][\A s \in Session : pc[s] \in Alive =>
       IF Worker(s) THEN WorkLeft(s)' < WorkLeft(s) ELSE WorkLeft(s)' <= WorkLeft(s)]_vars

\* The ranks of the stages.
LEMMA Ranks ==
  /\ StageRank["ending"] = 1 /\ StageRank["failed_flush"] = 2 /\ StageRank["announce_failed"] = 3
  /\ StageRank["failing"] = 4 /\ StageRank["final_flush"] = 5 /\ StageRank["announce"] = 6
  /\ StageRank["settle"] = 7 /\ StageRank["write"] = 8 /\ StageRank["sleep"] = 9
  /\ StageRank["publish"] = 10 /\ StageRank["tally"] = 11 /\ StageRank["submit"] = 12
  /\ StageRank["decide_flush"] = 13 /\ StageRank["decide"] = 14 /\ StageRank["cycle"] = 15
  /\ StageRank["start_flush"] = 16 /\ StageRank["starting"] = 17 /\ StageRank["init"] = 18
BY DEF StageRank

\* The worker goes to a stage further down, on its way out or in the same cycle.
Descends(s) ==
  \E x \in Alive : /\ pc' = [pc EXCEPT ![s] = x] /\ cycle' = cycle
                   /\ StageRank[x] < StageRank[pc[s]]
                   /\ x \in Trading => pc[s] \in Trading

\* Every step of a worker descends, starts a cycle or is the last.
LEMMA WorkerDescends ==
  ASSUME NEW s \in Session, Worker(s)
  PROVE  \/ Descends(s)
         \/ /\ pc[s] = "starting" /\ cycle' = [cycle EXCEPT ![s] = 1]
            /\ \E x \in {"start_flush", "cycle", "failing"} : pc' = [pc EXCEPT ![s] = x]
         \/ /\ pc[s] = "sleep" /\ cycle' = [cycle EXCEPT ![s] = @ + 1]
            /\ pc' = [pc EXCEPT ![s] = "cycle"]
         \/ Ending(s)
<1> USE DEF Descends
<1>2. CASE Preflight(s)
  <2>1. /\ pc[s] = "init" /\ cycle' = cycle
        /\ \E x \in {"starting", "failing", "write"} : pc' = [pc EXCEPT ![s] = x]
    BY <1>2, Zenon DEF Preflight, Concludes, Goto
  <2>2. \A x \in {"starting", "failing", "write"} :
          x \in Alive /\ StageRank[x] < StageRank["init"] /\ (x \in Trading => "init" \in Trading)
    BY Ranks DEF Alive, Trading, Wrapping
  <2> QED
    BY <2>1, <2>2
<1>3. CASE Started(s)
  <2>1. /\ pc[s] = "starting" /\ cycle' = [cycle EXCEPT ![s] = 1]
        /\ \E x \in {"start_flush", "cycle", "failing"} : pc' = [pc EXCEPT ![s] = x]
    BY <1>3, Zenon DEF Started, Goto
  <2> QED
    BY <2>1
<1>4. CASE StartedFlush(s)
  <2>1. /\ pc[s] = "start_flush" /\ cycle' = cycle
        /\ \E x \in {"cycle", "failing"} : pc' = [pc EXCEPT ![s] = x]
    BY <1>4, Zenon DEF StartedFlush, Goto, local
  <2>2. \A x \in {"cycle", "failing"} :
          x \in Alive /\ StageRank[x] < StageRank["start_flush"] /\ (x \in Trading => "start_flush" \in Trading)
    BY Ranks DEF Alive, Trading, Wrapping
  <2> QED
    BY <2>1, <2>2
<1>5. CASE RunOnce(s)
  <2>1. /\ pc[s] = "cycle" /\ cycle' = cycle
        /\ \E x \in {"decide", "tally", "write"} : pc' = [pc EXCEPT ![s] = x]
    BY <1>5, Zenon DEF RunOnce, Concludes, Goto
  <2>2. \A x \in {"decide", "tally", "write"} :
          x \in Alive /\ StageRank[x] < StageRank["cycle"] /\ (x \in Trading => "cycle" \in Trading)
    BY Ranks DEF Alive, Trading, Wrapping
  <2> QED
    BY <2>1, <2>2
<1>6. CASE Decide(s)
  <2>1. /\ pc[s] = "decide" /\ cycle' = cycle
        /\ \E x \in {"decide_flush", "submit", "write"} : pc' = [pc EXCEPT ![s] = x]
    BY <1>6, Zenon DEF Decide, CycleRaises, Concludes, Goto, local
  <2>2. \A x \in {"decide_flush", "submit", "write"} :
          x \in Alive /\ StageRank[x] < StageRank["decide"] /\ (x \in Trading => "decide" \in Trading)
    BY Ranks DEF Alive, Trading, Wrapping
  <2> QED
    BY <2>1, <2>2
<1>7. CASE DecideFlush(s)
  <2>1. /\ pc[s] = "decide_flush" /\ cycle' = cycle
        /\ \E x \in {"submit", "write"} : pc' = [pc EXCEPT ![s] = x]
    BY <1>7, Zenon DEF DecideFlush, CycleRaises, Concludes, Goto, local
  <2>2. \A x \in {"submit", "write"} :
          x \in Alive /\ StageRank[x] < StageRank["decide_flush"] /\ (x \in Trading => "decide_flush" \in Trading)
    BY Ranks DEF Alive, Trading, Wrapping
  <2> QED
    BY <2>1, <2>2
<1>8. CASE Submit(s)
  <2>1. pc[s] = "submit" /\ cycle' = cycle /\ \E x \in {"tally"} : pc' = [pc EXCEPT ![s] = x]
    BY <1>8, Zenon DEF Submit, Goto
  <2>2. \A x \in {"tally"} :
          x \in Alive /\ StageRank[x] < StageRank["submit"] /\ (x \in Trading => "submit" \in Trading)
    BY Ranks DEF Alive, Trading, Wrapping
  <2> QED
    BY <2>1, <2>2
<1>9. CASE Tally(s)
  <2>1. pc[s] = "tally" /\ cycle' = cycle /\ \E x \in {"publish"} : pc' = [pc EXCEPT ![s] = x]
    BY <1>9, Zenon DEF Tally, Goto, local
  <2>2. \A x \in {"publish"} :
          x \in Alive /\ StageRank[x] < StageRank["tally"] /\ (x \in Trading => "tally" \in Trading)
    BY Ranks DEF Alive, Trading, Wrapping
  <2> QED
    BY <2>1, <2>2
<1>10. CASE Publish(s)
  <2>1. /\ pc[s] = "publish" /\ cycle' = cycle
        /\ \E x \in {"sleep", "write"} : pc' = [pc EXCEPT ![s] = x]
    BY <1>10, Zenon DEF Publish, CycleRaises, Concludes, Goto
  <2>2. \A x \in {"sleep", "write"} :
          x \in Alive /\ StageRank[x] < StageRank["publish"] /\ (x \in Trading => "publish" \in Trading)
    BY Ranks DEF Alive, Trading, Wrapping
  <2> QED
    BY <2>1, <2>2
<1>11. CASE Sleep(s)
  <2>1. /\ pc[s] = "sleep"
        /\ \/ cycle' = cycle /\ pc' = [pc EXCEPT ![s] = "write"]
           \/ cycle' = [cycle EXCEPT ![s] = @ + 1] /\ pc' = [pc EXCEPT ![s] = "cycle"]
    BY <1>11, Zenon DEF Sleep, Concludes, Goto
  <2>2. "sleep" \in Alive /\ "write" \in Alive /\ "write" \notin Trading /\ StageRank["write"] < StageRank["sleep"]
    BY Ranks DEF Alive, Trading, Wrapping
  <2> QED
    BY <2>1, <2>2
<1>12. CASE WriteReport(s)
  <2>1. /\ pc[s] = "write" /\ cycle' = cycle
        /\ \E x \in {"settle", "failing"} : pc' = [pc EXCEPT ![s] = x]
    BY <1>12, Zenon DEF WriteReport, Goto
  <2>2. \A x \in {"settle", "failing"} :
          x \in Alive /\ StageRank[x] < StageRank["write"] /\ (x \in Trading => "write" \in Trading)
    BY Ranks DEF Alive, Trading, Wrapping
  <2> QED
    BY <2>1, <2>2
<1>13. CASE Settle(s) \/ Failing(s)
  <2>1. /\ cycle' = cycle
        /\ \/ pc[s] = "settle" /\ pc' = [pc EXCEPT ![s] = "announce"]
           \/ pc[s] = "failing" /\ pc' = [pc EXCEPT ![s] = "announce_failed"]
    BY <1>13, Zenon DEF Settle, Failing, Goto, local
  <2>2. /\ "announce" \in Alive \ Trading /\ StageRank["announce"] < StageRank["settle"]
        /\ "announce_failed" \in Alive \ Trading /\ StageRank["announce_failed"] < StageRank["failing"]
    BY Ranks DEF Alive, Trading, Wrapping
  <2> QED
    BY <2>1, <2>2
<1>14. CASE Announce(s)
  <2>1. /\ pc[s] = "announce" /\ cycle' = cycle
        /\ \E x \in {"final_flush", "failing"} : pc' = [pc EXCEPT ![s] = x]
    BY <1>14, Zenon DEF Announce, Goto, local
  <2>2. \A x \in {"final_flush", "failing"} :
          x \in Alive /\ StageRank[x] < StageRank["announce"] /\ (x \in Trading => "announce" \in Trading)
    BY Ranks DEF Alive, Trading, Wrapping
  <2> QED
    BY <2>1, <2>2
<1>15. CASE FinalFlush(s)
  <2>1. /\ pc[s] = "final_flush" /\ cycle' = cycle
        /\ \E x \in {"ending", "failing"} : pc' = [pc EXCEPT ![s] = x]
    BY <1>15, Zenon DEF FinalFlush, Goto, local
  <2>2. \A x \in {"ending", "failing"} :
          x \in Alive /\ StageRank[x] < StageRank["final_flush"] /\ (x \in Trading => "final_flush" \in Trading)
    BY Ranks DEF Alive, Trading, Wrapping
  <2> QED
    BY <2>1, <2>2
<1>16. CASE AnnounceFailed(s)
  <2>1. /\ pc[s] = "announce_failed" /\ cycle' = cycle
        /\ \E x \in {"failed_flush", "ending"} : pc' = [pc EXCEPT ![s] = x]
    BY <1>16, Zenon DEF AnnounceFailed, Goto, local
  <2>2. \A x \in {"failed_flush", "ending"} :
          x \in Alive /\ StageRank[x] < StageRank["announce_failed"] /\ (x \in Trading => "announce_failed" \in Trading)
    BY Ranks DEF Alive, Trading, Wrapping
  <2> QED
    BY <2>1, <2>2
<1>17. CASE FailedFlush(s)
  <2>1. pc[s] = "failed_flush" /\ cycle' = cycle /\ \E x \in {"ending"} : pc' = [pc EXCEPT ![s] = x]
    BY <1>17, Zenon DEF FailedFlush, Goto, local
  <2>2. \A x \in {"ending"} :
          x \in Alive /\ StageRank[x] < StageRank["failed_flush"] /\ (x \in Trading => "failed_flush" \in Trading)
    BY Ranks DEF Alive, Trading, Wrapping
  <2> QED
    BY <2>1, <2>2
<1> QED
  BY <1>2, <1>3, <1>4, <1>5, <1>6, <1>7, <1>8, <1>9, <1>10, <1>11, <1>12, <1>13, <1>14, <1>15, <1>16, <1>17,
     Zenon DEF Worker, Trade, WrapUp

\* A session of Cycles cycles ends within 7 * Cycles + 18 steps of its worker,
\* whatever it publishes, whatever the broker answers and whenever it is
\* told to stop.
THEOREM WorkersAlwaysAdvance == Spec => WorkersAdvance
<1> DEFINE Nearer(s) == IF Worker(s) THEN WorkLeft(s)' < WorkLeft(s) ELSE WorkLeft(s)' <= WorkLeft(s)
<1>1. ASSUME WorkerInv, [Next]_vars, NEW s \in Session, pc[s] \in Alive, ~UNCHANGED vars
      PROVE  Nearer(s)
  <2>a. /\ pc \in [Session -> Alive \cup {"none", "dead"}]
        /\ cycle \in [Session -> 0 .. Cycles] /\ Cycles \in Nat \ {0}
        /\ pc[s] = "starting" => cycle[s] = 0
        /\ pc[s] = "sleep" => cycle[s] < Cycles
    BY <1>1, ConstantsAssumption DEF WorkerInv, TypeOK, Progress
  <2>b. \A x \in Alive : StageRank[x] \in Nat \ {0}
    BY Ranks DEF Alive, Trading, Wrapping
  <2>c. WorkLeft(s) \in Nat \ {0}
    <3>1. 7 * (Cycles - cycle[s]) \in Nat
      BY <2>a, <1>1
    <3> QED
      BY <3>1, <2>b, <1>1 DEF WorkLeft
  <2>1. ASSUME Worker(s)
        PROVE  WorkLeft(s)' < WorkLeft(s)
    <3>1. CASE Descends(s)
      <4>1. PICK x \in Alive : /\ pc' = [pc EXCEPT ![s] = x] /\ cycle' = cycle
                               /\ StageRank[x] < StageRank[pc[s]]
                               /\ x \in Trading => pc[s] \in Trading
        BY <3>1 DEF Descends
      <4>2. pc'[s] = x /\ cycle'[s] = cycle[s]
        BY <4>1, <2>a
      <4>3. 7 * (Cycles - cycle[s]) \in Nat
        BY <2>a
      <4> QED
        BY <4>1, <4>2, <4>3, <2>b, <1>1 DEF WorkLeft
    <3>2. CASE /\ pc[s] = "starting" /\ cycle' = [cycle EXCEPT ![s] = 1]
               /\ \E x \in {"start_flush", "cycle", "failing"} : pc' = [pc EXCEPT ![s] = x]
      <4>1. WorkLeft(s) = 17 + 7 * Cycles
        BY <3>2, <2>a, Ranks DEF WorkLeft, Alive, Trading
      <4>2. pc'[s] \in {"start_flush", "cycle", "failing"} /\ cycle'[s] = 1
        BY <3>2, <2>a
      <4>3. WorkLeft(s)' \in Nat /\ WorkLeft(s)' <= 16 + 7 * (Cycles - 1)
        BY <4>2, <2>a, Ranks DEF WorkLeft, Alive, Trading, Wrapping
      <4> HIDE DEF WorkLeft
      <4> QED
        BY <4>1, <4>3, <2>a
    <3>3. CASE /\ pc[s] = "sleep" /\ cycle' = [cycle EXCEPT ![s] = @ + 1]
               /\ pc' = [pc EXCEPT ![s] = "cycle"]
      <4>1. pc'[s] = "cycle" /\ cycle'[s] = cycle[s] + 1
        BY <3>3, <2>a
      <4>2. WorkLeft(s) = 9 + 7 * (Cycles - cycle[s])
        BY <3>3, Ranks DEF WorkLeft, Alive, Trading
      <4>3. WorkLeft(s)' = 15 + 7 * (Cycles - (cycle[s] + 1))
        BY <4>1, Ranks DEF WorkLeft, Alive, Trading
      <4> QED
        BY <4>2, <4>3, <2>a
    <3>4. CASE Ending(s)
      <4>1. pc' = [t \in Session |-> IF t \in {s} THEN "dead" ELSE pc[t]]
        BY <3>4, Zenon DEF Ending, Gone
      <4>2. WorkLeft(s)' = 0
        BY <4>1 DEF WorkLeft, Alive, Trading, Wrapping
      <4> QED
        BY <4>2, <2>c
    <3> QED
      BY <2>1, <3>1, <3>2, <3>3, <3>4, WorkerDescends
  <2>2. ASSUME ~Worker(s)
        PROVE  WorkLeft(s)' <= WorkLeft(s)
    <3>1. running /\ current = s
      BY <1>1, Zenon DEF WorkerInv, OneWorker
    <3>2. CASE Exit
      <4>1. pc'[s] = "dead"
        <5>1. pc' = [t \in Session |-> IF t \in {u \in Session : pc[u] \in Alive} THEN "dead" ELSE pc[t]]
          BY <3>2, Zenon DEF Exit, Gone
        <5> QED
          BY <5>1, <1>1
      <4>2. WorkLeft(s)' = 0
        BY <4>1 DEF WorkLeft, Alive, Trading, Wrapping
      <4> QED
        BY <4>2, <2>c
    <3>3. CASE Stop \/ Shutdown
      <4>1. pc' = pc /\ cycle' = cycle
        BY <3>3, Zenon DEF Stop, Shutdown, StopFlags, local
      <4> QED
        BY <4>1, <2>c DEF WorkLeft
    <3>4. \A t \in Session : ~Start(t) /\ ~StartFails(t)
      BY <3>1 DEF Start, StartFails
    <3>5. \A t \in Session : t # s => ~Worker(t)
      BY <1>1, <3>1, WorkerLives
    <3> QED
      BY <1>1, <2>2, <3>2, <3>3, <3>4, <3>5, Zenon DEF Next
  <2> QED
    BY <2>1, <2>2
<1>2. WorkerInv /\ [Next]_vars => [\A s \in Session : pc[s] \in Alive => Nearer(s)]_vars
  BY <1>1
<1> QED
  BY <1>2, InitWorkerInv, NextWorkerInv, PTL DEF Spec, WorkersAdvance
=============================================================================
