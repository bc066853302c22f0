---------------------------- MODULE PaperSession ----------------------------
(***************************************************************************)
(* The paper auto-trading session of the gRPC server                       *)
(* (integration/grpc/server.py): Start and Stop handlers, the worker       *)
(* thread that runs PaperAutoTrader.run cycle by cycle, and the Kafka      *)
(* producer both publish through (integration/kafka/producer.py).          *)
(*                                                                         *)
(* Handlers run under the session lock.  The worker takes it only for the  *)
(* steps named in the comments; it reads the stop event and the terminal   *)
(* status without it.  emit() hands an event over and leaves a future      *)
(* behind, flush() waits for the futures.  Only a required producer lets   *)
(* them raise.                                                             *)
(***************************************************************************)
EXTENDS Naturals

CONSTANTS
  Session,    \* session ids, one per accepted or failed Start
  NoSession,
  Cycles,     \* cycles a session is asked for
  MaxOrders,  \* orders in a decision
  Required    \* KAFKA_REQUIRED

ASSUME ConstantsAssumption ==
  /\ Cycles \in Nat \ {0} /\ MaxOrders \in Nat \ {0}
  /\ Required \in BOOLEAN
  /\ NoSession \notin Session

Cycle == 1 .. Cycles

VARIABLES
  running, current, stopEvent, terminal,  \* fields of _PaperAutoSession
  submitted, completed,                   \* its counters
  pc,        \* per session: where its worker is
  cycle,     \* per session: the cycle whose turn it is (0: none yet)
  fills,     \* per session: orders the cycle got an order number for
  verdict,   \* per session: status of the cycle
  report,    \* per session: status of the run report
  stopped,   \* per session: what the worker read from the stop event
  doubtful,  \* a future not yet waited for has failed or is late
  ordered,   \* external: cycles in which the broker took an order
  acked,     \* external: orders it took and answered
  decided,   \* external: cycles whose DECISION_COMPLETED reached the topic
  closed,    \* history: terminal events published
  begunAtStop \* history: cycles begun when the session was told to stop

object  == <<running, current, stopEvent, terminal>>
counts  == <<submitted, completed>>
local   == <<cycle, fills, verdict, report, stopped>>
broker  == <<ordered, acked>>
history == <<closed, begunAtStop>>
vars    == <<object, counts, pc, local, doubtful, broker, decided, history>>

Trading  == {"init", "starting", "start_flush", "cycle", "decide", "decide_flush", "submit",
             "tally", "publish", "sleep"}
Wrapping == {"write", "settle", "announce", "final_flush", "failing", "announce_failed",
             "failed_flush", "ending"}
Alive    == Trading \cup Wrapping
Verdicts == {"none", "PASS", "SKIP", "FAIL", "CLOSED"}
Terminal == {"NEW", "RUNNING", "STOPPING", "STOPPED", "PASS", "SKIP", "FAIL", "FAILED"}

Init ==
  /\ running = FALSE /\ current = NoSession /\ stopEvent = FALSE /\ terminal = "NEW"
  /\ submitted = 0 /\ completed = 0
  /\ pc = [s \in Session |-> "none"]
  /\ cycle = [s \in Session |-> 0]
  /\ fills = [s \in Session |-> 0]
  /\ verdict = [s \in Session |-> "none"]
  /\ report = [s \in Session |-> "PASS"]
  /\ stopped = [s \in Session |-> FALSE]
  /\ doubtful = FALSE
  /\ ordered = [s \in Session |-> {}]
  /\ acked = [s \in Session |-> 0]
  /\ decided = [s \in Session |-> {}]
  /\ closed = [s \in Session |-> {}]
  /\ begunAtStop = Cycles

-----------------------------------------------------------------------------
(***************************************************************************)
(* The producer.  Handed: emit returned; an event that did not reach the   *)
(* topic, or is late, leaves a doubtful future.  Refused: emit raised.     *)
(* A flush that raises on one future has dropped the others; it may also   *)
(* raise before looking at any.                                            *)
(***************************************************************************)
Handed(reached) == doubtful' = TRUE \/ (reached /\ UNCHANGED doubtful)
Refused         == Required /\ UNCHANGED doubtful
Flushed         == (Required => ~doubtful) /\ doubtful' = FALSE
FlushRaises     == Required /\ (doubtful' = FALSE \/ UNCHANGED doubtful)

Goto(s, step) == pc' = [pc EXCEPT ![s] = step]

\* The threads of S are gone, and their locals with them.
Gone(S) ==
  /\ pc' = [s \in Session |-> IF s \in S THEN "dead" ELSE pc[s]]
  /\ cycle' = [s \in Session |-> IF s \in S THEN 0 ELSE cycle[s]]
  /\ fills' = [s \in Session |-> IF s \in S THEN 0 ELSE fills[s]]
  /\ verdict' = [s \in Session |-> IF s \in S THEN "none" ELSE verdict[s]]
  /\ report' = [s \in Session |-> IF s \in S THEN "PASS" ELSE report[s]]
  /\ stopped' = [s \in Session |-> IF s \in S THEN FALSE ELSE stopped[s]]

-----------------------------------------------------------------------------
(***************************************************************************)
(* Handlers, under the lock.                                               *)
(***************************************************************************)
\* _PaperAutoSession.start: the thread is started only after
\* AUTO_TRADING_START_REQUESTED was handed over.
Fresh(s) ==
  /\ current' = s /\ stopEvent' = FALSE
  /\ submitted' = 0 /\ completed' = 0
  /\ begunAtStop' = Cycles

Start(s) ==
  /\ ~running /\ pc[s] = "none"
  /\ Fresh(s) /\ Handed(TRUE)
  /\ running' = TRUE /\ terminal' = "RUNNING"
  /\ Goto(s, "init")
  /\ UNCHANGED <<local, broker, decided, closed>>

StartFails(s) ==
  /\ ~running /\ pc[s] = "none"
  /\ Fresh(s) /\ Refused
  /\ terminal' = "FAILED"
  /\ Goto(s, "dead")
  /\ UNCHANGED <<running, local, broker, decided, closed>>

StopFlags ==
  /\ running
  /\ stopEvent' = TRUE /\ terminal' = "STOPPING"
  /\ begunAtStop' = IF stopEvent THEN begunAtStop ELSE cycle[current]
  /\ UNCHANGED <<running, current, counts, pc, local, broker, decided>>

StopAnnounced ==  \* mutant: the handler publishes AUTO_TRADING_STOPPED itself
  /\ StopFlags
  /\ Handed(TRUE) \/ Refused
  /\ closed' = [closed EXCEPT ![current] = @ \cup {"stopped"}]

\* _PaperAutoSession.stop: an emit that raises is only noted.
Stop ==
  /\ StopFlags
  /\ Handed(TRUE) \/ Refused
  /\ UNCHANGED closed

\* _PaperAutoSession.shutdown publishes nothing; the process may exit while
\* the worker is still alive, or be killed at any time.
Shutdown == StopFlags /\ UNCHANGED <<doubtful, closed>>

Exit ==
  /\ current # NoSession
  /\ running' = FALSE /\ current' = NoSession /\ stopEvent' = FALSE /\ terminal' = "NEW"
  /\ submitted' = 0 /\ completed' = 0 /\ doubtful' = FALSE
  /\ Gone({s \in Session : pc[s] \in Alive})
  /\ UNCHANGED <<broker, decided, history>>

-----------------------------------------------------------------------------
(***************************************************************************)
(* The worker: PaperAutoTrader.run with the hooks of _GrpcPaperAutoTrader. *)
(***************************************************************************)
\* The run ends with this report.
Concludes(s, status) ==
  /\ Goto(s, "write")
  /\ report' = [report EXCEPT ![s] = status]

\* An exception out of a cycle is caught by run() and ends it.
CycleRaises(s) ==
  /\ Concludes(s, "FAIL")
  /\ UNCHANGED <<cycle, fills, verdict, stopped>>

\* The trader is built and the run-level guards are checked.
Preflight(s) ==
  /\ pc[s] = "init"
  /\ \/ /\ Goto(s, "starting") \/ Goto(s, "failing")
        /\ UNCHANGED report
     \/ Concludes(s, "SKIP")
     \/ Concludes(s, "FAIL")
  /\ UNCHANGED <<object, counts, cycle, fills, verdict, stopped, doubtful, broker, decided,
                 closed, begunAtStop>>

\* _on_run_preflight_passed runs before the try block of run().
Started(s) ==
  /\ pc[s] = "starting"
  /\ \/ Handed(TRUE) /\ Goto(s, IF Required THEN "start_flush" ELSE "cycle")
     \/ Refused /\ Goto(s, "failing")
  /\ cycle' = [cycle EXCEPT ![s] = 1]
  /\ UNCHANGED <<object, counts, fills, verdict, report, stopped, broker, decided, history>>

StartedFlush(s) ==
  /\ pc[s] = "start_flush"
  /\ \/ Flushed /\ Goto(s, "cycle")
     \/ FlushRaises /\ Goto(s, "failing")
  /\ UNCHANGED <<object, counts, local, broker, decided, history>>

\* run_once up to the broker: a cycle without orders, one that raises, or a
\* decision with orders.
RunOnce(s) ==
  /\ pc[s] = "cycle"
  /\ fills' = [fills EXCEPT ![s] = 0]
  /\ \/ Goto(s, "decide") /\ UNCHANGED <<verdict, report>>
     \/ /\ \E v \in Verdicts \ {"none"} : verdict' = [verdict EXCEPT ![s] = v]
        /\ Goto(s, "tally")
        /\ UNCHANGED report
     \/ Concludes(s, "FAIL") /\ UNCHANGED verdict
  /\ UNCHANGED <<object, counts, cycle, stopped, doubtful, broker, decided, closed,
                 begunAtStop>>

\* _on_before_broker_submit: DECISION_COMPLETED under the session's id.
DecisionHanded(s) ==
  \/ Handed(TRUE) /\ decided' = [decided EXCEPT ![current] = @ \cup {cycle[s]}]
  \/ Handed(FALSE) /\ UNCHANGED decided

DecideUnflushed(s) ==  \* mutant: the orders do not wait for the flush
  /\ pc[s] = "decide"
  /\ \/ /\ DecisionHanded(s)
        /\ Goto(s, "submit")
        /\ UNCHANGED local
     \/ Refused /\ CycleRaises(s) /\ UNCHANGED decided
  /\ UNCHANGED <<object, counts, broker, closed, begunAtStop>>

Decide(s) ==
  /\ pc[s] = "decide"
  /\ \/ /\ DecisionHanded(s)
        /\ Goto(s, IF Required THEN "decide_flush" ELSE "submit")
        /\ UNCHANGED local
     \/ Refused /\ CycleRaises(s) /\ UNCHANGED decided
  /\ UNCHANGED <<object, counts, broker, closed, begunAtStop>>

DecideFlush(s) ==
  /\ pc[s] = "decide_flush"
  /\ \/ Flushed /\ Goto(s, "submit") /\ UNCHANGED local
     \/ FlushRaises /\ CycleRaises(s)
  /\ UNCHANGED <<object, counts, broker, decided, closed, begunAtStop>>

\* ExecutionGateway.execute and the order history: n orders are answered with
\* an order number; one whose answer was lost counts as rejected although the
\* broker may hold it.  Any rejection or unmatched order fails the cycle.
Submit(s) ==
  /\ pc[s] = "submit"
  /\ \E n \in 0 .. MaxOrders, held \in BOOLEAN, v \in {"PASS", "FAIL"} :
       /\ v = "PASS" => n > 0 /\ ~held
       /\ fills' = [fills EXCEPT ![s] = n]
       /\ acked' = [acked EXCEPT ![s] = @ + n]
       /\ ordered' = IF n > 0 \/ held THEN [ordered EXCEPT ![s] = @ \cup {cycle[s]}]
                     ELSE ordered
       /\ verdict' = [verdict EXCEPT ![s] = v]
  /\ Goto(s, "tally")
  /\ UNCHANGED <<object, counts, cycle, report, stopped, doubtful, decided, history>>

TallyLast(s) ==  \* mutant: the counter keeps the last cycle only
  /\ pc[s] = "tally"
  /\ submitted' = fills[s] /\ completed' = cycle[s]
  /\ Goto(s, "publish")
  /\ UNCHANGED <<object, local, doubtful, broker, decided, history>>

\* The counters, under the lock.
Tally(s) ==
  /\ pc[s] = "tally"
  /\ submitted' = submitted + fills[s] /\ completed' = cycle[s]
  /\ Goto(s, "publish")
  /\ UNCHANGED <<object, local, doubtful, broker, decided, history>>

\* The events of the cycle are handed over; if emit raises, the report of the
\* cycle, its orders included, is replaced by that of an exception.  run()
\* then stops or waits for the next cycle.
Publish(s) ==
  /\ pc[s] = "publish"
  /\ \/ /\ Handed(TRUE)
        /\ \/ verdict[s] = "FAIL" /\ Concludes(s, "FAIL")
           \/ verdict[s] = "CLOSED" /\ Concludes(s, "PASS")
           \/ verdict[s] \in {"PASS", "SKIP"} /\ cycle[s] = Cycles /\ Concludes(s, "PASS")
           \/ verdict[s] \in {"PASS", "SKIP"} /\ cycle[s] < Cycles
                /\ Goto(s, "sleep") /\ UNCHANGED report
        /\ UNCHANGED <<cycle, fills, verdict, stopped>>
     \/ Refused /\ CycleRaises(s)
  /\ UNCHANGED <<object, counts, broker, decided, closed, begunAtStop>>

SleepDeaf(s) ==  \* mutant: a sleep the stop event does not wake
  /\ pc[s] = "sleep"
  /\ Goto(s, "cycle")
  /\ cycle' = [cycle EXCEPT ![s] = @ + 1]
  /\ UNCHANGED <<object, counts, fills, verdict, report, stopped, doubtful, broker, decided,
                 history>>

\* interruptible_sleep: InterruptedError is an Exception, so run() catches it
\* as a failed cycle; the branch of _run_loop meant for it is never taken.
Sleep(s) ==
  /\ pc[s] = "sleep"
  /\ \/ stopEvent /\ Concludes(s, "FAIL") /\ UNCHANGED cycle
     \/ /\ ~stopEvent /\ Goto(s, "cycle")
        /\ cycle' = [cycle EXCEPT ![s] = @ + 1]
        /\ UNCHANGED report
  /\ UNCHANGED <<object, counts, fills, verdict, stopped, doubtful, broker, decided, closed,
                 begunAtStop>>

-----------------------------------------------------------------------------
(***************************************************************************)
(* The end of _run_loop.                                                   *)
(***************************************************************************)
\* The report is written, then the stop event is read.
WriteReport(s) ==
  /\ pc[s] = "write"
  /\ Goto(s, "settle") \/ Goto(s, "failing")
  /\ stopped' = [stopped EXCEPT ![s] = stopEvent]
  /\ UNCHANGED <<object, counts, cycle, fills, verdict, report, doubtful, broker, decided,
                 history>>

\* Under the lock.
Settle(s) ==
  /\ pc[s] = "settle"
  /\ terminal' = IF stopped[s] THEN "STOPPED" ELSE report[s]
  /\ Goto(s, "announce")
  /\ UNCHANGED <<running, current, stopEvent, counts, local, doubtful, broker, decided, history>>

\* The event is chosen by reading the terminal status again, without the lock.
Announce(s) ==
  /\ pc[s] = "announce"
  /\ \/ /\ Handed(TRUE)
        /\ closed' = [closed EXCEPT ![s] =
                        @ \cup {IF terminal = "FAIL" THEN "failed" ELSE "stopped"}]
        /\ Goto(s, "final_flush")
     \/ Refused /\ Goto(s, "failing") /\ UNCHANGED closed
  /\ UNCHANGED <<object, counts, local, broker, decided, begunAtStop>>

FinalFlush(s) ==
  /\ pc[s] = "final_flush"
  /\ \/ Flushed /\ Goto(s, "ending")
     \/ FlushRaises /\ Goto(s, "failing")
  /\ UNCHANGED <<object, counts, local, broker, decided, history>>

FailingReleases(s) ==  \* mutant: the session is released before it has ended
  /\ pc[s] = "failing"
  /\ terminal' = "FAILED" /\ running' = FALSE
  /\ Goto(s, "announce_failed")
  /\ UNCHANGED <<current, stopEvent, counts, local, doubtful, broker, decided, history>>

\* except Exception: under the lock.
Failing(s) ==
  /\ pc[s] = "failing"
  /\ terminal' = "FAILED"
  /\ Goto(s, "announce_failed")
  /\ UNCHANGED <<running, current, stopEvent, counts, local, doubtful, broker, decided, history>>

AnnounceFailedUnguarded(s) ==  \* mutant: an exception here skips the finally
  /\ pc[s] = "announce_failed"
  /\ \/ /\ Handed(TRUE)
        /\ closed' = [closed EXCEPT ![s] = @ \cup {"failed"}]
        /\ Goto(s, "failed_flush")
     \/ Refused /\ Goto(s, "dead") /\ UNCHANGED closed
  /\ UNCHANGED <<object, counts, local, broker, decided, begunAtStop>>

AnnounceFailed(s) ==
  /\ pc[s] = "announce_failed"
  /\ \/ /\ Handed(TRUE)
        /\ closed' = [closed EXCEPT ![s] = @ \cup {"failed"}]
        /\ Goto(s, "failed_flush")
     \/ Refused /\ Goto(s, "ending") /\ UNCHANGED closed
  /\ UNCHANGED <<object, counts, local, broker, decided, begunAtStop>>

FailedFlush(s) ==
  /\ pc[s] = "failed_flush"
  /\ Flushed \/ FlushRaises
  /\ Goto(s, "ending")
  /\ UNCHANGED <<object, counts, local, broker, decided, history>>

\* finally: under the lock.
Ending(s) ==
  /\ pc[s] = "ending"
  /\ running' = FALSE
  /\ Gone({s})
  /\ UNCHANGED <<current, stopEvent, terminal, counts, doubtful, broker, decided, history>>

-----------------------------------------------------------------------------
Trade(s) ==
  \/ Preflight(s) \/ Started(s) \/ StartedFlush(s)
  \/ RunOnce(s) \/ Decide(s) \/ DecideFlush(s) \/ Submit(s)
  \/ Tally(s) \/ Publish(s) \/ Sleep(s)

WrapUp(s) ==
  \/ WriteReport(s) \/ Settle(s) \/ Announce(s) \/ FinalFlush(s)
  \/ Failing(s) \/ AnnounceFailed(s) \/ FailedFlush(s) \/ Ending(s)

Worker(s) == Trade(s) \/ WrapUp(s)

Next ==
  \/ \E s \in Session : Start(s) \/ StartFails(s)
  \/ Stop \/ Shutdown \/ Exit
  \/ \E s \in Session : Worker(s)

Spec == Init /\ [][Next]_vars

\* The worker thread keeps running: every KIS and Kafka call it makes has a
\* timeout, and its sleeps end.
FairSpec == Spec /\ \A s \in Session : WF_vars(Worker(s))

-----------------------------------------------------------------------------
(***************************************************************************)
(* Properties.                                                             *)
(***************************************************************************)
\* Every variable keeps its type.
TypeOK ==
  /\ running \in BOOLEAN /\ stopEvent \in BOOLEAN /\ doubtful \in BOOLEAN
  /\ current \in Session \cup {NoSession}
  /\ terminal \in Terminal
  /\ submitted \in Nat /\ completed \in 0 .. Cycles
  /\ pc \in [Session -> Alive \cup {"none", "dead"}]
  /\ cycle \in [Session -> 0 .. Cycles]
  /\ fills \in [Session -> 0 .. MaxOrders]
  /\ verdict \in [Session -> Verdicts]
  /\ report \in [Session -> {"PASS", "SKIP", "FAIL"}]
  /\ stopped \in [Session -> BOOLEAN]
  /\ ordered \in [Session -> SUBSET Cycle]
  /\ acked \in [Session -> Nat]
  /\ decided \in [Session -> SUBSET Cycle]
  /\ closed \in [Session -> SUBSET {"stopped", "failed"}]
  /\ begunAtStop \in 0 .. Cycles

\* One session at a time: a worker thread that is alive, even one that only
\* has its last event left to publish, is that of the session the object
\* calls running, so every event it publishes bears its own session id.
OneWorker == \A s \in Session : pc[s] \in Alive => running /\ current = s

\* With a required Kafka no order of a cycle reaches the broker unless the
\* cycle's DECISION_COMPLETED has reached the topic (ai_be_grpc_integration.md:
\* a failed publication before the order stops the broker submit).
DecisionFirst == Required => \A s \in Session : ordered[s] \subseteq decided[s]

\* Once a terminal event of a session is published the broker takes no order
\* of it any more (AUTO_TRADING_STOPPED: no further broker submit is possible).
QuietAfterClose ==
  [][\A s \in Session : closed[s] # {} =>
       ordered'[s] = ordered[s] /\ acked'[s] = acked[s]]_vars

\* After Stop was accepted the session finishes the cycle it is in, or whose
\* turn has come, and no other; one in its preflight may still run its first.
StopHonoured ==
  running /\ stopEvent => cycle[current] <= IF begunAtStop = 0 THEN 1 ELSE begunAtStop

\* orders_submitted, from which the backend rebuilds its projection, is the
\* number of orders the broker acknowledged, whatever failed to be published.
CountersMatchBroker ==
  current # NoSession /\ pc[current] # "tally" => submitted = acked[current]

\* The worker, its flushes and the process keep the promises of a session to
\* the backend and the subscribers of its topic.
Contract == INSTANCE TradingSession WITH
  live    <- IF running THEN current ELSE NoSession,
  used    <- {s \in Session : pc[s] # "none"},
  told    <- running /\ stopEvent,
  begun   <- IF running THEN cycle[current] ELSE 0,
  counter <- IF running THEN submitted ELSE 0

SessionSpec == Contract!Spec

\* A session ends by itself, and so it does after a Stop.
SessionEnds == running ~> ~running
=============================================================================
