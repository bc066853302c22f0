---------------------------- MODULE TradingSession ----------------------------
(***************************************************************************)
(* What a paper trading session promises the backend that started it and   *)
(* the subscribers of its topic, whatever the worker thread, its flushes   *)
(* and the process do (integration/grpc/server.py): PaperSession           *)
(* implements it.                                                          *)
(*                                                                         *)
(* One session lives at a time.  It decides before it orders, counts what  *)
(* was acknowledged before it orders again, begins no cycle after a Stop   *)
(* except its first, and orders nothing once it has said it is over.       *)
(***************************************************************************)
EXTENDS Naturals

CONSTANTS Session, NoSession, Cycles, MaxOrders, Required

VARIABLES
  live,     \* the session that runs
  used,     \* session ids given out
  told,     \* the live session was told to stop
  begun,    \* cycles it has begun
  counter,  \* the orders it reports
  decided,  \* per session: cycles whose decision was published
  ordered,  \* per session: cycles the broker took an order in
  acked,    \* per session: orders it acknowledged
  closed    \* per session: terminal events published

now   == <<live, told, begun, counter>>
books == <<decided, ordered, acked, closed>>
svars == <<now, used, books>>

Init ==
  /\ live = NoSession /\ told = FALSE /\ begun = 0 /\ counter = 0
  /\ used = {}
  /\ decided = [s \in Session |-> {}] /\ ordered = [s \in Session |-> {}]
  /\ acked = [s \in Session |-> 0] /\ closed = [s \in Session |-> {}]

Lives   == live # NoSession
Trading == Lives /\ closed[live] = {}

Open(s) ==
  /\ ~Lives /\ s \notin used
  /\ live' = s /\ used' = used \cup {s}
  /\ UNCHANGED <<told, begun, counter, books>>

Refuse(s) ==
  /\ ~Lives /\ s \notin used
  /\ used' = used \cup {s}
  /\ UNCHANGED <<now, books>>

Stop ==
  /\ Lives
  /\ told' = TRUE
  /\ UNCHANGED <<live, begun, counter, used, books>>

BeginCycle ==
  /\ Trading /\ begun < Cycles /\ (told => begun = 0)
  /\ begun' = begun + 1
  /\ UNCHANGED <<live, told, counter, used, books>>

Decide ==
  /\ Trading
  /\ decided' = [decided EXCEPT ![live] = @ \cup {begun}]
  /\ UNCHANGED <<now, used, ordered, acked, closed>>

\* The broker acknowledges n orders of the cycle; it may also hold one whose
\* answer was lost.
Order(n) ==
  /\ Trading /\ counter = acked[live]
  /\ Required => begun \in decided[live]
  /\ acked' = [acked EXCEPT ![live] = @ + n]
  /\ ordered' = [ordered EXCEPT ![live] = @ \cup {begun}]
  /\ UNCHANGED <<now, used, decided, closed>>

Count ==
  /\ Trading
  /\ counter' = acked[live]
  /\ UNCHANGED <<live, told, begun, used, books>>

\* The session says it is over; a required publication that raises may make it
\* say, once more, that it failed.
Close(event) ==
  /\ \/ Trading
     \/ Lives /\ Required /\ closed[live] = {"stopped"} /\ event = "failed"
  /\ closed' = [closed EXCEPT ![live] = @ \cup {event}]
  /\ UNCHANGED <<now, used, decided, ordered, acked>>

\* It ends, or dies with its process.
End ==
  /\ Lives
  /\ live' = NoSession /\ told' = FALSE /\ begun' = 0 /\ counter' = 0
  /\ UNCHANGED <<used, books>>

Next ==
  \/ \E s \in Session : Open(s) \/ Refuse(s)
  \/ Stop \/ BeginCycle \/ Decide \/ Count
  \/ \E n \in 0 .. MaxOrders : Order(n)
  \/ \E event \in {"stopped", "failed"} : Close(event)
  \/ End

Spec == Init /\ [][Next]_svars
=============================================================================
