---------------------------- MODULE EventGateway ----------------------------
(***************************************************************************)
(* From an event to the decision it may cause: EventGateway                *)
(* (orchestration/event_gateway.py), its EventAdmission                    *)
(* (data/event_admission.py) and the message pool its handlers publish to. *)
(*                                                                         *)
(* ingest and dispatch_next are called in turn by one thread, and so are   *)
(* the handlers, the subscribers and the callbacks of the pool.            *)
(*                                                                         *)
(* An event is what has one event_id.  One without an id is nothing the    *)
(* admission can recognise: each time it comes it is another member of     *)
(* Event, which nothing supersedes.                                        *)
(***************************************************************************)
EXTENDS MessagePool

CONSTANTS
  Rank,         \* Rank[e]: position of _compute_sort_key, the lower the sooner
  Expiry,       \* Expiry[e]: expires_at (a late one, if it has none that can be parsed)
  AsOf,         \* AsOf[e]: its asof, if it has one (a set)
  Supersedes,   \* Supersedes[e]: the event that e supersedes, if any (a set)
  Handlers,     \* Handlers[e]: the channels its handlers publish on, one handler each
  MaxBacklog,   \* max_backlog
  MaxJobs,      \* max_cold_path_jobs_per_minute
  Window,       \* jobs_per_minute_window_sec
  DedupeTTL     \* dedupe_ttl_sec

ASSUME GatewayAssumption ==
  /\ Rank \in [Event -> Nat] /\ Expiry \in [Event -> Nat] /\ AsOf \in [Event -> SUBSET Nat]
  /\ Supersedes \in [Event -> SUBSET Event] /\ Handlers \in [Event -> SUBSET Channel]
  /\ MaxBacklog \in Nat \ {0} /\ MaxJobs \in Nat /\ Window \in Nat \ {0}
  /\ DedupeTTL \in Nat \ {0}

VARIABLES
  seen,        \* _seen and _seen_supersedes, which are written together
  backlog,     \* _backlog
  recent,      \* _recent_admitted_ts, with the events
  current,     \* the event dispatch_next has popped, if any (a set)
  todo,        \* its handlers still to be called
  dispatched   \* history: admitted events that were popped, and when

vars == <<poolVars, seen, backlog, recent, current, todo, dispatched>>

Admission == [event: Event, at: Nat]

Init ==
  /\ PoolInit
  /\ seen = [e \in Event |-> 0] /\ backlog = {} /\ recent = {}
  /\ current = {} /\ todo = {} /\ dispatched = {}

Idle == current = {} /\ stack = << >>

-----------------------------------------------------------------------------
(***************************************************************************)
(* admit.  A refused event leaves a dead letter and nothing else.          *)
(***************************************************************************)
Duplicate(e)  == seen[e] > now
Superseded(e) == \E s \in Supersedes[e] : Duplicate(s)

\* The time an event is judged by: its asof, else the clock.
Reference(e) == IF AsOf[e] = {} THEN {now} ELSE AsOf[e]
Stale(e)     == \E ref \in Reference(e) : Expiry[e] < ref

InWindow == {x \in recent : x.at > now - Window}
Capped   == Cardinality(InWindow) >= MaxJobs

Overflows == Cardinality(backlog) >= MaxBacklog
IsLast(x) == \A y \in backlog : Rank[y.event] <= Rank[x.event]
IsNext(x) == \A y \in backlog : Rank[x.event] <= Rank[y.event]

\* A full backlog gives up one of its last events for one that is more urgent.
MakesRoom(e, evicted) ==
  IF Overflows
    THEN \E x \in backlog : IsLast(x) /\ Rank[e] < Rank[x.event] /\ evicted = {x}
    ELSE evicted = {}

AdmitUncapped(e) ==  \* mutant: admissions are not counted against the cap
  /\ Idle
  /\ ~Duplicate(e) /\ ~Superseded(e) /\ ~Stale(e)
  /\ \E evicted \in SUBSET backlog :
       /\ MakesRoom(e, evicted)
       /\ backlog' = (backlog \ evicted) \cup {[event |-> e, at |-> now]}
  /\ seen' = [seen EXCEPT ![e] = now + DedupeTTL]
  /\ recent' = InWindow \cup {[event |-> e, at |-> now]}
  /\ UNCHANGED <<poolVars, current, todo, dispatched>>

AdmitAgain(e) ==  \* mutant: an event that is evicted may be sent again
  /\ Idle
  /\ ~Duplicate(e) /\ ~Superseded(e) /\ ~Stale(e) /\ ~Capped
  /\ \E evicted \in SUBSET backlog :
       /\ MakesRoom(e, evicted)
       /\ backlog' = (backlog \ evicted) \cup {[event |-> e, at |-> now]}
       /\ seen' = [f \in Event |-> IF f = e /\ evicted = {} THEN now + DedupeTTL ELSE seen[f]]
  /\ recent' = InWindow \cup {[event |-> e, at |-> now]}
  /\ UNCHANGED <<poolVars, current, todo, dispatched>>

\* ingest of an event that passes the filters.
Admit(e) ==
  /\ Idle
  /\ ~Duplicate(e) /\ ~Superseded(e) /\ ~Stale(e) /\ ~Capped
  /\ \E evicted \in SUBSET backlog :
       /\ MakesRoom(e, evicted)
       /\ backlog' = (backlog \ evicted) \cup {[event |-> e, at |-> now]}
  /\ seen' = [seen EXCEPT ![e] = now + DedupeTTL]
  /\ recent' = InWindow \cup {[event |-> e, at |-> now]}
  /\ UNCHANGED <<poolVars, current, todo, dispatched>>

-----------------------------------------------------------------------------
(***************************************************************************)
(* dispatch_next: every handler of the event gets it, whatever becomes of  *)
(* the others.  An event without a handler is a dead letter.               *)
(***************************************************************************)
Dispatch ==
  /\ Idle
  /\ \E x \in backlog :
       /\ IsNext(x)
       /\ backlog' = backlog \ {x}
       /\ current' = IF Handlers[x.event] = {} THEN {} ELSE {x}
       /\ todo' = Handlers[x.event]
       /\ dispatched' = dispatched \cup {[event |-> x.event, at |-> x.at, on |-> now]}
  /\ UNCHANGED <<poolVars, seen, recent>>

\* The handler raises (a dead letter), has nothing to say, is an LLM fallback, or
\* finds the pool full (publish_error).
HandlerSilent(c) ==
  /\ c \in todo /\ stack = << >>
  /\ todo' = todo \ {c}
  /\ UNCHANGED <<poolVars, seen, backlog, recent, current, dispatched>>

\* Its message is published, by the agent itself or by _maybe_auto_publish.
HandlerPublishes(c) ==
  /\ c \in todo /\ stack = << >>
  /\ todo' = todo \ {c}
  /\ \E x \in current : Publish(c, x.event)
  /\ UNCHANGED <<seen, backlog, recent, current, dispatched>>

Dispatched ==
  /\ current # {} /\ todo = {} /\ stack = << >>
  /\ current' = {}
  /\ UNCHANGED <<poolVars, seen, backlog, recent, todo, dispatched>>

\* The pool goes on.
InPool == PoolStep /\ UNCHANGED <<seen, backlog, recent, current, todo, dispatched>>

Next ==
  \/ \E e \in Event : Admit(e)
  \/ Dispatch
  \/ \E c \in Channel : HandlerSilent(c) \/ HandlerPublishes(c)
  \/ Dispatched
  \/ InPool

Spec == Init /\ [][Next]_vars

-----------------------------------------------------------------------------
(***************************************************************************)
(* Properties.                                                             *)
(***************************************************************************)
\* Every variable keeps its type.
TypeOK ==
  /\ PoolTypeOK
  /\ seen \in [Event -> Nat]
  /\ backlog \subseteq Admission /\ recent \subseteq Admission /\ current \subseteq Admission
  /\ todo \subseteq Channel
  /\ dispatched \subseteq [event: Event, at: Nat, on: Nat]

\* However the backlog fills and drains, the agents are given at most MaxJobs +
\* MaxBacklog events within one window: the cap is on admissions, and what was
\* admitted earlier may be dispatched at once.
JobsBounded ==
  Cardinality({x \in dispatched : x.on > now - Window}) <= MaxJobs + MaxBacklog

\* An event is given to the agents again only if it was admitted again, DedupeTTL
\* later: neither eviction nor a failing handler lets it in earlier.
NoEarlyRepeat ==
  \A x \in dispatched : \A y \in dispatched :
    x.event = y.event => x = y \/ x.at + DedupeTTL <= y.at \/ y.at + DedupeTTL <= x.at
=============================================================================
