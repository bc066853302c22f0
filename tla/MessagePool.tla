----------------------------- MODULE MessagePool -----------------------------
(***************************************************************************)
(* The shared message pool of the agents: MessagePool                      *)
(* (blackboard/message_pool.py), which PubSubBroker (blackboard/pubsub.py) *)
(* hands every call on to.                                                 *)
(*                                                                         *)
(* publish stores a message, calls the subscribers of its channel, and     *)
(* then looks whether a dependency has a message of each of its required   *)
(* channels, about one event.  Subscribers and callbacks are called in the *)
(* publisher's thread and may publish in turn, so that publications nest:  *)
(* stack is the call stack, its last frame the one that runs.  Meanwhile   *)
(* time passes, and messages expire.                                       *)
(***************************************************************************)
EXTENDS Integers, Sequences, FiniteSets

CONSTANTS
  Channel,
  Event,        \* what messages are about (event_id of _dependency_correlation_key)
  Dep,          \* activation keys
  Required,     \* Required[d]: required_channels of the dependency d
  MaxPool,      \* max_pool_size
  TTL,          \* default_ttl_sec
  Reentrant,    \* may a handler publish on a channel whose publication it serves?
  MaxDepth,     \* bound on nested publications
  MaxId,        \* bound on publications
  MaxTime       \* bound on the clock

ASSUME PoolAssumption ==
  /\ Required \in [Dep -> SUBSET Channel]
  /\ MaxPool \in Nat \ {0} /\ TTL \in Nat \ {0} /\ Reentrant \in BOOLEAN
  /\ MaxDepth \in Nat /\ MaxId \in Nat /\ MaxTime \in Nat

Id   == 1 .. MaxId
None == 0

Message == [id: Id, channel: Channel, about: Event, expires: Nat]
Frame   == [id: Id, channel: Channel, at: {"notify", "check", "callback"}, deps: SUBSET Dep,
            active: SUBSET (Dep \X Event)]

VARIABLES
  now,        \* the clock
  pool,       \* _messages, in the order of their ids
  nextId,     \* generate_message_id
  contexts,   \* contexts[d][e][c]: latest_message_ids of the dependency d for the event e
  stack,      \* publications under way
  used,       \* history: ids handed to a callback of d
  since       \* history: nextId when d was last activated for e

poolVars == <<now, pool, nextId, contexts, stack, used, since>>

PoolInit ==
  /\ now = 0 /\ pool = {} /\ nextId = 1
  /\ contexts = [d \in Dep |-> [e \in Event |-> [c \in Channel |-> None]]]
  /\ stack = << >>
  /\ used = [d \in Dep |-> {}]
  /\ since = [d \in Dep |-> [e \in Event |-> 1]]

-----------------------------------------------------------------------------
Top        == stack[Len(stack)]
Becomes(f) == stack' = [stack EXCEPT ![Len(stack)] = f]
Runs(at)   == stack # << >> /\ Top.at = at

\* expire removes what has expired ...
Expired == {m \in pool : m.expires < now}

KeptContexts(removed) == contexts  \* mutant: contexts go on naming removed messages

\* ... and _prune_dependency_contexts what the contexts hold of it.
Pruned(removed) ==
  [d \in Dep |-> [e \in Event |-> [c \in Channel |->
     IF \E m \in removed : m.id = contexts[d][e][c] THEN None ELSE contexts[d][e][c]]]]

\* What a publication finds in its way: only a full pool is cleaned up.
Overdue == IF Cardinality(pool) >= MaxPool THEN Expired ELSE {}
Full    == Cardinality(pool \ Overdue) >= MaxPool

\* A handler runs: a subscriber of the last frame, or a callback.
InHandler == Runs("notify") \/ Runs("callback")

\* Where the running handler may publish.
Free(c) ==
  Reentrant \/ /\ \A i \in DOMAIN stack : stack[i].channel # c
               /\ \A i \in DOMAIN stack : \A a \in stack[i].active : c \notin Required[a[1]]

\* publish up to the first subscriber.  In a full pool it raises (POOL_OVERFLOW),
\* as it does before for a message_id that is there (MESSAGE_ID_CONFLICT), and
\* nothing has changed.
Publish(c, e) ==
  /\ nextId \in Id /\ ~Full
  /\ pool' = (pool \ Overdue)
             \cup {[id |-> nextId, channel |-> c, about |-> e, expires |-> now + TTL]}
  /\ contexts' = Pruned(Overdue)
  /\ stack' = Append(stack, [id |-> nextId, channel |-> c, at |-> "notify", deps |-> {},
                             active |-> {}])
  /\ nextId' = nextId + 1
  /\ UNCHANGED <<now, used, since>>

\* A handler publishes.
Replies(c, e) ==
  /\ InHandler /\ Len(stack) < MaxDepth /\ Free(c)
  /\ Publish(c, e)

\* The last subscriber has returned or raised (the exception is logged).
Notified ==
  /\ Runs("notify")
  /\ Becomes([Top EXCEPT !.at = "check", !.deps = {d \in Dep : Top.channel \in Required[d]}])
  /\ UNCHANGED <<now, pool, nextId, contexts, used, since>>

-----------------------------------------------------------------------------
(***************************************************************************)
(* _check_dependencies: the last message of the channel enters the context *)
(* of its event; a complete context is handed to the callback.             *)
(***************************************************************************)
OnChannel(c) == {m \in pool : m.channel = c}
LastOf(c)    == CHOOSE m \in OnChannel(c) : \A n \in OnChannel(c) : n.id <= m.id

Complete(d, context) == \A c \in Required[d] : context[c] # None

Check(d) ==
  /\ Runs("check") /\ d \in Top.deps
  /\ OnChannel(Top.channel) # {}
  /\ LET m == LastOf(Top.channel)
         context == [contexts[d][m.about] EXCEPT ![Top.channel] = m.id]
     IN /\ contexts' = [contexts EXCEPT ![d][m.about] = context]
        /\ IF Complete(d, context)
             THEN /\ Becomes([Top EXCEPT !.at = "callback", !.deps = @ \ {d},
                                           !.active = {<<d, m.about>>}])
                  /\ used' = [used EXCEPT ![d] = @ \cup {context[c] : c \in Required[d]}]
                  /\ since' = [since EXCEPT ![d][m.about] = nextId]
             ELSE /\ Becomes([Top EXCEPT !.deps = @ \ {d}])
                  /\ UNCHANGED <<used, since>>
  /\ UNCHANGED <<now, pool, nextId>>

\* The channel has become empty while the subscribers ran.
CheckEmpty(d) ==
  /\ Runs("check") /\ d \in Top.deps
  /\ OnChannel(Top.channel) = {}
  /\ Becomes([Top EXCEPT !.deps = @ \ {d}])
  /\ UNCHANGED <<now, pool, nextId, contexts, used, since>>

KeepsContext ==  \* mutant: the context of an activation is not removed
  /\ Runs("callback")
  /\ Becomes([Top EXCEPT !.at = "check", !.active = {}])
  /\ UNCHANGED <<now, pool, nextId, contexts, used, since>>

DropsAllContexts ==  \* mutant: the contexts of all events go
  /\ Runs("callback")
  /\ contexts' = [d \in Dep |-> [e \in Event |-> [c \in Channel |-> None]]]
  /\ Becomes([Top EXCEPT !.at = "check", !.active = {}])
  /\ UNCHANGED <<now, pool, nextId, used, since>>

\* The callback has returned or raised: its context goes.
CallbackReturns ==
  /\ Runs("callback")
  /\ contexts' = [d \in Dep |-> [e \in Event |->
                    IF <<d, e>> \in Top.active THEN [c \in Channel |-> None]
                    ELSE contexts[d][e]]]
  /\ Becomes([Top EXCEPT !.at = "check", !.active = {}])
  /\ UNCHANGED <<now, pool, nextId, used, since>>

\* publish returns.
Published ==
  /\ Runs("check") /\ Top.deps = {}
  /\ stack' = SubSeq(stack, 1, Len(stack) - 1)
  /\ UNCHANGED <<now, pool, nextId, contexts, used, since>>

\* expire may also be called from outside.
Expire ==
  /\ stack = << >> \/ InHandler
  /\ Expired # {}
  /\ pool' = pool \ Expired
  /\ contexts' = Pruned(Expired)
  /\ UNCHANGED <<now, nextId, stack, used, since>>

Pass ==
  /\ now < MaxTime
  /\ now' = now + 1
  /\ UNCHANGED <<pool, nextId, contexts, stack, used, since>>

\* Between two calls of its users.
PoolStep ==
  \/ \E c \in Channel, e \in Event : Replies(c, e)
  \/ Notified
  \/ \E d \in Dep : Check(d) \/ CheckEmpty(d)
  \/ CallbackReturns \/ Published \/ Expire \/ Pass

PoolNext == PoolStep \/ (stack = << >> /\ \E c \in Channel, e \in Event : Publish(c, e))

PoolSpec == PoolInit /\ [][PoolNext]_poolVars

-----------------------------------------------------------------------------
(***************************************************************************)
(* Properties.                                                             *)
(***************************************************************************)
\* Every variable keeps its type.
PoolTypeOK ==
  /\ now \in Nat /\ pool \subseteq Message /\ nextId \in 1 .. MaxId + 1
  /\ contexts \in [Dep -> [Event -> [Channel -> Id \cup {None}]]]
  /\ stack \in Seq(Frame)
  /\ used \in [Dep -> SUBSET Id] /\ since \in [Dep -> [Event -> 1 .. MaxId + 1]]

\* What a context holds is in the pool, on its channel and about its event, even
\* while callbacks run: a callback never sees a message that was removed.
ContextsLive ==
  \A d \in Dep, e \in Event, c \in Channel : contexts[d][e][c] # None =>
    \E m \in pool : m.id = contexts[d][e][c] /\ m.channel = c /\ m.about = e

\* The step hands the context of e to the callback of d.
Activates(d, e) ==
  /\ stack # << >> /\ Len(stack') = Len(stack)
  /\ <<d, e>> \in stack'[Len(stack)].active \ Top.active

\* A message takes part in one activation of a dependency at most ("one cycle, then
\* the context is removed"), although an activation may start amid another publication.
UsedOnce ==
  [][\A d \in Dep, e \in Event : Activates(d, e) =>
       \A c \in Required[d] : contexts'[d][e][c] \notin used[d]]_poolVars

\* When no publication is under way, no dependency is owed an activation: its required
\* channels do not all hold messages about one event later than the last activation.
NothingMissed ==
  stack = << >> =>
    \A d \in Dep, e \in Event :
      \E c \in Required[d] :
        \A m \in OnChannel(c) : m.about = e => m.id < since[d][e]
=============================================================================
