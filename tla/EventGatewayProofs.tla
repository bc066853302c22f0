------------------------- MODULE EventGatewayProofs -------------------------
(***************************************************************************)
(* Proofs about MessagePool and EventGateway, for any channels, events,    *)
(* dependencies and limits: the types, that contexts hold live messages,   *)
(* that a message is used once and no activation is missed as long as      *)
(* handlers do not publish on a channel under publication, and that no     *)
(* event reaches the agents again early.                                   *)
(***************************************************************************)
EXTENDS EventGateway, TLAPS, FiniteSetTheorems

(***************************************************************************)
(* The call stack.                                                         *)
(***************************************************************************)
\* A publication that starts is a new last frame.
LEMMA Pushed ==
  ASSUME NEW S, NEW s \in Seq(S), NEW f \in S
  PROVE  /\ Append(s, f) \in Seq(S) /\ Len(Append(s, f)) = Len(s) + 1
         /\ Append(s, f)[Len(s) + 1] = f
         /\ \A i \in 1 .. Len(s) : Append(s, f)[i] = s[i]
OBVIOUS

\* A step of the publication that runs changes the last frame only.
LEMMA Changed ==
  ASSUME NEW S, NEW s \in Seq(S), s # << >>, NEW f \in S
  PROVE  /\ [s EXCEPT ![Len(s)] = f] \in Seq(S) /\ Len([s EXCEPT ![Len(s)] = f]) = Len(s)
         /\ Len(s) \in 1 .. Len(s) /\ [s EXCEPT ![Len(s)] = f][Len(s)] = f
         /\ \A i \in 1 .. Len(s) : i # Len(s) => [s EXCEPT ![Len(s)] = f][i] = s[i]
OBVIOUS

\* A publication that returns leaves the frames below it.
LEMMA Popped ==
  ASSUME NEW S, NEW s \in Seq(S), s # << >>
  PROVE  /\ SubSeq(s, 1, Len(s) - 1) \in Seq(S) /\ Len(SubSeq(s, 1, Len(s) - 1)) = Len(s) - 1
         /\ \A i \in 1 .. Len(s) - 1 : SubSeq(s, 1, Len(s) - 1)[i] = s[i]
<1>1. PICK n \in Nat : n = Len(s) - 1 /\ n <= Len(s)
  BY SMTT(20)
<1>2. SubSeq(s, 1, n) \in Seq(S)
  BY <1>1
<1>3. Len(SubSeq(s, 1, n)) = n /\ \A i \in 1 .. n : SubSeq(s, 1, n)[i] = s[i]
  BY <1>1
<1> QED
  BY <1>1, <1>2, <1>3

\* A frame that moves on stays a frame.
LEMMA FrameMoves ==
  ASSUME NEW t \in Frame, NEW at \in {"notify", "check", "callback"}, NEW deps \in SUBSET Dep,
         NEW active \in SUBSET (Dep \X Event)
  PROVE  [t EXCEPT !.at = at, !.deps = deps, !.active = active] \in Frame
BY DEF Frame

\* A channel that has messages has a last one.
LEMMA LastExists ==
  ASSUME PoolTypeOK, NEW c, OnChannel(c) # {}
  PROVE  LastOf(c) \in OnChannel(c) /\ \A n \in OnChannel(c) : n.id <= LastOf(c).id
<1> DEFINE T == {MaxId - m.id : m \in OnChannel(c)}
           R == OpToRel(<, Nat)
<1>1. \A m \in OnChannel(c) : m.id \in Id
  BY DEF PoolTypeOK, OnChannel, Message
<1>2. MaxId \in Nat
  BY PoolAssumption
<1>3. T \subseteq Nat /\ T # {}
  BY <1>1, <1>2 DEF Id
<1>4. PICK x \in T : \A y \in T : ~ (<<y, x>> \in R)
  <2> HIDE DEF T
  <2> QED
    BY <1>3, NatLessThanWellFounded, WFMin
<1>5. \A y \in T : ~ (y < x)
  BY <1>3, <1>4 DEF OpToRel
<1>6. PICK m \in OnChannel(c) : x = MaxId - m.id
  OBVIOUS
<1>7. \A n \in OnChannel(c) : n.id <= m.id
  <2> TAKE n \in OnChannel(c)
  <2>1. ~ (MaxId - n.id < MaxId - m.id)
    BY <1>5, <1>6
  <2> QED
    BY <1>1, <1>2, <2>1 DEF Id
<1> QED
  BY <1>7 DEF LastOf

(***************************************************************************)
(* The pool, whatever its handlers do: ids grow with the time of expiry,   *)
(* so that what expires is always the oldest.                              *)
(***************************************************************************)
Ordered ==
  /\ \A m \in pool : m.id < nextId /\ m.expires <= now + TTL
  /\ \A m, n \in pool : /\ m.id = n.id => m = n
                        /\ m.id < n.id => m.expires <= n.expires

PoolInv == PoolTypeOK /\ ContextsLive /\ Ordered

\* What is removed from the pool leaves the contexts, and the rest of them stays live.
LEMMA Removed ==
  ASSUME PoolInv, NEW removed \in {{}, Expired}
  PROVE  /\ Pruned(removed) \in [Dep -> [Event -> [Channel -> Id \cup {None}]]]
         /\ \A d \in Dep, e \in Event, c \in Channel :
              IF \E m \in removed : m.id = contexts[d][e][c]
                THEN Pruned(removed)[d][e][c] = None
                ELSE Pruned(removed)[d][e][c] = contexts[d][e][c]
         /\ \A d \in Dep, e \in Event, c \in Channel :
              Pruned(removed)[d][e][c] # None =>
                \E m \in pool \ removed :
                  m.id = Pruned(removed)[d][e][c] /\ m.channel = c /\ m.about = e
<1>1. contexts \in [Dep -> [Event -> [Channel -> Id \cup {None}]]]
  BY DEF PoolInv, PoolTypeOK
<1>2. Pruned(removed) \in [Dep -> [Event -> [Channel -> Id \cup {None}]]]
  BY <1>1 DEF Pruned
<1>3. ASSUME NEW d \in Dep, NEW e \in Event, NEW c \in Channel
      PROVE  IF \E m \in removed : m.id = contexts[d][e][c]
               THEN Pruned(removed)[d][e][c] = None
               ELSE Pruned(removed)[d][e][c] = contexts[d][e][c]
  BY DEF Pruned
<1>4. ASSUME NEW d \in Dep, NEW e \in Event, NEW c \in Channel,
             Pruned(removed)[d][e][c] # None
      PROVE  \E m \in pool \ removed :
               m.id = Pruned(removed)[d][e][c] /\ m.channel = c /\ m.about = e
  <2>1. /\ ~ \E m \in removed : m.id = contexts[d][e][c]
        /\ Pruned(removed)[d][e][c] = contexts[d][e][c]
    BY <1>3, <1>4
  <2>2. PICK m \in pool : m.id = contexts[d][e][c] /\ m.channel = c /\ m.about = e
    BY <1>4, <2>1 DEF PoolInv, ContextsLive
  <2> QED
    BY <2>1, <2>2
<1> QED
  BY <1>2, <1>3, <1>4

\* The initial states.
LEMMA InitPoolInv == PoolInit => PoolInv
<1> SUFFICES ASSUME PoolInit PROVE PoolInv
  OBVIOUS
<1>1. MaxId \in Nat
  BY PoolAssumption
<1>2. PoolTypeOK
  BY <1>1 DEF PoolInit, PoolTypeOK, Id
<1> QED
  BY <1>2 DEF PoolInit, PoolInv, ContextsLive, Ordered

\* A publication adds a message that is newer and expires later than the others.
LEMMA PublishPool ==
  ASSUME PoolInv, NEW c \in Channel, NEW e \in Event, Publish(c, e)
  PROVE  PoolInv'
<1> DEFINE new == [id |-> nextId, channel |-> c, about |-> e, expires |-> now + TTL]
           frame == [id |-> nextId, channel |-> c, at |-> "notify", deps |-> {}, active |-> {}]
<1>1. /\ nextId \in Id /\ pool' = (pool \ Overdue) \cup {new} /\ contexts' = Pruned(Overdue)
      /\ stack' = Append(stack, frame) /\ nextId' = nextId + 1
      /\ UNCHANGED <<now, used, since>>
  BY DEF Publish
<1>2. Overdue \in {{}, Expired}
  BY DEF Overdue
<1>3. MaxId \in Nat /\ TTL \in Nat /\ now \in Nat /\ nextId \in Nat
  BY PoolAssumption DEF PoolInv, PoolTypeOK, Id
<1>4. new \in Message /\ frame \in Frame
  BY <1>1, <1>3 DEF Message, Frame
<1>5. PoolTypeOK'
  <2>1. stack' \in Seq(Frame)
    BY <1>1, <1>4, Pushed DEF PoolInv, PoolTypeOK
  <2>2. contexts' \in [Dep -> [Event -> [Channel -> Id \cup {None}]]]
    BY <1>1, <1>2, Removed
  <2>3. pool' \subseteq Message /\ nextId' \in 1 .. MaxId + 1
    BY <1>1, <1>3, <1>4 DEF PoolInv, PoolTypeOK, Id
  <2> QED
    BY <1>1, <2>1, <2>2, <2>3 DEF PoolInv, PoolTypeOK
<1>6. ContextsLive'
  <2>1. PICK removed \in {{}, Expired} : removed = Overdue
    BY <1>2
  <2>2. \A d \in Dep, f \in Event, a \in Channel :
          Pruned(removed)[d][f][a] # None =>
            \E m \in pool \ removed :
              m.id = Pruned(removed)[d][f][a] /\ m.channel = a /\ m.about = f
    BY Removed
  <2>3. pool \ removed \subseteq pool' /\ contexts' = Pruned(removed)
    BY <1>1, <2>1
  <2> QED
    BY <2>2, <2>3 DEF ContextsLive
<1>7. Ordered'
  <2>1. \A m \in pool : m.id \in Nat /\ m.expires \in Nat
    BY DEF PoolInv, PoolTypeOK, Message, Id
  <2>2. \A m \in pool' : m = new \/ m \in pool
    BY <1>1
  <2> QED
    BY <1>1, <1>3, <2>1, <2>2 DEF PoolInv, Ordered
<1> QED
  BY <1>5, <1>6, <1>7 DEF PoolInv

\* A step that only changes the last frame.
LEMMA FramePool ==
  ASSUME PoolInv, stack # << >>, NEW f \in Frame, Becomes(f),
         used' \in [Dep -> SUBSET Id], since' \in [Dep -> [Event -> 1 .. MaxId + 1]],
         UNCHANGED <<now, pool, nextId, contexts>>
  PROVE  PoolInv'
<1>1. stack' \in Seq(Frame)
  BY Changed DEF PoolInv, PoolTypeOK, Becomes
<1>2. PoolTypeOK'
  BY <1>1 DEF PoolInv, PoolTypeOK
<1> QED
  BY <1>2 DEF PoolInv, ContextsLive, Ordered

\* The frame that runs is one of the stack.
LEMMA TopIsFrame ==
  ASSUME PoolTypeOK, stack # << >>
  PROVE  Top \in Frame /\ Len(stack) \in 1 .. Len(stack) /\ Top = stack[Len(stack)]
BY DEF PoolTypeOK, Top

\* A required channel is a channel.
LEMMA RequiredChannels ==
  ASSUME NEW d \in Dep
  PROVE  Required[d] \subseteq Channel
BY PoolAssumption

\* The last message of the channel enters the context of its event.
LEMMA CheckPool ==
  ASSUME PoolInv, NEW d \in Dep, Check(d)
  PROVE  PoolInv'
<1> DEFINE m == LastOf(Top.channel)
           context == [contexts[d][m.about] EXCEPT ![Top.channel] = m.id]
<1>1. /\ stack # << >> /\ Top \in Frame /\ OnChannel(Top.channel) # {}
      /\ contexts' = [contexts EXCEPT ![d][m.about] = context]
      /\ UNCHANGED <<now, pool, nextId>>
  BY TopIsFrame DEF Check, Runs, PoolInv
<1>2. \/ /\ Complete(d, context)
         /\ Becomes([Top EXCEPT !.at = "callback", !.deps = @ \ {d}, !.active = {<<d, m.about>>}])
         /\ used' = [used EXCEPT ![d] = @ \cup {context[c] : c \in Required[d]}]
         /\ since' = [since EXCEPT ![d][m.about] = nextId]
      \/ /\ Becomes([Top EXCEPT !.deps = @ \ {d}])
         /\ UNCHANGED <<used, since>>
  BY DEF Check
<1>3. m \in pool /\ m.channel = Top.channel /\ m \in Message
  BY <1>1, LastExists DEF OnChannel, PoolInv, PoolTypeOK
<1> HIDE DEF m
<1>4. /\ m.id \in Id /\ m.about \in Event /\ Top.channel \in Channel
      /\ contexts \in [Dep -> [Event -> [Channel -> Id \cup {None}]]]
      /\ MaxId \in Nat /\ nextId \in 1 .. MaxId + 1
  BY <1>1, <1>3, PoolAssumption DEF Message, Frame, PoolInv, PoolTypeOK
<1>5. context \in [Channel -> Id \cup {None}]
  BY <1>4
<1>6. contexts' \in [Dep -> [Event -> [Channel -> Id \cup {None}]]]
  BY <1>1, <1>4, <1>5
<1>7. used' \in [Dep -> SUBSET Id] /\ since' \in [Dep -> [Event -> 1 .. MaxId + 1]]
  <2>1. used \in [Dep -> SUBSET Id] /\ since \in [Dep -> [Event -> 1 .. MaxId + 1]]
    BY DEF PoolInv, PoolTypeOK
  <2> DEFINE given == {context[c] : c \in Required[d]}
  <2>2. Complete(d, context) => given \subseteq Id
    BY <1>5, RequiredChannels DEF Complete
  <2>3. \/ UNCHANGED <<used, since>>
        \/ /\ given \subseteq Id /\ used' = [used EXCEPT ![d] = @ \cup given]
           /\ since' = [since EXCEPT ![d][m.about] = nextId]
    BY <1>2, <2>2
  <2> HIDE DEF context, given
  <2>4. used' \in [Dep -> SUBSET Id]
    BY <2>1, <2>3
  <2>5. since' \in [Dep -> [Event -> 1 .. MaxId + 1]]
    <3>1. [since[d] EXCEPT ![m.about] = nextId] \in [Event -> 1 .. MaxId + 1]
      BY <1>4, <2>1
    <3>2. \/ since' = since
          \/ since' = [since EXCEPT ![d] = [since[d] EXCEPT ![m.about] = nextId]]
      BY <2>3
    <3> QED
      BY <2>1, <3>1, <3>2
  <2> QED
    BY <2>4, <2>5
<1>8. PICK f \in Frame : Becomes(f)
  <2>1. Top.deps \ {d} \in SUBSET Dep /\ {<<d, m.about>>} \in SUBSET (Dep \X Event)
    BY <1>1, <1>4 DEF Frame
  <2>2. [Top EXCEPT !.at = "callback", !.deps = Top.deps \ {d}, !.active = {<<d, m.about>>}] \in Frame
    <3>1. PICK active \in SUBSET (Dep \X Event), deps \in SUBSET Dep :
            active = {<<d, m.about>>} /\ deps = Top.deps \ {d}
      BY <2>1
    <3>2. [Top EXCEPT !.at = "callback", !.deps = deps, !.active = active] \in Frame
      BY <1>1, FrameMoves
    <3> QED
      BY <3>1, <3>2
  <2>3. [Top EXCEPT !.deps = Top.deps \ {d}] \in Frame
    BY <1>1, <2>1 DEF Frame
  <2> QED
    BY <1>2, <2>2, <2>3
<1>9. stack' \in Seq(Frame)
  BY <1>1, <1>8, Changed DEF PoolInv, PoolTypeOK, Becomes
<1>10. PoolTypeOK'
  BY <1>1, <1>6, <1>7, <1>9 DEF PoolInv, PoolTypeOK
<1>11. \A b \in Dep, e \in Event, c \in Channel :
         IF b = d /\ e = m.about /\ c = Top.channel THEN contexts'[b][e][c] = m.id
         ELSE contexts'[b][e][c] = contexts[b][e][c]
  BY <1>1, <1>4
<1>12. ContextsLive'
  <2>1. ASSUME NEW b \in Dep, NEW e \in Event, NEW c \in Channel, contexts'[b][e][c] # None
        PROVE  \E n \in pool : n.id = contexts'[b][e][c] /\ n.channel = c /\ n.about = e
    <3>1. CASE b = d /\ e = m.about /\ c = Top.channel
      BY <1>3, <1>11, <3>1
    <3>2. CASE ~(b = d /\ e = m.about /\ c = Top.channel)
      <4>1. contexts[b][e][c] # None /\ contexts'[b][e][c] = contexts[b][e][c]
        BY <1>11, <2>1, <3>2
      <4> QED
        BY <4>1 DEF PoolInv, ContextsLive
    <3> QED
      BY <3>1, <3>2
  <2> QED
    BY <1>1, <2>1 DEF ContextsLive
<1>13. Ordered'
  BY <1>1 DEF PoolInv, Ordered
<1> QED
  BY <1>10, <1>12, <1>13 DEF PoolInv

\* A context that is given up holds nothing.
LEMMA CallbackPool ==
  ASSUME PoolInv, CallbackReturns
  PROVE  PoolInv'
<1>1. /\ stack # << >> /\ Top \in Frame /\ UNCHANGED <<now, pool, nextId, used, since>>
      /\ Becomes([Top EXCEPT !.at = "check", !.active = {}])
  BY TopIsFrame DEF CallbackReturns, Runs, PoolInv
<1>2. contexts' = [d \in Dep |-> [e \in Event |->
                     IF <<d, e>> \in Top.active THEN [c \in Channel |-> None]
                     ELSE contexts[d][e]]]
  BY DEF CallbackReturns
<1>3. contexts' \in [Dep -> [Event -> [Channel -> Id \cup {None}]]]
  BY <1>2 DEF PoolInv, PoolTypeOK
<1>4. \A d \in Dep, e \in Event, c \in Channel :
        contexts'[d][e][c] = None \/ contexts'[d][e][c] = contexts[d][e][c]
  BY <1>2
<1>5. stack' \in Seq(Frame)
  <2>1. [Top EXCEPT !.at = "check", !.active = {}] \in Frame
    BY <1>1 DEF Frame
  <2> QED
    BY <1>1, <2>1, Changed DEF PoolInv, PoolTypeOK, Becomes
<1>6. PoolTypeOK'
  BY <1>1, <1>3, <1>5 DEF PoolInv, PoolTypeOK
<1>7. ContextsLive'
  BY <1>1, <1>4 DEF PoolInv, ContextsLive
<1>8. Ordered'
  BY <1>1 DEF PoolInv, Ordered
<1> QED
  BY <1>6, <1>7, <1>8 DEF PoolInv

\* expire.
LEMMA ExpirePool ==
  ASSUME PoolInv, Expire
  PROVE  PoolInv'
<1>1. /\ pool' = pool \ Expired /\ contexts' = Pruned(Expired)
      /\ UNCHANGED <<now, nextId, stack, used, since>>
  BY DEF Expire
<1>2. Expired \in {{}, Expired}
  OBVIOUS
<1>3. contexts' \in [Dep -> [Event -> [Channel -> Id \cup {None}]]]
  BY <1>1, <1>2, Removed
<1>4. PoolTypeOK'
  BY <1>1, <1>3 DEF PoolInv, PoolTypeOK
<1>5. ContextsLive'
  <2>1. ASSUME NEW d \in Dep, NEW e \in Event, NEW c \in Channel,
               Pruned(Expired)[d][e][c] # None
        PROVE  \E m \in pool \ Expired :
                 m.id = Pruned(Expired)[d][e][c] /\ m.channel = c /\ m.about = e
    BY <1>2, <2>1, Removed
  <2> QED
    BY <1>1, <2>1 DEF ContextsLive
<1>6. Ordered'
  BY <1>1 DEF PoolInv, Ordered
<1> QED
  BY <1>4, <1>5, <1>6 DEF PoolInv

\* A step of a publication, or time.
LEMMA StepPool ==
  ASSUME PoolInv, PoolStep
  PROVE  PoolInv'
<1>1. CASE \E c \in Channel, e \in Event : Replies(c, e)
  BY <1>1, PublishPool DEF Replies
<1>2. CASE Notified
  <2>1. /\ stack # << >> /\ Top \in Frame
        /\ Becomes([Top EXCEPT !.at = "check", !.deps = {d \in Dep : Top.channel \in Required[d]}])
        /\ UNCHANGED <<now, pool, nextId, contexts, used, since>>
    BY <1>2, TopIsFrame DEF Notified, Runs, PoolInv
  <2>2. [Top EXCEPT !.at = "check", !.deps = {d \in Dep : Top.channel \in Required[d]}] \in Frame
    BY <2>1 DEF Frame
  <2>3. used' \in [Dep -> SUBSET Id] /\ since' \in [Dep -> [Event -> 1 .. MaxId + 1]]
    BY <2>1 DEF PoolInv, PoolTypeOK
  <2> QED
    BY <2>1, <2>2, <2>3, FramePool
<1>3. ASSUME NEW d \in Dep, CheckEmpty(d) PROVE PoolInv'
  <2>1. /\ stack # << >> /\ Top \in Frame /\ Becomes([Top EXCEPT !.deps = @ \ {d}])
        /\ UNCHANGED <<now, pool, nextId, contexts, used, since>>
    BY <1>3, TopIsFrame DEF CheckEmpty, Runs, PoolInv
  <2>2. [Top EXCEPT !.deps = @ \ {d}] \in Frame
    BY <2>1 DEF Frame
  <2>3. used' \in [Dep -> SUBSET Id] /\ since' \in [Dep -> [Event -> 1 .. MaxId + 1]]
    BY <2>1 DEF PoolInv, PoolTypeOK
  <2> QED
    BY <2>1, <2>2, <2>3, FramePool
<1>4. CASE Published
  <2>1. /\ stack # << >> /\ stack' = SubSeq(stack, 1, Len(stack) - 1)
        /\ UNCHANGED <<now, pool, nextId, contexts, used, since>>
    BY <1>4 DEF Published, Runs
  <2>2. stack' \in Seq(Frame)
    BY <2>1, Popped DEF PoolInv, PoolTypeOK
  <2>3. PoolTypeOK'
    BY <2>1, <2>2 DEF PoolInv, PoolTypeOK
  <2> QED
    BY <2>1, <2>3 DEF PoolInv, ContextsLive, Ordered
<1>5. CASE Pass
  <2>1. now' = now + 1 /\ UNCHANGED <<pool, nextId, contexts, stack, used, since>>
    BY <1>5 DEF Pass
  <2>2. now \in Nat /\ TTL \in Nat /\ \A m \in pool : m.expires \in Nat
    BY PoolAssumption DEF PoolInv, PoolTypeOK, Message
  <2>3. PoolTypeOK'
    BY <2>1, <2>2 DEF PoolInv, PoolTypeOK
  <2>4. Ordered'
    BY <2>1, <2>2 DEF PoolInv, Ordered
  <2> QED
    BY <2>1, <2>3, <2>4 DEF PoolInv, ContextsLive
<1> QED
  BY <1>1, <1>2, <1>3, <1>4, <1>5, CheckPool, CallbackPool, ExpirePool DEF PoolStep

(***************************************************************************)
(* Admission.  The set of seen events remembers every admission that may   *)
(* still collide with another one of its event.                            *)
(***************************************************************************)
Separate(x, y) == x.at + DedupeTTL <= y.at \/ y.at + DedupeTTL <= x.at

Remembered ==
  /\ \A x \in backlog : x.at + DedupeTTL <= seen[x.event]
  /\ \A x \in dispatched : x.at + DedupeTTL <= seen[x.event]

Apart ==
  /\ \A x, y \in backlog : x.event = y.event => x = y \/ Separate(x, y)
  /\ \A x \in backlog, y \in dispatched : x.event = y.event => Separate(x, y)

GatewayInv == PoolInv /\ TypeOK /\ Remembered /\ Apart /\ NoEarlyRepeat

\* The limits are numbers.
LEMMA Limits ==
  ASSUME TypeOK
  PROVE  /\ now \in Nat /\ DedupeTTL \in Nat /\ DedupeTTL > 0
         /\ \A e \in Event : seen[e] \in Nat
         /\ \A x \in backlog : x.event \in Event /\ x.at \in Nat
         /\ \A x \in dispatched : x.event \in Event /\ x.at \in Nat
BY GatewayAssumption DEF TypeOK, PoolTypeOK, Admission

\* The initial states.
LEMMA InitGateway == Init => GatewayInv
<1> SUFFICES ASSUME Init PROVE GatewayInv
  OBVIOUS
<1>1. PoolInv
  BY InitPoolInv DEF Init
<1>2. TypeOK
  BY <1>1 DEF Init, TypeOK, PoolInv
<1> QED
  BY <1>1, <1>2 DEF Init, GatewayInv, Remembered, Apart, NoEarlyRepeat

\* An event that is admitted was admitted before at least DedupeTTL ago.
LEMMA AdmitGateway ==
  ASSUME GatewayInv, NEW e \in Event, Admit(e)
  PROVE  GatewayInv'
<1> DEFINE new == [event |-> e, at |-> now]
<1>1. /\ ~Duplicate(e) /\ seen' = [seen EXCEPT ![e] = now + DedupeTTL]
      /\ recent' = InWindow \cup {new} /\ UNCHANGED <<poolVars, current, todo, dispatched>>
  BY DEF Admit
<1>2. PICK evicted \in SUBSET backlog : backlog' = (backlog \ evicted) \cup {new}
  BY DEF Admit
<1>3. UNCHANGED <<now, pool, nextId, contexts, stack, used, since>>
  BY <1>1 DEF poolVars
<1>4. PoolInv'
  BY <1>3 DEF GatewayInv, PoolInv, PoolTypeOK, ContextsLive, Ordered
<1>5. /\ now \in Nat /\ DedupeTTL \in Nat /\ DedupeTTL > 0
      /\ \A f \in Event : seen[f] \in Nat
      /\ \A x \in backlog : x.event \in Event /\ x.at \in Nat
      /\ \A x \in dispatched : x.event \in Event /\ x.at \in Nat
  BY Limits DEF GatewayInv
<1>6. new \in Admission /\ new.event = e /\ new.at = now
  BY <1>5 DEF Admission
<1> HIDE DEF new
<1>7. TypeOK'
  BY <1>1, <1>2, <1>4, <1>5, <1>6 DEF GatewayInv, PoolInv, TypeOK, InWindow
<1>8. seen[e] <= now
  BY <1>1, <1>5 DEF Duplicate
<1>9. \A f \in Event : seen[f] <= seen'[f] /\ seen'[f] \in Nat /\ seen'[e] = now + DedupeTTL
  BY <1>1, <1>5, <1>8 DEF GatewayInv, TypeOK
<1>10. \A x \in backlog' : x = new \/ x \in backlog
  BY <1>2
<1>11. Remembered'
  BY <1>1, <1>5, <1>6, <1>9, <1>10 DEF GatewayInv, Remembered
<1>12. \A x \in backlog \cup dispatched : x.event = e => x.at + DedupeTTL <= now
  BY <1>5, <1>8 DEF GatewayInv, Remembered
<1>13. Apart'
  BY <1>1, <1>5, <1>6, <1>10, <1>12 DEF GatewayInv, Apart, Separate
<1>14. NoEarlyRepeat'
  BY <1>1 DEF GatewayInv, NoEarlyRepeat
<1> QED
  BY <1>4, <1>7, <1>11, <1>13, <1>14 DEF GatewayInv

\* An event that is dispatched leaves the backlog.
LEMMA DispatchGateway ==
  ASSUME GatewayInv, Dispatch
  PROVE  GatewayInv'
<1>1. PICK x \in backlog :
        /\ backlog' = backlog \ {x}
        /\ current' = IF Handlers[x.event] = {} THEN {} ELSE {x}
        /\ todo' = Handlers[x.event]
        /\ dispatched' = dispatched \cup {[event |-> x.event, at |-> x.at, on |-> now]}
        /\ UNCHANGED <<poolVars, seen, recent>>
  BY DEF Dispatch
<1>2. UNCHANGED <<now, pool, nextId, contexts, stack, used, since>>
  BY <1>1 DEF poolVars
<1>3. PoolInv'
  BY <1>2 DEF GatewayInv, PoolInv, PoolTypeOK, ContextsLive, Ordered
<1>4. /\ now \in Nat /\ DedupeTTL \in Nat /\ DedupeTTL > 0
      /\ \A f \in Event : seen[f] \in Nat
      /\ \A y \in backlog : y.event \in Event /\ y.at \in Nat
      /\ \A y \in dispatched : y.event \in Event /\ y.at \in Nat
  BY Limits DEF GatewayInv
<1> DEFINE new == [event |-> x.event, at |-> x.at, on |-> now]
<1>5. new \in [event: Event, at: Nat, on: Nat] /\ new.event = x.event /\ new.at = x.at
  BY <1>4
<1>6. dispatched' = dispatched \cup {new}
  BY <1>1
<1> HIDE DEF new
<1>7. todo' \subseteq Channel
  BY <1>1, <1>4, GatewayAssumption
<1>8. TypeOK'
  BY <1>1, <1>3, <1>5, <1>6, <1>7 DEF GatewayInv, PoolInv, TypeOK
<1>9. Remembered'
  BY <1>1, <1>5, <1>6 DEF GatewayInv, Remembered
<1>10. \A y \in backlog' : y \in backlog /\ y # x
  BY <1>1
<1>11. Apart'
  <2>1. \A y, z \in backlog' : y.event = z.event => y = z \/ Separate(y, z)
    BY <1>10 DEF GatewayInv, Apart
  <2>2. \A y \in backlog', z \in dispatched' : y.event = z.event => Separate(y, z)
    <3> TAKE y \in backlog', z \in dispatched'
    <3>1. CASE z \in dispatched
      BY <1>10, <3>1 DEF GatewayInv, Apart
    <3>2. CASE z = new
      BY <1>5, <1>10, <3>2 DEF GatewayInv, Apart, Separate
    <3> QED
      BY <1>6, <3>1, <3>2
  <2> QED
    BY <2>1, <2>2 DEF Apart, Separate
<1>12. NoEarlyRepeat'
  <2>1. \A z \in dispatched : z.event = new.event => Separate(new, z)
    BY <1>5 DEF GatewayInv, Apart, Separate
  <2>2. \A z \in dispatched' : z \in dispatched \/ z = new
    BY <1>6
  <2>3. \A y, z \in dispatched : y.event = z.event => y = z \/ Separate(y, z)
    BY DEF GatewayInv, NoEarlyRepeat, Separate
  <2>4. \A y, z \in dispatched' : y.event = z.event => y = z \/ Separate(y, z)
    BY <2>1, <2>2, <2>3 DEF Separate
  <2> QED
    BY <2>4 DEF NoEarlyRepeat, Separate
<1> QED
  BY <1>3, <1>8, <1>9, <1>11, <1>12 DEF GatewayInv

\* The other steps admit and dispatch nothing.
LEMMA OtherGateway ==
  ASSUME GatewayInv, PoolInv', seen' = seen, backlog' = backlog, recent' = recent,
         dispatched' = dispatched, current' \subseteq current, todo' \subseteq todo
  PROVE  GatewayInv'
<1>1. TypeOK'
  BY DEF GatewayInv, PoolInv, TypeOK
<1> QED
  BY <1>1 DEF GatewayInv, Remembered, Apart, Separate, NoEarlyRepeat

\* Every step.
LEMMA NextGateway == GatewayInv /\ [Next]_vars => GatewayInv'
<1> SUFFICES ASSUME GatewayInv, [Next]_vars PROVE GatewayInv'
  OBVIOUS
<1>0. PoolInv
  BY DEF GatewayInv
<1>1. CASE \E c \in Channel : HandlerSilent(c)
  <2>1. /\ todo' \subseteq todo
        /\ UNCHANGED <<now, pool, nextId, contexts, stack, used, since, seen, backlog, recent,
                       current, dispatched>>
    BY <1>1 DEF HandlerSilent, poolVars
  <2>2. PoolInv'
    BY <1>0, <2>1 DEF PoolInv, PoolTypeOK, ContextsLive, Ordered
  <2> QED
    BY <2>1, <2>2, OtherGateway
<1>2. ASSUME NEW c \in Channel, HandlerPublishes(c) PROVE GatewayInv'
  <2>1. PICK x \in current : Publish(c, x.event)
    BY <1>2 DEF HandlerPublishes
  <2>2. x.event \in Event
    BY DEF GatewayInv, TypeOK, Admission
  <2>3. PoolInv'
    BY <1>0, <2>1, <2>2, PublishPool
  <2> QED
    BY <1>2, <2>3, OtherGateway DEF HandlerPublishes
<1>3. CASE Dispatched
  <2>1. /\ current' = {}
        /\ UNCHANGED <<now, pool, nextId, contexts, stack, used, since, seen, backlog, recent,
                       todo, dispatched>>
    BY <1>3 DEF Dispatched, poolVars
  <2>2. PoolInv'
    BY <1>0, <2>1 DEF PoolInv, PoolTypeOK, ContextsLive, Ordered
  <2> QED
    BY <2>1, <2>2, OtherGateway
<1>4. CASE InPool
  BY <1>0, <1>4, StepPool, OtherGateway DEF InPool
<1>5. CASE UNCHANGED vars
  <2>1. UNCHANGED <<now, pool, nextId, contexts, stack, used, since, seen, backlog, recent,
                    current, todo, dispatched>>
    BY <1>5 DEF vars, poolVars
  <2>2. PoolInv'
    BY <1>0, <2>1 DEF PoolInv, PoolTypeOK, ContextsLive, Ordered
  <2> QED
    BY <2>1, <2>2, OtherGateway
<1> QED
  BY <1>1, <1>2, <1>3, <1>4, <1>5, AdmitGateway, DispatchGateway DEF Next

\* Every variable keeps its type.
THEOREM TypeCorrect == Spec => []TypeOK
<1>1. GatewayInv => TypeOK
  BY DEF GatewayInv
<1> QED
  BY <1>1, InitGateway, NextGateway, PTL DEF Spec

\* A context never names a message that has been removed from the pool
\* (_prune_dependency_contexts), wherever handlers publish.
THEOREM ContextsAreLive == Spec => []ContextsLive
<1>1. GatewayInv => ContextsLive
  BY DEF GatewayInv, PoolInv
<1> QED
  BY <1>1, InitGateway, NextGateway, PTL DEF Spec

\* The agents are given an event again DedupeTTL later at the earliest, and only
\* because it was admitted again (_seen of EventAdmission).
THEOREM RepeatsAreLate == Spec => []NoEarlyRepeat
<1>1. GatewayInv => NoEarlyRepeat
  BY DEF GatewayInv
<1> QED
  BY <1>1, InitGateway, NextGateway, PTL DEF Spec

(***************************************************************************)
(* What the order of publications ensures.  The rest assumes that handlers *)
(* do not publish on a channel under publication.                          *)
(***************************************************************************)
\* The publication of frame i has still to be looked at for the dependency d.
Pending(i, d) ==
  \/ stack[i].at = "notify" /\ stack[i].channel \in Required[d]
  \/ d \in stack[i].deps

Active(d, e) == \E i \in DOMAIN stack : <<d, e>> \in stack[i].active

OneEach == \A i, j \in DOMAIN stack : i # j => stack[i].channel # stack[j].channel

\* The message of a publication is the last one of its channel and, once it has
\* expired, all older ones have.
Own ==
  \A i \in DOMAIN stack :
    /\ stack[i].id < nextId
    /\ \A m \in pool : /\ m.id = stack[i].id => m.channel = stack[i].channel
                       /\ m.channel = stack[i].channel => m.id <= stack[i].id
    /\ (\A m \in pool : m.id # stack[i].id) => \A m \in pool : m.id > stack[i].id

\* While a callback runs, nothing is published for its dependency.
Serving ==
  \A i \in DOMAIN stack :
    /\ stack[i].at # "callback" => stack[i].active = {}
    /\ \A d \in stack[i].deps : stack[i].channel \in Required[d]
    /\ \A a \in stack[i].active :
         /\ \A j \in DOMAIN stack : j > i => stack[j].channel \notin Required[a[1]]
         /\ \A m \in pool : m.channel \in Required[a[1]] /\ m.about = a[2]
                             => m.id < since[a[1]][a[2]]

NotYet ==
  \A d \in Dep :
    /\ \A u \in used[d] : u < nextId
    /\ \A i \in DOMAIN stack : Pending(i, d) =>
         /\ stack[i].id \notin used[d]
         /\ \A e \in Event, c \in Channel : contexts[d][e][c] # stack[i].id

UsedActive ==
  \A d \in Dep, e \in Event, c \in Channel : contexts[d][e][c] \in used[d] => Active(d, e)

CompleteActive ==
  \A d \in Dep, e \in Event : Complete(d, contexts[d][e]) => Active(d, e)

\* A context knows the last message since the last activation, or will.
Latest ==
  \A d \in Dep, e \in Event : \A c \in Required[d] : \A m \in OnChannel(c) :
    m.about = e /\ m.id >= since[d][e] =>
      \/ contexts[d][e][c] >= m.id
      \/ \E i \in DOMAIN stack : Pending(i, d) /\ stack[i].id = m.id

OrderInv ==
  /\ OneEach /\ Own /\ Serving /\ NotYet /\ UsedActive /\ CompleteActive /\ Latest

\* What expires is older than what stays.
LEMMA OldestGo ==
  ASSUME PoolInv, NEW removed \in {{}, Expired}
  PROVE  \A p \in removed, q \in pool \ removed : p.id < q.id
<1> SUFFICES ASSUME NEW p \in removed, NEW q \in pool \ removed PROVE p.id < q.id
  OBVIOUS
<1>1. removed = Expired /\ p \in pool /\ q \in pool /\ p.expires < now /\ ~ (q.expires < now)
  BY DEF Expired
<1>2. /\ p.id \in Nat /\ q.id \in Nat /\ p.expires \in Nat /\ q.expires \in Nat
      /\ now \in Nat
  BY <1>1 DEF PoolInv, PoolTypeOK, Message, Id
<1>3. p.id # q.id /\ ~ (q.id < p.id)
  BY <1>1, <1>2 DEF PoolInv, Ordered
<1> QED
  BY <1>2, <1>3

\* The types of what the order is about.
LEMMA OrderTypes ==
  ASSUME PoolInv
  PROVE  /\ nextId \in Nat /\ now \in Nat /\ stack \in Seq(Frame)
         /\ \A m \in pool : m.id \in Nat /\ m.id > 0 /\ m.id < nextId /\ m.channel \in Channel
                            /\ m.about \in Event
         /\ \A i \in DOMAIN stack :
              /\ stack[i] \in Frame /\ stack[i].id \in Nat /\ stack[i].id > 0
              /\ stack[i].deps \subseteq Dep /\ stack[i].active \subseteq Dep \X Event
         /\ \A d \in Dep : \A u \in used[d] : u \in Nat /\ u > 0
         /\ \A d \in Dep, e \in Event : since[d][e] \in Nat
         /\ \A d \in Dep, e \in Event, c \in Channel :
              /\ contexts[d][e][c] \in Nat
              /\ contexts[d][e][c] # None => contexts[d][e][c] < nextId
<1>1. MaxId \in Nat
  BY PoolAssumption
<1>2. nextId \in Nat /\ now \in Nat /\ stack \in Seq(Frame)
  BY <1>1 DEF PoolInv, PoolTypeOK
<1>3. \A m \in pool : /\ m.id \in Nat /\ m.id > 0 /\ m.id < nextId
                       /\ m.channel \in Channel /\ m.about \in Event
  BY DEF PoolInv, PoolTypeOK, Ordered, Message, Id
<1>4. \A i \in DOMAIN stack :
        /\ stack[i] \in Frame /\ stack[i].id \in Nat /\ stack[i].id > 0
        /\ stack[i].deps \subseteq Dep /\ stack[i].active \subseteq Dep \X Event
  <2> TAKE i \in DOMAIN stack
  <2>1. stack[i] \in Frame
    BY <1>2
  <2> QED
    BY <2>1 DEF Frame, Id
<1>5. /\ \A d \in Dep : \A u \in used[d] : u \in Nat /\ u > 0
      /\ \A d \in Dep, e \in Event : since[d][e] \in Nat
  BY <1>1 DEF PoolInv, PoolTypeOK, Id
<1>6. ASSUME NEW d \in Dep, NEW e \in Event, NEW c \in Channel
      PROVE  /\ contexts[d][e][c] \in Nat
             /\ contexts[d][e][c] # None => contexts[d][e][c] < nextId
  <2>1. contexts[d][e][c] \in Id \cup {None}
    BY DEF PoolInv, PoolTypeOK
  <2>2. contexts[d][e][c] # None => \E m \in pool : m.id = contexts[d][e][c]
    BY DEF PoolInv, ContextsLive
  <2> QED
    BY <1>3, <2>1, <2>2 DEF Id, None
<1> QED
  BY <1>2, <1>3, <1>4, <1>5, <1>6

\* Contexts lose what is removed and nothing else.
LEMMA Forgotten ==
  ASSUME PoolInv, NEW removed \in {{}, Expired}
  PROVE  \A d \in Dep, e \in Event, c \in Channel :
           \/ Pruned(removed)[d][e][c] = contexts[d][e][c]
           \/ /\ Pruned(removed)[d][e][c] = None
              /\ \E p \in removed : p.id = contexts[d][e][c]
<1>1. \A d \in Dep, e \in Event, c \in Channel :
        IF \E m \in removed : m.id = contexts[d][e][c]
          THEN Pruned(removed)[d][e][c] = None
          ELSE Pruned(removed)[d][e][c] = contexts[d][e][c]
  BY Removed
<1> QED
  BY <1>1

\* The initial states.
LEMMA InitOrder ==
  ASSUME PoolInit, \A d \in Dep : Required[d] # {}
  PROVE  OrderInv
<1>1. DOMAIN stack = {} /\ pool = {} /\ nextId = 1
  BY DEF PoolInit
<1>2. \A d \in Dep, e \in Event : /\ ~ Complete(d, contexts[d][e])
                                 /\ \A c \in Channel : contexts[d][e][c] \notin used[d]
  BY RequiredChannels DEF PoolInit, Complete
<1>3. NotYet
  BY <1>1 DEF PoolInit, NotYet
<1> QED
  BY <1>1, <1>2, <1>3
     DEF OrderInv, OneEach, Own, Serving, UsedActive, CompleteActive, Latest, OnChannel

\* What a removal of expired messages leaves true, the stack being as it was.
LEMMA ExpireOrder ==
  ASSUME PoolInv, OrderInv, NEW removed \in {{}, Expired},
         pool' = pool \ removed, contexts' = Pruned(removed),
         UNCHANGED <<nextId, stack, used, since>>
  PROVE  OrderInv'
<1>1. \A d \in Dep, e \in Event, c \in Channel :
        \/ contexts'[d][e][c] = contexts[d][e][c]
        \/ contexts'[d][e][c] = None /\ \E p \in removed : p.id = contexts[d][e][c]
  BY Forgotten
<1>2. \A p \in removed, q \in pool \ removed : p.id < q.id
  BY OldestGo
<1>3. /\ \A m \in pool : m.id \in Nat /\ m.channel \in Channel
      /\ \A i \in DOMAIN stack : stack[i].id \in Nat /\ stack[i].id > 0
      /\ \A d \in Dep : \A u \in used[d] : u > 0
      /\ \A d \in Dep, e \in Event, c \in Channel : contexts[d][e][c] \in Nat
  BY OrderTypes
<1>4. OneEach' /\ Serving'
  BY DEF OrderInv, OneEach, Serving
<1>5. Own'
  <2> SUFFICES ASSUME NEW i \in DOMAIN stack, \A m \in pool \ removed : m.id # stack[i].id
               PROVE  \A m \in pool \ removed : m.id > stack[i].id
    BY DEF OrderInv, Own
  <2>1. CASE \A m \in pool : m.id # stack[i].id
    BY <2>1 DEF OrderInv, Own
  <2>2. CASE \E m \in pool : m.id = stack[i].id
    BY <1>2, <1>3, <2>2
  <2> QED
    BY <2>1, <2>2
<1>6. NotYet'
  BY <1>1, <1>3 DEF OrderInv, NotYet, Pending, None
<1>7. UsedActive'
  <2> SUFFICES ASSUME NEW d \in Dep, NEW e \in Event, NEW c \in Channel,
                      contexts'[d][e][c] \in used[d]
               PROVE  Active(d, e)
    BY DEF UsedActive, Active
  <2>1. contexts'[d][e][c] = contexts[d][e][c]
    BY <1>1, <1>3 DEF None
  <2> QED
    BY <2>1 DEF OrderInv, UsedActive
<1>8. CompleteActive'
  <2> SUFFICES ASSUME NEW d \in Dep, NEW e \in Event,
                      \A c \in Required[d] : contexts'[d][e][c] # None
               PROVE  Active(d, e)
    BY DEF CompleteActive, Complete, Active
  <2>1. \A c \in Required[d] : contexts[d][e][c] # None
    BY <1>1, RequiredChannels
  <2> QED
    BY <2>1 DEF OrderInv, CompleteActive, Complete
<1>9. Latest'
  <2> SUFFICES ASSUME NEW d \in Dep, NEW e \in Event, NEW c \in Required[d],
                      NEW m \in pool \ removed, m.channel = c, m.about = e, m.id >= since[d][e]
               PROVE  \/ contexts'[d][e][c] >= m.id
                      \/ \E i \in DOMAIN stack : Pending(i, d) /\ stack[i].id = m.id
    BY DEF Latest, OnChannel, Pending
  <2>1. CASE \E i \in DOMAIN stack : Pending(i, d) /\ stack[i].id = m.id
    BY <2>1
  <2>2. CASE contexts[d][e][c] >= m.id
    <3>1. c \in Channel
      BY RequiredChannels
    <3>2. ~ \E p \in removed : p.id = contexts[d][e][c]
      BY <1>2, <1>3, <2>2, <3>1
    <3> QED
      BY <1>1, <2>2, <3>1, <3>2
  <2> QED
    BY <2>1, <2>2 DEF OrderInv, Latest, OnChannel
<1> QED
  BY <1>4, <1>5, <1>6, <1>7, <1>8, <1>9 DEF OrderInv

\* A publication starts, on a channel that no publication under way needs.
LEMMA PublishOrder ==
  ASSUME PoolInv, OrderInv, ~Reentrant, NEW c \in Channel, NEW e \in Event,
         Publish(c, e), Free(c)
  PROVE  OrderInv'
<1> DEFINE new == [id |-> nextId, channel |-> c, about |-> e, expires |-> now + TTL]
           frame == [id |-> nextId, channel |-> c, at |-> "notify", deps |-> {}, active |-> {}]
<1>0. PICK n \in Nat : n = Len(stack)
  BY OrderTypes
<1>1. PICK removed \in {{}, Expired} :
        /\ pool' = (pool \ removed) \cup {new} /\ contexts' = Pruned(removed)
        /\ stack' = Append(stack, frame) /\ nextId' = nextId + 1 /\ nextId \in Id
        /\ UNCHANGED <<now, used, since>>
  BY DEF Publish, Overdue
<1>2. \A d \in Dep, f \in Event, a \in Channel :
        \/ contexts'[d][f][a] = contexts[d][f][a]
        \/ contexts'[d][f][a] = None /\ \E p \in removed : p.id = contexts[d][f][a]
  BY <1>1, Forgotten, ZenonT(40)
<1>3. \A p \in removed, q \in pool \ removed : p.id < q.id
  BY OldestGo
<1>4. /\ nextId \in Nat /\ nextId > 0
      /\ \A m \in pool : m.id \in Nat /\ m.channel \in Channel /\ m.id < nextId
      /\ \A i \in DOMAIN stack : stack[i].id \in Nat /\ stack[i].id > 0
      /\ \A d \in Dep : \A u \in used[d] : u \in Nat /\ u > 0
      /\ \A d \in Dep, f \in Event, a \in Channel :
           contexts[d][f][a] \in Nat /\ (contexts[d][f][a] # None => contexts[d][f][a] < nextId)
  BY <1>1, OrderTypes DEF Id
<1>5. frame \in Frame /\ new.id = nextId /\ new.channel = c
  BY <1>1 DEF Frame
<1>6. /\ n \in Nat /\ DOMAIN stack = 1 .. n /\ DOMAIN stack' = 1 .. n + 1
      /\ \A i \in 1 .. n : stack'[i] = stack[i]
      /\ stack'[n + 1] = frame
  <2>1. stack \in Seq(Frame)
    BY OrderTypes
  <2>2. /\ stack' \in Seq(Frame) /\ Len(stack') = n + 1 /\ stack'[n + 1] = frame
        /\ \A i \in 1 .. n : stack'[i] = stack[i]
    BY <1>0, <1>1, <1>5, <2>1, Pushed
  <2> HIDE DEF frame
  <2> QED
    BY <1>0, <2>1, <2>2
<1>7. /\ \A i \in 1 .. n : stack[i].channel # c
      /\ \A i \in 1 .. n : \A a \in stack[i].active : c \notin Required[a[1]]
  BY <1>6 DEF Free
<1>8. /\ stack'[n + 1].id = nextId /\ stack'[n + 1].channel = c /\ stack'[n + 1].at = "notify"
      /\ stack'[n + 1].deps = {} /\ stack'[n + 1].active = {}
  BY <1>6
<1> HIDE DEF new, frame
<1>9. \A i \in 1 .. n + 1 : i \in 1 .. n \/ i = n + 1
  BY <1>6
<1>10. OneEach'
  BY <1>6, <1>7, <1>8, <1>9 DEF OrderInv, OneEach
<1>11. Own'
  <2> SUFFICES ASSUME NEW i \in DOMAIN stack'
               PROVE  /\ stack'[i].id < nextId'
                      /\ \A m \in pool' : /\ m.id = stack'[i].id => m.channel = stack'[i].channel
                                          /\ m.channel = stack'[i].channel => m.id <= stack'[i].id
                      /\ (\A m \in pool' : m.id # stack'[i].id)
                           => \A m \in pool' : m.id > stack'[i].id
    BY DEF Own
  <2>1. CASE i = n + 1
    BY <1>1, <1>4, <1>5, <1>8, <2>1
  <2>2. CASE i \in 1 .. n
    <3>1. /\ stack'[i].id < nextId'
          /\ \A m \in pool' : /\ m.id = stack'[i].id => m.channel = stack'[i].channel
                              /\ m.channel = stack'[i].channel => m.id <= stack'[i].id
      BY <1>1, <1>4, <1>5, <1>6, <1>7, <2>2 DEF OrderInv, Own
    <3>2. CASE \A m \in pool : m.id # stack[i].id
      <4>1. \A m \in pool : m.id > stack[i].id
        BY <1>6, <2>2, <3>2 DEF OrderInv, Own
      <4>2. stack[i].id < nextId
        BY <1>6, <2>2 DEF OrderInv, Own
      <4> QED
        BY <1>1, <1>5, <1>6, <2>2, <3>1, <4>1, <4>2
    <3>3. CASE \E m \in pool : m.id = stack[i].id
      <4>1. PICK p \in pool : p.id = stack[i].id
        BY <3>3
      <4>2. p \in removed => \A q \in pool \ removed : stack[i].id < q.id
        BY <1>3, <4>1
      <4>3. stack[i].id < nextId /\ stack[i].id \in Nat
        BY <1>4, <1>6, <2>2 DEF OrderInv, Own
      <4> QED
        BY <1>1, <1>4, <1>5, <1>6, <2>2, <3>1, <4>1, <4>2, <4>3
    <3> QED
      BY <3>2, <3>3
  <2> QED
    BY <1>6, <1>9, <2>1, <2>2
<1>12. Serving'
  <2> SUFFICES ASSUME NEW i \in 1 .. n + 1
               PROVE  /\ stack'[i].at # "callback" => stack'[i].active = {}
                      /\ \A d \in stack'[i].deps : stack'[i].channel \in Required[d]
                      /\ \A a \in stack'[i].active :
                           /\ \A j \in 1 .. n + 1 : j > i => stack'[j].channel \notin Required[a[1]]
                           /\ \A m \in pool' : m.channel \in Required[a[1]] /\ m.about = a[2]
                                               => m.id < since[a[1]][a[2]]
    BY <1>1, <1>6 DEF Serving
  <2>1. CASE i = n + 1
    BY <1>8, <2>1
  <2>2. CASE i \in 1 .. n
    <3>1. /\ stack'[i] = stack[i]
          /\ stack[i].at # "callback" => stack[i].active = {}
          /\ \A d \in stack[i].deps : stack[i].channel \in Required[d]
      BY <1>6, <2>2 DEF OrderInv, Serving
    <3>2. ASSUME NEW a \in stack[i].active
          PROVE  /\ \A j \in 1 .. n + 1 : j > i => stack'[j].channel \notin Required[a[1]]
                 /\ \A m \in pool' : m.channel \in Required[a[1]] /\ m.about = a[2]
                                     => m.id < since[a[1]][a[2]]
      <4>1. /\ \A j \in 1 .. n : j > i => stack[j].channel \notin Required[a[1]]
            /\ \A m \in pool : m.channel \in Required[a[1]] /\ m.about = a[2]
                               => m.id < since[a[1]][a[2]]
        BY <1>6, <2>2 DEF OrderInv, Serving
      <4>2. c \notin Required[a[1]]
        BY <1>7, <2>2
      <4>3. \A j \in 1 .. n + 1 : j > i => stack'[j].channel \notin Required[a[1]]
        <5> TAKE j \in 1 .. n + 1
        <5>1. CASE j = n + 1
          BY <1>8, <4>2, <5>1
        <5>2. CASE j \in 1 .. n
          BY <1>6, <4>1, <5>2
        <5> QED
          BY <1>9, <5>1, <5>2
      <4>4. \A m \in pool' : m.channel \in Required[a[1]] /\ m.about = a[2]
                             => m.id < since[a[1]][a[2]]
        BY <1>1, <1>5, <4>1, <4>2
      <4> QED
        BY <4>3, <4>4
    <3> QED
      BY <3>1, <3>2
  <2> QED
    BY <1>9, <2>1, <2>2
<1>13. \A d \in Dep, i \in 1 .. n : Pending(i, d)' <=> Pending(i, d)
  BY <1>6 DEF Pending
<1>14. NotYet'
  <2>1. \A d \in Dep : \A u \in used'[d] : u < nextId'
    BY <1>1, <1>4 DEF OrderInv, NotYet
  <2>2. ASSUME NEW d \in Dep, NEW i \in 1 .. n, Pending(i, d)
        PROVE  /\ stack'[i].id \notin used'[d]
               /\ \A f \in Event, a \in Channel : contexts'[d][f][a] # stack'[i].id
    BY <1>1, <1>2, <1>4, <1>6, <2>2 DEF OrderInv, NotYet, None
  <2>3. ASSUME NEW d \in Dep
        PROVE  /\ nextId \notin used'[d]
               /\ \A f \in Event, a \in Channel : contexts'[d][f][a] # nextId
    BY <1>1, <1>2, <1>4 DEF OrderInv, NotYet, None
  <2> QED
    BY <1>6, <1>8, <1>9, <1>13, <2>1, <2>2, <2>3 DEF NotYet
<1>15. \A d \in Dep, f \in Event : Active(d, f) => Active(d, f)'
  BY <1>6 DEF Active
<1>16. UsedActive'
  BY <1>1, <1>2, <1>4, <1>15 DEF OrderInv, UsedActive, None
<1>17. CompleteActive'
  BY <1>2, <1>15, RequiredChannels DEF OrderInv, CompleteActive, Complete
<1>18. Latest'
  <2> SUFFICES ASSUME NEW d \in Dep, NEW f \in Event, NEW a \in Required[d],
                      NEW m \in pool', m.channel = a, m.about = f, m.id >= since[d][f]
               PROVE  \/ contexts'[d][f][a] >= m.id
                      \/ \E i \in 1 .. n + 1 : Pending(i, d)' /\ stack'[i].id = m.id
    BY <1>1, <1>6 DEF Latest, OnChannel
  <2>1. CASE m = new
    <3>1. Pending(n + 1, d)' /\ n + 1 \in 1 .. n + 1
      BY <1>5, <1>6, <1>8, <2>1 DEF Pending
    <3> QED
      BY <1>5, <1>8, <2>1, <3>1
  <2>2. CASE m \in pool \ removed
    <3>1. CASE \E i \in 1 .. n : Pending(i, d) /\ stack[i].id = m.id
      BY <1>6, <1>13, <3>1
    <3>2. CASE contexts[d][f][a] >= m.id
      <4>1. a \in Channel
        BY RequiredChannels
      <4>2. ~ \E p \in removed : p.id = contexts[d][f][a]
        BY <1>3, <1>4, <2>2, <3>2, <4>1
      <4> QED
        BY <1>2, <3>2, <4>1, <4>2
    <3> QED
      BY <1>6, <2>2, <3>1, <3>2 DEF OrderInv, Latest, OnChannel
  <2> QED
    BY <1>1, <2>1, <2>2
<1> QED
  BY <1>10, <1>11, <1>12, <1>14, <1>16, <1>17, <1>18 DEF OrderInv

\* A publication that goes on, as its frame f tells.
LEMMA TopChanges ==
  ASSUME PoolInv, OrderInv, stack # << >>, NEW f \in Frame, Becomes(f),
         f.id = Top.id, f.channel = Top.channel, UNCHANGED <<pool, nextId>>
  PROVE  /\ Len(stack) \in Nat /\ Len(stack) \in DOMAIN stack /\ Top = stack[Len(stack)]
         /\ DOMAIN stack = 1 .. Len(stack) /\ DOMAIN stack' = DOMAIN stack
         /\ \A i \in DOMAIN stack : i # Len(stack) => stack'[i] = stack[i] /\ i < Len(stack)
         /\ stack'[Len(stack)] = f /\ Len(stack') = Len(stack)
         /\ \A i \in DOMAIN stack :
              stack'[i].id = stack[i].id /\ stack'[i].channel = stack[i].channel
         /\ OneEach' /\ Own'
<1>1. stack \in Seq(Frame)
  BY OrderTypes
<1>2. /\ stack' \in Seq(Frame) /\ Len(stack') = Len(stack) /\ Len(stack) \in 1 .. Len(stack)
      /\ stack'[Len(stack)] = f
      /\ \A i \in 1 .. Len(stack) : i # Len(stack) => stack'[i] = stack[i]
  BY <1>1, Changed DEF Becomes
<1>3. /\ Len(stack) \in Nat /\ DOMAIN stack = 1 .. Len(stack) /\ DOMAIN stack' = DOMAIN stack
      /\ Top = stack[Len(stack)]
  BY <1>1, <1>2 DEF Top
<1>4. \A i \in DOMAIN stack : i # Len(stack) => stack'[i] = stack[i] /\ i < Len(stack)
  <2>1. PICK n \in Nat : n = Len(stack)
    BY <1>3
  <2>2. \A i \in 1 .. n : i # n => i < n
    OBVIOUS
  <2> QED
    BY <1>2, <1>3, <2>1, <2>2
<1>5. \A i \in DOMAIN stack :
        stack'[i].id = stack[i].id /\ stack'[i].channel = stack[i].channel
  BY <1>2, <1>3, <1>4
<1>6. OneEach' /\ Own'
  BY <1>3, <1>5 DEF OrderInv, OneEach, Own
<1> QED
  BY <1>2, <1>3, <1>4, <1>5, <1>6

\* The subscribers have been called.
LEMMA NotifiedOrder ==
  ASSUME PoolInv, OrderInv, Notified
  PROVE  OrderInv'
<1> DEFINE f == [Top EXCEPT !.at = "check", !.deps = {d \in Dep : Top.channel \in Required[d]}]
<1>0. PICK n \in Nat : n = Len(stack)
  BY OrderTypes
<1>1. /\ stack # << >> /\ Top \in Frame /\ Top.at = "notify" /\ Becomes(f)
      /\ UNCHANGED <<now, pool, nextId, contexts, used, since>>
  BY TopIsFrame DEF Notified, Runs, PoolInv
<1>2. /\ f \in Frame /\ f.id = Top.id /\ f.channel = Top.channel /\ f.at = "check"
      /\ f.active = Top.active /\ \A d \in Dep : d \in f.deps <=> Top.channel \in Required[d]
      /\ f.deps \subseteq Dep
  BY <1>1 DEF Frame
<1> HIDE DEF f
<1>3. /\ n \in DOMAIN stack /\ Top = stack[n] /\ DOMAIN stack' = DOMAIN stack
      /\ \A i \in DOMAIN stack : i # n => stack'[i] = stack[i]
      /\ stack'[n] = f
      /\ \A i \in DOMAIN stack : stack'[i].channel = stack[i].channel /\ stack'[i].id = stack[i].id
      /\ OneEach' /\ Own'
  BY <1>0, <1>1, <1>2, TopChanges
<1>4. \A d \in Dep, i \in DOMAIN stack : Pending(i, d)' <=> Pending(i, d)
  BY <1>1, <1>2, <1>3 DEF Pending, OrderInv, Serving
<1>5. \A d \in Dep, e \in Event : Active(d, e)' <=> Active(d, e)
  BY <1>2, <1>3 DEF Active
<1>6. Serving'
  BY <1>1, <1>2, <1>3 DEF OrderInv, Serving
<1>7. NotYet'
  BY <1>1, <1>3, <1>4 DEF OrderInv, NotYet
<1>8. UsedActive' /\ CompleteActive'
  BY <1>1, <1>5 DEF OrderInv, UsedActive, CompleteActive, Complete
<1>9. Latest'
  BY <1>1, <1>3, <1>4 DEF OrderInv, Latest, OnChannel
<1> QED
  BY <1>3, <1>6, <1>7, <1>8, <1>9 DEF OrderInv

\* The channel is empty, so that the message of the publication has gone.
LEMMA CheckEmptyOrder ==
  ASSUME PoolInv, OrderInv, NEW d \in Dep, CheckEmpty(d)
  PROVE  OrderInv'
<1> DEFINE f == [Top EXCEPT !.deps = @ \ {d}]
<1>0. PICK n \in Nat : n = Len(stack)
  BY OrderTypes
<1>1. /\ stack # << >> /\ Top \in Frame /\ Top.at = "check" /\ Becomes(f)
      /\ OnChannel(Top.channel) = {}
      /\ UNCHANGED <<now, pool, nextId, contexts, used, since>>
  BY TopIsFrame DEF CheckEmpty, Runs, PoolInv
<1>2. /\ f \in Frame /\ f.id = Top.id /\ f.channel = Top.channel /\ f.at = "check"
      /\ f.active = Top.active /\ f.deps = Top.deps \ {d}
  BY <1>1 DEF Frame
<1> HIDE DEF f
<1>3. /\ n \in DOMAIN stack /\ Top = stack[n] /\ DOMAIN stack' = DOMAIN stack
      /\ \A i \in DOMAIN stack : i # n => stack'[i] = stack[i]
      /\ stack'[n] = f
      /\ \A i \in DOMAIN stack : stack'[i].channel = stack[i].channel /\ stack'[i].id = stack[i].id
      /\ OneEach' /\ Own'
  BY <1>0, <1>1, <1>2, TopChanges
<1>4. \A b \in Dep, i \in DOMAIN stack :
        /\ Pending(i, b)' => Pending(i, b)
        /\ Pending(i, b) => Pending(i, b)' \/ (i = n /\ b = d)
  BY <1>1, <1>2, <1>3 DEF Pending
<1>5. \A b \in Dep, e \in Event : Active(b, e)' <=> Active(b, e)
  BY <1>2, <1>3 DEF Active
<1>6. Serving'
  BY <1>1, <1>2, <1>3 DEF OrderInv, Serving
<1>7. NotYet'
  BY <1>1, <1>3, <1>4 DEF OrderInv, NotYet
<1>8. UsedActive' /\ CompleteActive'
  BY <1>1, <1>5 DEF OrderInv, UsedActive, CompleteActive, Complete
<1>9. \A m \in pool : m.id # stack[n].id
  BY <1>1, <1>3 DEF OrderInv, Own, OnChannel
<1>10. Latest'
  BY <1>1, <1>3, <1>4, <1>9 DEF OrderInv, Latest, OnChannel
<1> QED
  BY <1>3, <1>6, <1>7, <1>8, <1>10 DEF OrderInv

\* A callback has returned.
LEMMA CallbackOrder ==
  ASSUME PoolInv, OrderInv, CallbackReturns, \A d \in Dep : Required[d] # {}
  PROVE  OrderInv'
<1> DEFINE f == [Top EXCEPT !.at = "check", !.active = {}]
<1>0. PICK n \in Nat : n = Len(stack)
  BY OrderTypes
<1>1. /\ stack # << >> /\ Top \in Frame /\ Top.at = "callback" /\ Becomes(f)
      /\ UNCHANGED <<now, pool, nextId, used, since>>
  BY TopIsFrame DEF CallbackReturns, Runs, PoolInv
<1>2. /\ f \in Frame /\ f.id = Top.id /\ f.channel = Top.channel /\ f.at = "check"
      /\ f.active = {} /\ f.deps = Top.deps
  BY <1>1 DEF Frame
<1> HIDE DEF f
<1>3. /\ n \in DOMAIN stack /\ Top = stack[n] /\ DOMAIN stack' = DOMAIN stack
      /\ \A i \in DOMAIN stack : i # n => stack'[i] = stack[i]
      /\ stack'[n] = f
      /\ \A i \in DOMAIN stack : stack'[i].channel = stack[i].channel /\ stack'[i].id = stack[i].id
      /\ OneEach' /\ Own'
  BY <1>0, <1>1, <1>2, TopChanges
<1>4. \A d \in Dep, e \in Event, c \in Channel :
        IF <<d, e>> \in Top.active THEN contexts'[d][e][c] = None
        ELSE contexts'[d][e][c] = contexts[d][e][c]
  BY DEF CallbackReturns
<1>5. \A d \in Dep, i \in DOMAIN stack : Pending(i, d)' <=> Pending(i, d)
  BY <1>1, <1>2, <1>3 DEF Pending
<1>6. \A d \in Dep, e \in Event : <<d, e>> \notin Top.active => (Active(d, e)' <=> Active(d, e))
  BY <1>2, <1>3 DEF Active
<1>7. Serving'
  BY <1>1, <1>2, <1>3 DEF OrderInv, Serving
<1>8. /\ \A i \in DOMAIN stack : stack[i].id > 0
      /\ \A d \in Dep : \A u \in used[d] : u > 0
  BY OrderTypes
<1>9. NotYet'
  <2>1. \A d \in Dep, e \in Event, c \in Channel :
          contexts'[d][e][c] = 0 \/ contexts'[d][e][c] = contexts[d][e][c]
    BY <1>4 DEF None
  <2> QED
    BY <1>1, <1>3, <1>5, <1>8, <2>1 DEF OrderInv, NotYet
<1>10. UsedActive'
  <2> SUFFICES ASSUME NEW d \in Dep, NEW e \in Event, NEW c \in Channel,
                      contexts'[d][e][c] \in used[d]
               PROVE  Active(d, e)'
    BY <1>1 DEF UsedActive
  <2>1. <<d, e>> \notin Top.active /\ contexts'[d][e][c] = contexts[d][e][c]
    BY <1>4, <1>8 DEF None
  <2> QED
    BY <1>6, <2>1 DEF OrderInv, UsedActive
<1>11. CompleteActive'
  <2> SUFFICES ASSUME NEW d \in Dep, NEW e \in Event,
                      \A c \in Required[d] : contexts'[d][e][c] # None
               PROVE  Active(d, e)'
    BY DEF CompleteActive, Complete
  <2>1. /\ <<d, e>> \notin Top.active
        /\ \A c \in Required[d] : contexts'[d][e][c] = contexts[d][e][c]
    BY <1>4, RequiredChannels
  <2> QED
    BY <1>6, <2>1 DEF OrderInv, CompleteActive, Complete
<1>12. Latest'
  <2> SUFFICES ASSUME NEW d \in Dep, NEW e \in Event, NEW c \in Required[d],
                      NEW m \in pool, m.channel = c, m.about = e, m.id >= since[d][e]
               PROVE  \/ contexts'[d][e][c] >= m.id
                      \/ \E i \in DOMAIN stack : Pending(i, d)' /\ stack'[i].id = m.id
    BY <1>1, <1>3 DEF Latest, OnChannel
  <2>1. CASE <<d, e>> \in Top.active
    <3>1. m.id < since[d][e]
      <4>1. \A a \in Top.active : m.channel \in Required[a[1]] /\ m.about = a[2]
                                   => m.id < since[a[1]][a[2]]
        BY <1>3 DEF OrderInv, Serving
      <4> QED
        BY <2>1, <4>1
    <3> QED
      BY <3>1, OrderTypes
  <2>2. CASE <<d, e>> \notin Top.active
    <3>1. contexts'[d][e][c] = contexts[d][e][c]
      BY <1>4, <2>2, RequiredChannels
    <3> QED
      BY <1>3, <1>5, <3>1 DEF OrderInv, Latest, OnChannel
  <2> QED
    BY <2>1, <2>2
<1> QED
  BY <1>3, <1>7, <1>9, <1>10, <1>11, <1>12 DEF OrderInv

\* A publication has returned.
LEMMA PublishedOrder ==
  ASSUME PoolInv, OrderInv, Published
  PROVE  OrderInv'
<1>0. PICK n \in Nat : n = Len(stack)
  BY OrderTypes
<1>1. /\ stack # << >> /\ Top.at = "check" /\ Top.deps = {}
      /\ stack' = SubSeq(stack, 1, Len(stack) - 1)
      /\ UNCHANGED <<now, pool, nextId, contexts, used, since>>
  BY DEF Published, Runs
<1>2. /\ n \in Nat /\ n \in DOMAIN stack /\ Top = stack[n] /\ DOMAIN stack = 1 .. n
      /\ DOMAIN stack' = 1 .. n - 1 /\ \A i \in 1 .. n - 1 : stack'[i] = stack[i]
  <2>1. stack \in Seq(Frame)
    BY OrderTypes
  <2>2. /\ stack' \in Seq(Frame) /\ Len(stack') = n - 1
        /\ \A i \in 1 .. n - 1 : stack'[i] = stack[i]
    BY <1>0, <1>1, <2>1, Popped
  <2> QED
    BY <1>0, <1>1, <2>1, <2>2 DEF Top
<1>3. \A i \in DOMAIN stack' : i \in DOMAIN stack /\ stack'[i] = stack[i] /\ i # n
  BY <1>2
<1>4. \A i \in DOMAIN stack : i # n => i \in DOMAIN stack'
  BY <1>2
<1>5. stack[n].active = {} /\ \A d \in Dep : ~ Pending(n, d)
  BY <1>1, <1>2 DEF OrderInv, Serving, Pending
<1>6. \A d \in Dep, i \in DOMAIN stack' : Pending(i, d)' <=> Pending(i, d)
  BY <1>3 DEF Pending
<1>7. \A d \in Dep, e \in Event : Active(d, e) => Active(d, e)'
  BY <1>3, <1>4, <1>5 DEF Active
<1>8. OneEach' /\ Own' /\ Serving'
  BY <1>1, <1>3 DEF OrderInv, OneEach, Own, Serving
<1>9. NotYet'
  BY <1>1, <1>3, <1>6 DEF OrderInv, NotYet
<1>10. UsedActive' /\ CompleteActive'
  <2>1. UsedActive'
    BY <1>1, <1>7 DEF OrderInv, UsedActive
  <2>2. CompleteActive'
    BY <1>1, <1>7 DEF OrderInv, CompleteActive, Complete
  <2> QED
    BY <2>1, <2>2
<1>11. Latest'
  <2> SUFFICES ASSUME NEW d \in Dep, NEW e \in Event, NEW c \in Required[d],
                      NEW m \in pool, m.channel = c, m.about = e, m.id >= since[d][e]
               PROVE  \/ contexts[d][e][c] >= m.id
                      \/ \E i \in DOMAIN stack' : Pending(i, d)' /\ stack'[i].id = m.id
    BY <1>1 DEF Latest, OnChannel
  <2>1. CASE \E i \in DOMAIN stack : Pending(i, d) /\ stack[i].id = m.id
    <3>1. PICK i \in DOMAIN stack : Pending(i, d) /\ stack[i].id = m.id
      BY <2>1
    <3>2. i \in DOMAIN stack' /\ stack'[i] = stack[i]
      BY <1>3, <1>4, <1>5, <3>1
    <3> QED
      BY <1>6, <3>1, <3>2
  <2> QED
    BY <2>1 DEF OrderInv, Latest, OnChannel
<1> QED
  BY <1>8, <1>9, <1>10, <1>11 DEF OrderInv

\* The message that enters a context is that of the publication itself, and no callback
\* of the dependency runs.
LEMMA ChecksItsOwn ==
  ASSUME PoolInv, OrderInv, NEW d \in Dep, Check(d)
  PROVE  /\ LastOf(Top.channel) \in OnChannel(Top.channel)
         /\ \A m \in OnChannel(Top.channel) : m.id <= LastOf(Top.channel).id
         /\ LastOf(Top.channel).id = Top.id
         /\ Pending(Len(stack), d) /\ Len(stack) \in DOMAIN stack /\ Top = stack[Len(stack)]
         /\ Top.at = "check" /\ Top.active = {} /\ Top.channel \in Required[d]
         /\ \A e \in Event : ~ Active(d, e)
<1> DEFINE n == Len(stack)
           m == LastOf(Top.channel)
<1>1. /\ stack # << >> /\ Top.at = "check" /\ d \in Top.deps /\ OnChannel(Top.channel) # {}
      /\ n \in DOMAIN stack /\ Top = stack[n] /\ DOMAIN stack = 1 .. n /\ n \in Nat
  <2>1. stack \in Seq(Frame)
    BY OrderTypes
  <2> QED
    BY <2>1 DEF Check, Runs, Top
<1>2. m \in OnChannel(Top.channel) /\ \A p \in OnChannel(Top.channel) : p.id <= m.id
  BY <1>1, LastExists DEF PoolInv
<1> HIDE DEF m, n
<1>3. Top.active = {} /\ Top.channel \in Required[d] /\ Pending(n, d)
  BY <1>1 DEF OrderInv, Serving, Pending
<1>4. m \in pool /\ m.id <= Top.id
  BY <1>1, <1>2 DEF OnChannel, OrderInv, Own
<1>5. m.id \in Nat /\ Top.id \in Nat /\ \A p \in pool : p.id \in Nat
  BY <1>1, <1>4, OrderTypes
<1>6. PICK p \in pool : p.id = Top.id
  BY <1>1, <1>4, <1>5 DEF OrderInv, Own
<1>7. p \in OnChannel(Top.channel)
  BY <1>1, <1>6 DEF OnChannel, OrderInv, Own
<1>8. m.id = Top.id
  BY <1>2, <1>4, <1>5, <1>6, <1>7
<1>9. ASSUME NEW e \in Event PROVE ~ Active(d, e)
  <2> SUFFICES ASSUME NEW i \in DOMAIN stack, <<d, e>> \in stack[i].active PROVE FALSE
    BY DEF Active
  <2>1. i # n
    BY <1>1, <1>3
  <2>2. n > i
    BY <1>1, <2>1
  <2>3. \A a \in stack[i].active : stack[n].channel \notin Required[a[1]]
    BY <1>1, <2>2 DEF OrderInv, Serving
  <2> QED
    BY <1>1, <1>3, <2>3
<1> QED
  BY <1>1, <1>2, <1>3, <1>8, <1>9 DEF m, n

\* A dependency is looked at: what the step does to the context and to the stack, and
\* what an activation hands out.
LEMMA CheckOrder ==
  ASSUME PoolInv, OrderInv, NEW d \in Dep, Check(d)
  PROVE  /\ OrderInv'
         /\ \A b \in Dep, f \in Event : Activates(b, f) =>
              \A c \in Required[b] : contexts'[b][f][c] \notin used[b]
<1>0. PICK n \in Nat : n = Len(stack)
  BY OrderTypes
<1>a. PICK m : m = LastOf(Top.channel)
  OBVIOUS
<1>b. PICK e : e = m.about
  OBVIOUS
<1> DEFINE context == [contexts[d][e] EXCEPT ![Top.channel] = m.id]
           calls == [Top EXCEPT !.at = "callback", !.deps = @ \ {d}, !.active = {<<d, e>>}]
           waits == [Top EXCEPT !.deps = @ \ {d}]
<1>1. /\ stack # << >> /\ Top \in Frame
      /\ contexts' = [contexts EXCEPT ![d][e] = context]
      /\ UNCHANGED <<now, pool, nextId>>
  BY <1>a, <1>b, TopIsFrame DEF Check, Runs, PoolInv
<1>2. \/ /\ Complete(d, context) /\ Becomes(calls)
         /\ used' = [used EXCEPT ![d] = @ \cup {context[c] : c \in Required[d]}]
         /\ since' = [since EXCEPT ![d][e] = nextId]
      \/ /\ ~ Complete(d, context) /\ Becomes(waits)
         /\ UNCHANGED <<used, since>>
  BY <1>a, <1>b DEF Check
<1>3. /\ m \in OnChannel(Top.channel) /\ \A p \in OnChannel(Top.channel) : p.id <= m.id
      /\ m.id = Top.id /\ Pending(n, d) /\ n \in DOMAIN stack /\ Top = stack[n]
      /\ Top.at = "check" /\ Top.active = {} /\ Top.channel \in Required[d]
      /\ \A f \in Event : ~ Active(d, f)
  BY <1>0, <1>a, ChecksItsOwn
<1>4. PoolInv'
  BY CheckPool
<1>5. /\ m \in pool /\ m.channel = Top.channel /\ e \in Event /\ Top.channel \in Channel
      /\ m.id \in Nat /\ m.id > 0 /\ m.id < nextId /\ m.id \in Id
  BY <1>3, <1>b, OrderTypes DEF OnChannel, PoolInv, PoolTypeOK, Message
<1>6. /\ contexts \in [Dep -> [Event -> [Channel -> Id \cup {None}]]]
      /\ used \in [Dep -> SUBSET Id]
      /\ since \in [Dep -> [Event -> 1 .. MaxId + 1]]
      /\ nextId \in Nat
  BY OrderTypes DEF PoolInv, PoolTypeOK
<1>7. \A b \in Dep, f \in Event, c \in Channel :
        contexts'[b][f][c] = IF b = d /\ f = e /\ c = Top.channel THEN m.id
                             ELSE contexts[b][f][c]
  BY <1>1, <1>5, <1>6
<1>8. \A c \in Channel : context[c] = contexts'[d][e][c]
  BY <1>1, <1>5, <1>6
<1>9. Complete(d, context) <=> Complete(d, contexts'[d][e])
  BY <1>8, RequiredChannels DEF Complete
<1>10. \A c \in Required[d] : context[c] = contexts'[d][e][c]
  BY <1>8, RequiredChannels
<1> HIDE DEF context
<1>11. /\ calls \in Frame /\ calls.id = Top.id /\ calls.channel = Top.channel
       /\ calls.at = "callback" /\ calls.active = {<<d, e>>} /\ calls.deps = Top.deps \ {d}
       /\ waits \in Frame /\ waits.id = Top.id /\ waits.channel = Top.channel
       /\ waits.at = "check" /\ waits.active = {} /\ waits.deps = Top.deps \ {d}
  <2>1. Top.deps \ {d} \in SUBSET Dep /\ {<<d, e>>} \in SUBSET (Dep \X Event)
    BY <1>1, <1>5 DEF Frame
  <2>2. /\ calls \in Frame /\ calls.id = Top.id /\ calls.channel = Top.channel
        /\ calls.at = "callback" /\ calls.active = {<<d, e>>} /\ calls.deps = Top.deps \ {d}
    <3>1. PICK active \in SUBSET (Dep \X Event), deps \in SUBSET Dep :
            active = {<<d, e>>} /\ deps = Top.deps \ {d}
      BY <2>1
    <3>2. calls = [Top EXCEPT !.at = "callback", !.deps = deps, !.active = active]
      BY <3>1
    <3> HIDE DEF calls
    <3>3. [Top EXCEPT !.at = "callback", !.deps = deps, !.active = active] \in Frame
      BY <1>1, FrameMoves
    <3>4. /\ calls \in Frame /\ calls.id = Top.id /\ calls.channel = Top.channel
          /\ calls.at = "callback" /\ calls.active = active /\ calls.deps = deps
      BY <1>1, <3>2, <3>3 DEF Frame
    <3> QED
      BY <3>1, <3>4
  <2>3. /\ waits \in Frame /\ waits.id = Top.id /\ waits.channel = Top.channel
        /\ waits.at = "check" /\ waits.active = {} /\ waits.deps = Top.deps \ {d}
    BY <1>1, <1>3, <2>1 DEF Frame
  <2> QED
    BY <2>2, <2>3
<1> HIDE DEF calls, waits
<1>12. PICK g \in Frame :
         /\ Becomes(g) /\ g.id = Top.id /\ g.channel = Top.channel
         /\ g.deps = Top.deps \ {d} /\ g.at \in {"check", "callback"}
         /\ \/ /\ Complete(d, contexts'[d][e]) /\ g.active = {<<d, e>>} /\ g.at = "callback"
               /\ used' = [used EXCEPT ![d] = @ \cup {contexts'[d][e][c] : c \in Required[d]}]
               /\ since' = [since EXCEPT ![d][e] = nextId]
            \/ /\ ~ Complete(d, contexts'[d][e]) /\ g.active = {}
               /\ UNCHANGED <<used, since>>
  <2>1. {context[c] : c \in Required[d]} = {contexts'[d][e][c] : c \in Required[d]}
    BY <1>10
  <2> QED
    BY <1>2, <1>9, <1>11, <2>1
<1>13. /\ DOMAIN stack' = DOMAIN stack /\ DOMAIN stack = 1 .. n /\ n \in Nat
       /\ \A i \in DOMAIN stack : i # n => stack'[i] = stack[i] /\ i < n
       /\ stack'[n] = g /\ Len(stack') = n
       /\ \A i \in DOMAIN stack : stack'[i].channel = stack[i].channel
                                /\ stack'[i].id = stack[i].id
       /\ OneEach' /\ Own'
  BY <1>0, <1>1, <1>12, TopChanges
<1>14. \A b \in Dep, i \in DOMAIN stack :
         /\ Pending(i, b)' => Pending(i, b) /\ ~ (i = n /\ b = d)
         /\ Pending(i, b) => Pending(i, b)' \/ (i = n /\ b = d)
  BY <1>3, <1>12, <1>13 DEF Pending
<1>15. \A b \in Dep, f \in Event :
         /\ Active(b, f) => Active(b, f)'
         /\ Active(b, f)' => Active(b, f) \/ (b = d /\ f = e)
         /\ Complete(d, contexts'[d][e]) => Active(d, e)'
  BY <1>3, <1>5, <1>12, <1>13 DEF Active
<1>16. m.id \notin used[d]
  BY <1>3 DEF OrderInv, NotYet
<1>17. \A f \in Event, c \in Channel : contexts'[d][f][c] \notin used[d]
  BY <1>3, <1>7, <1>16 DEF OrderInv, UsedActive
<1>18. /\ \A b \in Dep : b # d => used'[b] = used[b]
       /\ \A x \in used'[d] : \/ x \in used[d]
                              \/ /\ Complete(d, contexts'[d][e])
                                 /\ \E c \in Required[d] : x = contexts'[d][e][c]
       /\ \A b \in Dep, f \in Event : b # d \/ f # e => since'[b][f] = since[b][f]
       /\ IF Complete(d, contexts'[d][e]) THEN since'[d][e] = nextId
          ELSE since'[d][e] = since[d][e]
  BY <1>5, <1>6, <1>12
<1>19. \A b \in Dep, f \in Event, c \in Channel :
         contexts'[b][f][c] # None =>
           /\ contexts'[b][f][c] < nextId
           /\ \E p \in pool : p.id = contexts'[b][f][c] /\ p.channel = c /\ p.about = f
  BY <1>1, <1>4, OrderTypes DEF PoolInv, ContextsLive, Ordered
<1>20. \A p, q \in pool : p.id = q.id => p = q
  BY DEF PoolInv, Ordered
<1>21. Serving'
  <2> SUFFICES ASSUME NEW i \in DOMAIN stack
               PROVE  /\ stack'[i].at # "callback" => stack'[i].active = {}
                      /\ \A b \in stack'[i].deps : stack'[i].channel \in Required[b]
                      /\ \A a \in stack'[i].active :
                           /\ \A j \in DOMAIN stack : j > i => stack'[j].channel \notin Required[a[1]]
                           /\ \A p \in pool : p.channel \in Required[a[1]] /\ p.about = a[2]
                                              => p.id < since'[a[1]][a[2]]
    BY <1>1, <1>13 DEF Serving
  <2>1. CASE i = n
    <3>1. /\ stack'[i].at # "callback" => stack'[i].active = {}
          /\ \A b \in stack'[i].deps : stack'[i].channel \in Required[b]
      BY <1>3, <1>12, <1>13, <2>1 DEF OrderInv, Serving
    <3>2. ASSUME NEW a \in stack'[i].active
          PROVE  /\ \A j \in DOMAIN stack : ~ (j > i)
                 /\ \A p \in pool : p.id < since'[a[1]][a[2]]
      <4>1. a = <<d, e>> /\ Complete(d, contexts'[d][e])
        BY <1>12, <1>13, <2>1
      <4>2. \A p \in pool : p.id < nextId
        BY DEF PoolInv, Ordered
      <4>3. \A j \in DOMAIN stack : ~ (j > i)
        BY <1>13, <2>1
      <4> QED
        BY <1>18, <4>1, <4>2, <4>3
    <3> QED
      BY <3>1, <3>2
  <2>2. CASE i # n
    <3>1. stack'[i] = stack[i] /\ stack[i].active \subseteq Dep \X Event
      BY <1>13, <2>2, OrderTypes
    <3>2. \A a \in stack[i].active : a[1] \in Dep /\ a[2] \in Event /\ a[1] # d
      <4> TAKE a \in stack[i].active
      <4>1. a[1] \in Dep /\ a[2] \in Event /\ a = <<a[1], a[2]>>
        BY <3>1
      <4>2. Active(a[1], a[2])
        BY <4>1 DEF Active
      <4> QED
        BY <1>3, <4>1, <4>2
    <3>3. \A a \in stack[i].active : since'[a[1]][a[2]] = since[a[1]][a[2]]
      BY <1>18, <3>2
    <3> QED
      BY <1>13, <3>1, <3>3 DEF OrderInv, Serving
  <2> QED
    BY <2>1, <2>2
<1>22. NotYet'
  <2>1. ASSUME NEW b \in Dep, NEW u \in used'[b] PROVE u < nextId
    <3>1. CASE u \in used[b]
      BY <3>1 DEF OrderInv, NotYet
    <3>2. CASE u \notin used[b]
      BY <1>5, <1>18, <1>19, <2>1, <3>2, RequiredChannels DEF Complete
    <3> QED
      BY <3>1, <3>2
  <2>2. ASSUME NEW b \in Dep, NEW i \in DOMAIN stack, Pending(i, b)'
        PROVE  /\ stack[i].id \notin used'[b]
               /\ \A f \in Event, c \in Channel : contexts'[b][f][c] # stack[i].id
    <3>1. /\ Pending(i, b) /\ ~ (i = n /\ b = d) /\ stack[i].id \notin used[b]
          /\ \A f \in Event, c \in Channel : contexts[b][f][c] # stack[i].id
      BY <1>14, <2>2 DEF OrderInv, NotYet
    <3>2. CASE b # d
      BY <1>7, <1>18, <3>1, <3>2
    <3>3. CASE b = d
      <4>1. stack[i].channel # Top.channel
        BY <1>3, <3>1, <3>3 DEF OrderInv, OneEach
      <4>2. stack[i].id # m.id
        BY <1>5, <4>1 DEF OrderInv, Own
      <4>3. \A f \in Event, c \in Channel : contexts'[d][f][c] # stack[i].id
        BY <1>7, <3>1, <3>3, <4>2
      <4> QED
        BY <1>5, <1>18, <3>1, <3>3, <4>3, RequiredChannels
    <3> QED
      BY <3>2, <3>3
  <2> QED
    BY <1>1, <1>13, <2>1, <2>2 DEF NotYet
<1>23. UsedActive'
  <2> SUFFICES ASSUME NEW b \in Dep, NEW f \in Event, NEW c \in Channel,
                      contexts'[b][f][c] \in used'[b]
               PROVE  Active(b, f)'
    BY DEF UsedActive
  <2>1. CASE b # d
    BY <1>7, <1>15, <1>18, <2>1 DEF OrderInv, UsedActive
  <2>2. CASE b = d
    <3>1. PICK a \in Required[d] :
            Complete(d, contexts'[d][e]) /\ contexts'[d][f][c] = contexts'[d][e][a]
      BY <1>17, <1>18, <2>2
    <3>2. a \in Channel /\ contexts'[d][e][a] # None
      BY <3>1, RequiredChannels DEF Complete
    <3>3. f = e
      BY <1>5, <1>19, <1>20, <3>1, <3>2
    <3> QED
      BY <1>5, <1>15, <2>2, <3>1, <3>3
  <2> QED
    BY <2>1, <2>2
<1>24. CompleteActive'
  <2> SUFFICES ASSUME NEW b \in Dep, NEW f \in Event, Complete(b, contexts'[b][f])
               PROVE  Active(b, f)'
    BY DEF CompleteActive, Complete
  <2>1. CASE b = d /\ f = e
    BY <1>15, <2>1
  <2>2. CASE ~ (b = d /\ f = e)
    <3>1. \A c \in Required[b] : contexts'[b][f][c] = contexts[b][f][c]
      BY <1>7, <2>2, RequiredChannels
    <3> QED
      BY <1>15, <3>1 DEF OrderInv, CompleteActive, Complete
  <2> QED
    BY <2>1, <2>2
<1>25. Latest'
  <2> SUFFICES ASSUME NEW b \in Dep, NEW f \in Event, NEW c \in Required[b],
                      NEW p \in pool, p.channel = c, p.about = f, p.id >= since'[b][f]
               PROVE  \/ contexts'[b][f][c] >= p.id
                      \/ \E i \in DOMAIN stack : Pending(i, b)' /\ stack[i].id = p.id
    BY <1>1, <1>13 DEF Latest, OnChannel
  <2>1. c \in Channel /\ p.id \in Nat /\ p.id < nextId
    BY RequiredChannels, OrderTypes
  <2>2. since'[b][f] = since[b][f]
    BY <1>6, <1>18, <2>1
  <2>3. CASE b = d /\ f = e /\ c = Top.channel
    BY <1>3, <1>7, <2>1, <2>3 DEF OnChannel
  <2>4. CASE ~ (b = d /\ f = e /\ c = Top.channel)
    <3>1. contexts'[b][f][c] = contexts[b][f][c]
      BY <1>7, <2>1, <2>4
    <3>2. CASE contexts[b][f][c] >= p.id
      BY <3>1, <3>2
    <3>3. CASE \E i \in DOMAIN stack : Pending(i, b) /\ stack[i].id = p.id
      <4>1. PICK i \in DOMAIN stack : Pending(i, b) /\ stack[i].id = p.id
        BY <3>3
      <4>2. ~ (i = n /\ b = d)
        BY <1>3, <1>5, <1>20, <1>b, <2>4, <4>1
      <4> QED
        BY <1>14, <4>1, <4>2
    <3> QED
      BY <2>2, <3>2, <3>3 DEF OrderInv, Latest, OnChannel
  <2> QED
    BY <2>3, <2>4
<1>26. OrderInv'
  BY <1>13, <1>21, <1>22, <1>23, <1>24, <1>25 DEF OrderInv
<1>27. ASSUME NEW b \in Dep, NEW f \in Event, Activates(b, f), NEW c \in Required[b]
       PROVE  contexts'[b][f][c] \notin used[b]
  <2>1. <<b, f>> \in g.active
    BY <1>0, <1>13, <1>27 DEF Activates
  <2>2. b = d
    BY <1>12, <2>1
  <2> QED
    BY <1>17, <2>2, RequiredChannels
<1> QED
  BY <1>26, <1>27

\* No message is handed out for the second time.
FreshOnly ==
  \A d \in Dep, e \in Event : Activates(d, e) =>
    \A c \in Required[d] : contexts'[d][e][c] \notin used[d]

\* A step that leaves the stack, or changes its height, activates nothing.
LEMMA NothingActivated ==
  ASSUME stack' = stack \/ Len(stack') # Len(stack)
  PROVE  FreshOnly
BY DEF FreshOnly, Activates, Top

\* Neither does one that adds nothing to what the last frame serves.
LEMMA NoNewActivation ==
  ASSUME PoolInv, OrderInv, stack # << >>, NEW f \in Frame, Becomes(f), f.active \subseteq Top.active,
         f.id = Top.id, f.channel = Top.channel, UNCHANGED <<pool, nextId>>
  PROVE  FreshOnly
<1>1. stack'[Len(stack)] = f
  BY TopChanges
<1> QED
  BY <1>1 DEF FreshOnly, Activates

\* A step of a publication, or time.
LEMMA StepOrder ==
  ASSUME PoolInv, OrderInv, ~Reentrant, \A d \in Dep : Required[d] # {}, PoolStep
  PROVE  OrderInv' /\ FreshOnly
<1>0. stack \in Seq(Frame)
  BY OrderTypes
<1>1. ASSUME NEW c \in Channel, NEW e \in Event, Replies(c, e) PROVE OrderInv' /\ FreshOnly
  <2>1. Publish(c, e) /\ Free(c)
    BY <1>1 DEF Replies
  <2>2. Len(stack') # Len(stack)
    BY <1>0, <2>1 DEF Publish
  <2> QED
    BY <2>1, <2>2, PublishOrder, NothingActivated
<1>2. CASE Notified
  <2>1. /\ stack # << >> /\ Top \in Frame
        /\ Becomes([Top EXCEPT !.at = "check", !.deps = {d \in Dep : Top.channel \in Required[d]}])
        /\ UNCHANGED <<pool, nextId>>
    BY <1>2, TopIsFrame DEF Notified, Runs, PoolInv
  <2>2. PICK f \in Frame :
          Becomes(f) /\ f.active \subseteq Top.active /\ f.id = Top.id /\ f.channel = Top.channel
    <3> DEFINE g == [Top EXCEPT !.at = "check", !.deps = {d \in Dep : Top.channel \in Required[d]}]
    <3>1. g \in Frame /\ g.active \subseteq Top.active /\ g.id = Top.id /\ g.channel = Top.channel
      BY <2>1 DEF Frame
    <3> QED
      BY <2>1, <3>1
  <2> QED
    BY <1>2, <2>1, <2>2, NotifiedOrder, NoNewActivation
<1>3. ASSUME NEW d \in Dep, CheckEmpty(d) PROVE OrderInv' /\ FreshOnly
  <2>1. /\ stack # << >> /\ Top \in Frame /\ Becomes([Top EXCEPT !.deps = @ \ {d}])
        /\ UNCHANGED <<pool, nextId>>
    BY <1>3, TopIsFrame DEF CheckEmpty, Runs, PoolInv
  <2>2. PICK f \in Frame :
          Becomes(f) /\ f.active \subseteq Top.active /\ f.id = Top.id /\ f.channel = Top.channel
    <3> DEFINE g == [Top EXCEPT !.deps = @ \ {d}]
    <3>1. g \in Frame /\ g.active \subseteq Top.active /\ g.id = Top.id /\ g.channel = Top.channel
      BY <2>1 DEF Frame
    <3> QED
      BY <2>1, <3>1
  <2> QED
    BY <1>3, <2>1, <2>2, CheckEmptyOrder, NoNewActivation
<1>4. CASE CallbackReturns
  <2>1. /\ stack # << >> /\ Top \in Frame
        /\ Becomes([Top EXCEPT !.at = "check", !.active = {}])
        /\ UNCHANGED <<pool, nextId>>
    BY <1>4, TopIsFrame DEF CallbackReturns, Runs, PoolInv
  <2>2. PICK f \in Frame :
          Becomes(f) /\ f.active \subseteq Top.active /\ f.id = Top.id /\ f.channel = Top.channel
    <3> DEFINE g == [Top EXCEPT !.at = "check", !.active = {}]
    <3>1. g \in Frame /\ g.active \subseteq Top.active /\ g.id = Top.id /\ g.channel = Top.channel
      BY <2>1 DEF Frame
    <3> QED
      BY <2>1, <3>1
  <2> QED
    BY <1>4, <2>1, <2>2, CallbackOrder, NoNewActivation
<1>5. CASE Published
  <2>1. Len(stack') # Len(stack)
    <3>1. stack # << >> /\ stack' = SubSeq(stack, 1, Len(stack) - 1)
      BY <1>5 DEF Published, Runs
    <3> QED
      BY <1>0, <3>1, Popped
  <2> QED
    BY <1>5, <2>1, PublishedOrder, NothingActivated
<1>6. ASSUME NEW d \in Dep, Check(d) PROVE OrderInv' /\ FreshOnly
  BY <1>6, CheckOrder DEF FreshOnly
<1>7. CASE Expire
  <2>1. /\ pool' = pool \ Expired /\ contexts' = Pruned(Expired)
        /\ UNCHANGED <<nextId, stack, used, since>>
    BY <1>7 DEF Expire
  <2>2. Expired \in {{}, Expired}
    OBVIOUS
  <2> QED
    BY <2>1, <2>2, ExpireOrder, NothingActivated
<1>8. CASE Pass
  <2>1. UNCHANGED <<pool, nextId, contexts, stack, used, since>>
    BY <1>8 DEF Pass
  <2>2. OrderInv'
    BY <2>1 DEF OrderInv, OneEach, Own, Serving, NotYet, UsedActive, CompleteActive, Latest,
                Pending, Active, OnChannel, Complete
  <2> QED
    BY <2>1, <2>2, NothingActivated
<1> QED
  BY <1>1, <1>2, <1>3, <1>4, <1>5, <1>6, <1>7, <1>8 DEF PoolStep

\* Every step.
LEMMA NextOrder ==
  ASSUME ~Reentrant, \A d \in Dep : Required[d] # {}
  PROVE  GatewayInv /\ OrderInv /\ [Next]_vars => OrderInv' /\ FreshOnly
<1> SUFFICES ASSUME GatewayInv, OrderInv, [Next]_vars PROVE OrderInv' /\ FreshOnly
  OBVIOUS
<1>0. PoolInv
  BY DEF GatewayInv
<1>1. ASSUME NEW c \in Channel, HandlerPublishes(c) PROVE OrderInv' /\ FreshOnly
  <2>1. PICK x \in current : Publish(c, x.event)
    BY <1>1 DEF HandlerPublishes
  <2>2. x.event \in Event
    BY DEF GatewayInv, TypeOK, Admission
  <2>3. Free(c)
    BY <1>1 DEF HandlerPublishes, Free
  <2>4. Len(stack') # Len(stack)
    BY <2>1, OrderTypes, <1>0 DEF Publish
  <2> QED
    BY <1>0, <2>1, <2>2, <2>3, <2>4, PublishOrder, NothingActivated
<1>2. CASE InPool
  BY <1>0, <1>2, StepOrder DEF InPool
<1>3. CASE UNCHANGED poolVars
  <2>1. UNCHANGED <<pool, nextId, contexts, stack, used, since>>
    BY <1>3 DEF poolVars
  <2>2. OrderInv'
    BY <2>1 DEF OrderInv, OneEach, Own, Serving, NotYet, UsedActive, CompleteActive, Latest,
                Pending, Active, OnChannel, Complete
  <2> QED
    BY <2>1, <2>2, NothingActivated
<1> QED
  BY <1>1, <1>2, <1>3 DEF Next, Admit, Dispatch, HandlerSilent, Dispatched, vars

\* As long as handlers publish on other channels only, a message takes part in at most
\* one activation of a dependency (_check_dependencies removes the context after the
\* callback, not before).
THEOREM MessagesUsedOnce ==
  ASSUME ~Reentrant, \A d \in Dep : Required[d] # {}
  PROVE  Spec => UsedOnce
<1>1. Init => GatewayInv /\ OrderInv
  BY InitGateway, InitOrder DEF Init
<1>2. GatewayInv /\ OrderInv /\ [Next]_vars
      => /\ (GatewayInv /\ OrderInv)'
         /\ [\A d \in Dep, e \in Event : Activates(d, e) =>
               \A c \in Required[d] : contexts'[d][e][c] \notin used[d]]_poolVars
  BY NextGateway, NextOrder DEF FreshOnly
<1> QED
  BY <1>1, <1>2, PTL DEF Spec, UsedOnce

\* As long as handlers publish on other channels only, no activation is owed when
\* nothing is being published, whatever has expired meanwhile.
THEOREM ActivationsNotMissed ==
  ASSUME ~Reentrant, \A d \in Dep : Required[d] # {}
  PROVE  Spec => []NothingMissed
<1>1. Init => GatewayInv /\ OrderInv
  BY InitGateway, InitOrder DEF Init
<1>2. GatewayInv /\ OrderInv /\ [Next]_vars => (GatewayInv /\ OrderInv)'
  BY NextGateway, NextOrder
<1>3. GatewayInv /\ OrderInv => NothingMissed
  <2> SUFFICES ASSUME GatewayInv, OrderInv, stack = << >>, NEW d \in Dep, NEW e \in Event,
                      \A c \in Required[d] : \E m \in OnChannel(c) :
                        m.about = e /\ ~ (m.id < since[d][e])
               PROVE  FALSE
    BY DEF NothingMissed
  <2>1. PoolInv
    BY DEF GatewayInv
  <2>2. ASSUME NEW c \in Required[d] PROVE contexts[d][e][c] # None
    <3>1. PICK m \in OnChannel(c) : m.about = e /\ ~ (m.id < since[d][e])
      OBVIOUS
    <3>2. m \in pool /\ m.id \in Nat /\ m.id > 0 /\ since[d][e] \in Nat
      BY <2>1, OrderTypes DEF OnChannel
    <3>3. contexts[d][e][c] >= m.id
      BY <3>1, <3>2 DEF OrderInv, Latest
    <3> QED
      BY <3>2, <3>3 DEF None
  <2> QED
    BY <2>2 DEF OrderInv, CompleteActive, Complete, Active
<1> QED
  BY <1>1, <1>2, <1>3, PTL DEF Spec

(***************************************************************************)
(* How much reaches the agents within a window.  Since any time s, the     *)
(* events admitted before s that were dispatched are those that have left  *)
(* the backlog of then.                                                    *)
(***************************************************************************)
Waiting(s) == {x \in backlog : x.at <= s}
Left(s)    == {x \in dispatched : x.at <= s /\ x.on > s}

Accounted ==
  /\ IsFiniteSet(recent) /\ IsFiniteSet(backlog) /\ IsFiniteSet(dispatched)
  /\ Cardinality(InWindow) <= MaxJobs /\ Cardinality(backlog) <= MaxBacklog
  /\ \A x \in backlog : x.at > now - Window => x \in recent
  /\ \A x \in dispatched : /\ x.on <= now
                           /\ x.at > now - Window => [event |-> x.event, at |-> x.at] \in recent
  /\ \A s \in Int : s <= now => Cardinality(Waiting(s)) + Cardinality(Left(s)) <= MaxBacklog

\* One more element is at most one more.
LEMMA OneMore ==
  ASSUME NEW S, IsFiniteSet(S), NEW x
  PROVE  /\ IsFiniteSet(S \cup {x}) /\ Cardinality(S \cup {x}) \in Nat
         /\ Cardinality(S) \in Nat /\ Cardinality(S \cup {x}) <= Cardinality(S) + 1
<1>1. /\ IsFiniteSet(S \cup {x})
      /\ Cardinality(S \cup {x}) = IF x \in S THEN Cardinality(S) ELSE Cardinality(S) + 1
  BY FS_AddElement
<1>2. Cardinality(S) \in Nat /\ Cardinality(S \cup {x}) \in Nat
  BY <1>1, FS_CardinalityType
<1> QED
  BY <1>1, <1>2

\* The types that counting needs.
LEMMA CountTypes ==
  ASSUME GatewayInv, Accounted
  PROVE  /\ now \in Nat /\ Window \in Nat /\ Window > 0 /\ MaxJobs \in Nat
         /\ MaxBacklog \in Nat /\ MaxBacklog > 0
         /\ \A x \in backlog : x.at \in Nat /\ x.event \in Event /\ x = [event |-> x.event, at |-> x.at]
         /\ \A x \in dispatched : x.at \in Nat /\ x.on \in Nat
         /\ \A x \in recent : x.at \in Nat
         /\ Cardinality(backlog) \in Nat
         /\ IsFiniteSet(InWindow) /\ Cardinality(InWindow) \in Nat
         /\ \A s \in Int : /\ IsFiniteSet(Waiting(s)) /\ Cardinality(Waiting(s)) \in Nat
                          /\ IsFiniteSet(Left(s)) /\ Cardinality(Left(s)) \in Nat
<1>1. /\ now \in Nat /\ Window \in Nat /\ Window > 0 /\ MaxJobs \in Nat
      /\ MaxBacklog \in Nat /\ MaxBacklog > 0
      /\ \A x \in dispatched : x.at \in Nat /\ x.on \in Nat
      /\ \A x \in recent : x.at \in Nat
  BY GatewayAssumption DEF GatewayInv, TypeOK, PoolTypeOK, Admission
<1>2. \A x \in backlog : x.at \in Nat /\ x.event \in Event /\ x = [event |-> x.event, at |-> x.at]
  BY DEF GatewayInv, TypeOK, Admission
<1>3. IsFiniteSet(recent) /\ IsFiniteSet(backlog) /\ IsFiniteSet(dispatched)
  BY DEF Accounted
<1>4. IsFiniteSet(InWindow)
  BY <1>3, FS_Subset DEF InWindow
<1>5. ASSUME NEW s \in Int PROVE IsFiniteSet(Waiting(s)) /\ IsFiniteSet(Left(s))
  <2>1. Waiting(s) \in SUBSET backlog /\ Left(s) \in SUBSET dispatched
    BY DEF Waiting, Left
  <2> QED
    BY <1>3, <2>1, FS_Subset
<1> QED
  BY <1>1, <1>2, <1>3, <1>4, <1>5, FS_CardinalityType

\* At the present moment nothing has left that is dispatched later.
LEMMA NothingLeftYet ==
  ASSUME GatewayInv, Accounted, NEW s \in Int, s >= now
  PROVE  Left(s) = {} /\ Cardinality(Left(s)) = 0
<1>1. \A x \in dispatched : x.on \in Nat /\ x.on <= now
  BY CountTypes DEF Accounted
<1>2. now \in Nat
  BY CountTypes
<1>3. Left(s) = {}
  BY <1>1, <1>2 DEF Left
<1> QED
  BY <1>3, FS_EmptySet

\* The initial states.
LEMMA InitAccounted == Init => Accounted
<1> SUFFICES ASSUME Init PROVE Accounted
  OBVIOUS
<1>1. backlog = {} /\ recent = {} /\ dispatched = {}
  BY DEF Init
<1>2. InWindow = {} /\ \A s \in Int : Waiting(s) = {} /\ Left(s) = {}
  BY <1>1 DEF InWindow, Waiting, Left
<1>3. MaxJobs \in Nat /\ MaxBacklog \in Nat
  BY GatewayAssumption
<1> QED
  BY <1>1, <1>2, <1>3, FS_EmptySet DEF Accounted

\* An admission is within the cap and finds room, or makes it.
LEMMA AdmitAccounted ==
  ASSUME GatewayInv, Accounted, NEW e \in Event, Admit(e)
  PROVE  Accounted'
<1> DEFINE new == [event |-> e, at |-> now]
<1>1. /\ ~Capped /\ recent' = InWindow \cup {new}
      /\ UNCHANGED <<now, dispatched>>
  BY DEF Admit, poolVars
<1>2. PICK evicted \in SUBSET backlog :
        MakesRoom(e, evicted) /\ backlog' = (backlog \ evicted) \cup {new}
  BY DEF Admit
<1>3. new.at = now /\ new.event = e
  OBVIOUS
<1>4. /\ now \in Nat /\ Window \in Nat /\ Window > 0 /\ MaxJobs \in Nat /\ MaxBacklog \in Nat
      /\ MaxBacklog > 0
      /\ \A x \in backlog : x.at \in Nat
      /\ \A x \in dispatched : x.at \in Nat
      /\ IsFiniteSet(InWindow) /\ Cardinality(InWindow) \in Nat
      /\ \A x \in recent : x.at \in Nat
      /\ Cardinality(backlog) \in Nat /\ IsFiniteSet(backlog) /\ IsFiniteSet(dispatched)
  BY CountTypes DEF Accounted
<1> HIDE DEF new
<1>5. IsFiniteSet(recent') /\ Cardinality(recent') <= MaxJobs
  <2>1. Cardinality(InWindow) < MaxJobs
    BY <1>1, <1>4 DEF Capped
  <2>2. /\ IsFiniteSet(InWindow \cup {new})
        /\ Cardinality(InWindow \cup {new}) =
             IF new \in InWindow THEN Cardinality(InWindow) ELSE Cardinality(InWindow) + 1
    BY <1>4, FS_AddElement
  <2> QED
    BY <1>1, <1>4, <2>1, <2>2
<1>6. InWindow' = recent'
  <2>1. \A x \in recent' : x.at > now - Window
    <3>1. new.at > now - Window
      BY <1>3, <1>4
    <3> QED
      BY <1>1, <3>1 DEF InWindow
  <2> QED
    BY <1>1, <2>1 DEF InWindow
<1>7. IsFiniteSet(backlog') /\ Cardinality(backlog') <= MaxBacklog
  <2>1. /\ IsFiniteSet(backlog \ evicted) /\ Cardinality(backlog \ evicted) \in Nat
        /\ Cardinality(backlog \ evicted) + 1 <= MaxBacklog
    <3>1. CASE Overflows
      <4>1. PICK x \in backlog : evicted = {x}
        BY <1>2, <3>1 DEF MakesRoom
      <4>2. IsFiniteSet(backlog \ {x}) /\ Cardinality(backlog \ {x}) = Cardinality(backlog) - 1
        BY <1>4, FS_RemoveElement
      <4>3. Cardinality(backlog) <= MaxBacklog /\ Cardinality(backlog \ {x}) \in Nat
        BY <4>2, FS_CardinalityType DEF Accounted
      <4> QED
        BY <1>4, <4>1, <4>2, <4>3
    <3>2. CASE ~Overflows
      <4>1. evicted = {} /\ backlog \ evicted = backlog
        BY <1>2, <3>2 DEF MakesRoom
      <4> QED
        BY <1>4, <3>2, <4>1 DEF Overflows
    <3> QED
      BY <3>1, <3>2
  <2>2. /\ IsFiniteSet((backlog \ evicted) \cup {new})
        /\ Cardinality((backlog \ evicted) \cup {new}) <= Cardinality(backlog \ evicted) + 1
    BY <2>1, OneMore
  <2>3. Cardinality((backlog \ evicted) \cup {new}) \in Nat
    BY <2>2, FS_CardinalityType
  <2> QED
    BY <1>2, <1>4, <2>1, <2>2, <2>3
<1>8. \A x \in backlog' : x.at > now - Window => x \in recent'
  BY <1>1, <1>2 DEF Accounted, InWindow
<1>9. \A x \in dispatched :
        /\ x.on <= now
        /\ x.at > now - Window => [event |-> x.event, at |-> x.at] \in recent'
  <2> TAKE x \in dispatched
  <2>1. x.on <= now /\ (x.at > now - Window => [event |-> x.event, at |-> x.at] \in recent)
    BY DEF Accounted
  <2>2. [event |-> x.event, at |-> x.at] \in recent /\ x.at > now - Window
          => [event |-> x.event, at |-> x.at] \in InWindow
    BY DEF InWindow
  <2> QED
    BY <1>1, <2>1, <2>2
<1>10. ASSUME NEW s \in Int, s <= now
       PROVE  Cardinality(Waiting(s)') + Cardinality(Left(s)') <= MaxBacklog
  <2>1. Left(s)' = Left(s)
    BY <1>1 DEF Left
  <2>2. CASE s < now
    <3>1. Waiting(s)' \in SUBSET Waiting(s)
      BY <1>2, <1>3, <1>4, <2>2 DEF Waiting
    <3>2. /\ IsFiniteSet(Waiting(s)) /\ Cardinality(Waiting(s)) \in Nat
          /\ Cardinality(Left(s)) \in Nat
      BY CountTypes
    <3>3. Cardinality(Waiting(s)') <= Cardinality(Waiting(s)) /\ Cardinality(Waiting(s)') \in Nat
      BY <3>1, <3>2, FS_Subset, FS_CardinalityType
    <3>4. Cardinality(Waiting(s)) + Cardinality(Left(s)) <= MaxBacklog
      BY <1>10 DEF Accounted
    <3> QED
      BY <1>4, <2>1, <3>2, <3>3, <3>4
  <2>3. CASE s >= now
    <3>1. Cardinality(Left(s)) = 0
      BY <2>3, NothingLeftYet
    <3>2. Waiting(s)' \in SUBSET backlog'
      BY DEF Waiting
    <3>3. Cardinality(Waiting(s)') <= Cardinality(backlog') /\ Cardinality(Waiting(s)') \in Nat
          /\ Cardinality(backlog') \in Nat
      BY <1>7, <3>2, FS_Subset, FS_CardinalityType
    <3> QED
      BY <1>4, <1>7, <2>1, <3>1, <3>3
  <2> QED
    BY <1>4, <2>2, <2>3
<1> QED
  BY <1>1, <1>4, <1>5, <1>6, <1>7, <1>8, <1>9, <1>10 DEF Accounted

\* A dispatch moves one event out of the backlog.
LEMMA DispatchAccounted ==
  ASSUME GatewayInv, Accounted, Dispatch
  PROVE  Accounted'
<1>1. PICK x \in backlog :
        /\ backlog' = backlog \ {x}
        /\ dispatched' = dispatched \cup {[event |-> x.event, at |-> x.at, on |-> now]}
        /\ UNCHANGED <<now, recent>>
  BY DEF Dispatch, poolVars
<1>2. PICK new : new = [event |-> x.event, at |-> x.at, on |-> now]
  OBVIOUS
<1>3. /\ new.event = x.event /\ new.at = x.at /\ new.on = now
      /\ dispatched' = dispatched \cup {new}
  BY <1>1, <1>2
<1>4. /\ now \in Nat /\ Window \in Nat /\ Window > 0 /\ MaxBacklog \in Nat
      /\ x.at \in Nat /\ x = [event |-> x.event, at |-> x.at]
      /\ Cardinality(backlog) \in Nat /\ IsFiniteSet(backlog) /\ IsFiniteSet(dispatched)
  BY CountTypes DEF Accounted
<1>5. /\ IsFiniteSet(recent') /\ InWindow' = InWindow
      /\ IsFiniteSet(backlog') /\ Cardinality(backlog') <= MaxBacklog
      /\ IsFiniteSet(dispatched')
  <2>1. IsFiniteSet(backlog \ {x}) /\ Cardinality(backlog \ {x}) = Cardinality(backlog) - 1
    BY <1>4, FS_RemoveElement
  <2>2. IsFiniteSet(dispatched \cup {new})
    BY <1>4, FS_AddElement
  <2> QED
    <3>1. InWindow' = InWindow
      BY <1>1 DEF InWindow
    <3>2. IsFiniteSet(recent) /\ Cardinality(backlog) <= MaxBacklog
      BY DEF Accounted
    <3> QED
      BY <1>1, <1>3, <1>4, <2>1, <2>2, <3>1, <3>2
<1>6. \A y \in backlog' : y.at > now - Window => y \in recent'
  BY <1>1 DEF Accounted
<1>7. \A y \in dispatched' :
        /\ y.on <= now
        /\ y.at > now - Window => [event |-> y.event, at |-> y.at] \in recent'
  <2>1. \A y \in dispatched :
          /\ y.on <= now
          /\ y.at > now - Window => [event |-> y.event, at |-> y.at] \in recent'
    BY <1>1 DEF Accounted
  <2>2. new.at > now - Window => [event |-> new.event, at |-> new.at] \in recent'
    BY <1>1, <1>3, <1>4 DEF Accounted
  <2>3. new.on <= now
    BY <1>3, <1>4
  <2>4. \A y \in dispatched' : y \in dispatched \/ y = new
    BY <1>3
  <2> QED
    BY <2>1, <2>2, <2>3, <2>4
<1>8. ASSUME NEW s \in Int, s <= now
      PROVE  Cardinality(Waiting(s)') + Cardinality(Left(s)') <= MaxBacklog
  <2>1. /\ IsFiniteSet(Waiting(s)) /\ Cardinality(Waiting(s)) \in Nat
        /\ IsFiniteSet(Left(s)) /\ Cardinality(Left(s)) \in Nat
        /\ Cardinality(Waiting(s)) + Cardinality(Left(s)) <= MaxBacklog
    BY <1>8, CountTypes DEF Accounted
  <2>2. CASE x.at <= s /\ s < now
    <3>1. Waiting(s)' = Waiting(s) \ {x} /\ x \in Waiting(s) /\ Left(s)' = Left(s) \cup {new}
      BY <1>1, <1>3, <1>4, <2>2 DEF Waiting, Left
    <3>2. Cardinality(Waiting(s)') = Cardinality(Waiting(s)) - 1
      BY <2>1, <3>1, FS_RemoveElement
    <3>3. Cardinality(Left(s)') <= Cardinality(Left(s)) + 1 /\ Cardinality(Left(s)') \in Nat
      BY <2>1, <3>1, OneMore
    <3> QED
      BY <1>4, <2>1, <3>2, <3>3
  <2>3. CASE ~ (x.at <= s /\ s < now)
    <3>1. Waiting(s)' \in SUBSET Waiting(s)
      BY <1>1 DEF Waiting
    <3>2. Left(s)' = Left(s)
      BY <1>3, <1>4, <2>3 DEF Left
    <3>3. Cardinality(Waiting(s)') <= Cardinality(Waiting(s)) /\ Cardinality(Waiting(s)') \in Nat
      BY <2>1, <3>1, FS_Subset, FS_CardinalityType
    <3> QED
      BY <1>4, <2>1, <3>2, <3>3
  <2> QED
    BY <2>2, <2>3
<1> QED
  BY <1>1, <1>5, <1>6, <1>7, <1>8 DEF Accounted

\* Time passes: the window moves on.
LEMMA PassAccounted ==
  ASSUME GatewayInv, Accounted, now' \in {now, now + 1},
         UNCHANGED <<recent, backlog, dispatched>>
  PROVE  Accounted'
<1>1. /\ now \in Nat /\ Window \in Nat /\ MaxJobs \in Nat /\ MaxBacklog \in Nat
      /\ \A x \in backlog : x.at \in Nat
      /\ \A x \in dispatched : x.at \in Nat /\ x.on \in Nat
      /\ \A x \in recent : x.at \in Nat
      /\ IsFiniteSet(InWindow) /\ Cardinality(InWindow) \in Nat
  BY CountTypes
<1>2. Cardinality(InWindow') <= MaxJobs
  <2>1. InWindow' \in SUBSET InWindow
    BY <1>1 DEF InWindow
  <2>2. Cardinality(InWindow') <= Cardinality(InWindow) /\ Cardinality(InWindow') \in Nat
    BY <1>1, <2>1, FS_Subset, FS_CardinalityType
  <2> QED
    BY <1>1, <2>2 DEF Accounted
<1>3. /\ \A x \in backlog : x.at > now' - Window => x \in recent
      /\ \A x \in dispatched :
           /\ x.on <= now'
           /\ x.at > now' - Window => [event |-> x.event, at |-> x.at] \in recent
  BY <1>1 DEF Accounted
<1>4. ASSUME NEW s \in Int, s <= now'
      PROVE  Cardinality(Waiting(s)) + Cardinality(Left(s)) <= MaxBacklog
  <2>1. CASE s <= now
    BY <2>1 DEF Accounted
  <2>2. CASE s > now
    <3>1. Cardinality(Left(s)) = 0
      BY <1>1, <2>2, NothingLeftYet
    <3>2. Waiting(s) \in SUBSET backlog /\ IsFiniteSet(backlog)
      BY DEF Waiting, Accounted
    <3>3. /\ Cardinality(Waiting(s)) <= Cardinality(backlog) /\ Cardinality(Waiting(s)) \in Nat
          /\ Cardinality(backlog) \in Nat
      BY <3>2, FS_Subset, FS_CardinalityType
    <3> QED
      BY <1>1, <3>1, <3>3 DEF Accounted
  <2> QED
    BY <1>1, <2>1, <2>2
<1>5. \A s \in Int : Waiting(s)' = Waiting(s) /\ Left(s)' = Left(s)
  BY DEF Waiting, Left
<1> QED
  BY <1>2, <1>3, <1>4, <1>5 DEF Accounted

\* Every step.
LEMMA NextAccounted == GatewayInv /\ Accounted /\ [Next]_vars => Accounted'
<1> SUFFICES ASSUME GatewayInv, Accounted, [Next]_vars PROVE Accounted'
  OBVIOUS
<1>1. CASE \E c \in Channel : HandlerSilent(c) \/ HandlerPublishes(c)
  <2>1. now' = now /\ UNCHANGED <<recent, backlog, dispatched>>
    BY <1>1 DEF HandlerSilent, HandlerPublishes, Publish, poolVars
  <2> QED
    BY <2>1, PassAccounted
<1>2. CASE Dispatched \/ UNCHANGED vars
  <2>1. now' = now /\ UNCHANGED <<recent, backlog, dispatched>>
    BY <1>2 DEF Dispatched, vars, poolVars
  <2> QED
    BY <2>1, PassAccounted
<1>3. CASE InPool
  <2>1. UNCHANGED <<recent, backlog, dispatched>>
    BY <1>3 DEF InPool
  <2>2. now' \in {now, now + 1}
    BY <1>3 DEF InPool, PoolStep, Replies, Publish, Notified, Check, CheckEmpty, CallbackReturns,
                Published, Expire, Pass
  <2> QED
    BY <2>1, <2>2, PassAccounted
<1> QED
  BY <1>1, <1>2, <1>3, AdmitAccounted, DispatchAccounted DEF Next

\* At most MaxJobs + MaxBacklog events reach the agents within one window
\* (max_cold_path_jobs_per_minute caps admissions, the backlog what is left of earlier
\* ones).
THEOREM JobsAreBounded == Spec => []JobsBounded
<1>1. Init => GatewayInv /\ Accounted
  BY InitGateway, InitAccounted
<1>2. GatewayInv /\ Accounted /\ [Next]_vars => (GatewayInv /\ Accounted)'
  BY NextGateway, NextAccounted
<1>3. GatewayInv /\ Accounted => JobsBounded
  <2> SUFFICES ASSUME GatewayInv, Accounted PROVE JobsBounded
    OBVIOUS
  <2> DEFINE D == {x \in dispatched : x.on > now - Window}
             A == {x \in D : x.at > now - Window}
             B == Left(now - Window)
  <2>1. /\ now \in Nat /\ Window \in Nat /\ Window > 0 /\ MaxJobs \in Nat /\ MaxBacklog \in Nat
        /\ \A x \in dispatched : x.at \in Nat /\ x.on \in Nat
        /\ IsFiniteSet(InWindow) /\ Cardinality(InWindow) \in Nat
        /\ IsFiniteSet(dispatched)
    BY CountTypes DEF Accounted
  <2>2. PICK s \in Int : s = now - Window /\ s <= now
    BY <2>1
  <2>3. /\ IsFiniteSet(B) /\ Cardinality(B) \in Nat /\ Cardinality(B) <= MaxBacklog
    <3>1. /\ IsFiniteSet(Left(s)) /\ Cardinality(Left(s)) \in Nat
          /\ Cardinality(Waiting(s)) \in Nat
          /\ Cardinality(Waiting(s)) + Cardinality(Left(s)) <= MaxBacklog
      BY <2>2, CountTypes DEF Accounted
    <3> QED
      BY <2>1, <2>2, <3>1
  <2>4. IsFiniteSet(A) /\ Cardinality(A) \in Nat
    <3>1. A \in SUBSET dispatched
      OBVIOUS
    <3> HIDE DEF A
    <3> QED
      BY <2>1, <3>1, FS_Subset, FS_CardinalityType
  <2>5. Cardinality(A) <= Cardinality(InWindow)
    <3> SUFFICES ASSUME Cardinality(InWindow) < Cardinality(A) PROVE FALSE
      BY <2>1, <2>4
    <3> DEFINE f == [x \in A |-> [event |-> x.event, at |-> x.at]]
    <3>1. f \in [A -> InWindow]
      BY DEF Accounted, InWindow
    <3>2. \A x \in A : f[x].event = x.event /\ f[x].at = x.at /\ x \in dispatched
      OBVIOUS
    <3> HIDE DEF f, A
    <3>3. PICK x, y \in A : x # y /\ f[x] = f[y]
      BY <2>1, <2>4, <3>1, FS_PigeonHole
    <3>4. x.event = y.event /\ x.at = y.at /\ x \in dispatched /\ y \in dispatched
      BY <3>2, <3>3
    <3>5. DedupeTTL \in Nat /\ DedupeTTL > 0
      BY GatewayAssumption
    <3> QED
      BY <2>1, <3>3, <3>4, <3>5 DEF GatewayInv, NoEarlyRepeat
  <2>6. D = A \cup B
    BY <2>1 DEF Left
  <2> HIDE DEF A, B, D
  <2>7. Cardinality(D) <= Cardinality(A) + Cardinality(B)
    <3>1. /\ IsFiniteSet(A \cup B)
          /\ Cardinality(A \cup B) = Cardinality(A) + Cardinality(B) - Cardinality(A \cap B)
      BY <2>3, <2>4, FS_Union
    <3>2. Cardinality(A \cap B) \in Nat
      <4>1. A \cap B \in SUBSET A
        OBVIOUS
      <4> QED
        BY <2>4, <4>1, FS_Subset, FS_CardinalityType
    <3> QED
      BY <2>3, <2>4, <2>6, <3>1, <3>2
  <2>8. IsFiniteSet(D) /\ Cardinality(D) \in Nat /\ Cardinality(InWindow) <= MaxJobs
    BY <2>3, <2>4, <2>6, FS_Union, FS_CardinalityType DEF Accounted
  <2>9. Cardinality(D) <= MaxJobs + MaxBacklog
    BY <2>1, <2>3, <2>4, <2>5, <2>7, <2>8
  <2> QED
    BY <2>9 DEF D, JobsBounded
<1> QED
  BY <1>1, <1>2, <1>3, PTL DEF Spec
=============================================================================
