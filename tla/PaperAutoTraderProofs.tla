------------------------- MODULE PaperAutoTraderProofs -------------------------
(***************************************************************************)
(* Proofs about PaperAutoTrader, for any tickers, limits and lengths of a  *)
(* run: its types, the bound on skipped reads, no short position, what a   *)
(* run that passed has verified, the kill switch, and the runtime policy   *)
(* (cooldown and holding time).                                            *)
(***************************************************************************)
EXTENDS PaperAutoTrader, TLAPS, FiniteSetTheorems, Functions

(***************************************************************************)
(* The errors counted are those since the last balance that was read.      *)
(***************************************************************************)
ErrorsCounted ==
  /\ phase = "read" => errors = cycle - 1 - readAt /\ errors <= MaxReadErrors
  /\ phase \in {"decide", "gate", "send"} => errors = 0 /\ readAt = cycle

TypeInv == TypeOK /\ ErrorsCounted

\* The next cycle, or the end of the run.
LEMMA NextCycleGoes ==
  ASSUME cycle \in Cycle, NextCycle
  PROVE  \/ phase' = "off" /\ cycle' = cycle /\ result' = "PASS"
         \/ phase' = "read" /\ cycle' = cycle + 1 /\ cycle' \in Cycle /\ result' = result
BY TraderAssumption DEF NextCycle, End, Cycle

\* A run begins with cycle 0.
LEMMA FirstCycle == 0 \in Cycle /\ Never \in CycleOrNever /\ NeverYet \in [Ticker -> CycleOrNever]
BY TraderAssumption DEF Cycle, Never, NeverYet, CycleOrNever

\* Orders stay orders when their quantity is capped.
LEMMA CappedOrder ==
  ASSUME NEW o \in Order
  PROVE  /\ Capped(o) \in Order
         /\ Capped(o).ticker = o.ticker /\ Capped(o).kind = o.kind
         /\ Capped(o).qty <= o.qty /\ Capped(o).qty <= MaxQty
BY TraderAssumption DEF Capped, Order

\* What the decision leaves: one order per ticker, capped, permitted by the policy, and
\* no sell of more than the balance lets it sell.
LEMMA Decided ==
  ASSUME NEW tickers \in SUBSET Ticker, NEW ask \in [tickers -> Ask], Decide(ask)
  PROVE  /\ plan' \subseteq Order /\ left' = plan'
         /\ \A o, p \in plan' : o.ticker = p.ticker => o = p
         /\ \A o \in plan' : o.qty <= MaxQty
         /\ \A o \in plan' : \E q \in Order :
              /\ q.ticker = o.ticker /\ q.kind = o.kind /\ o.qty <= q.qty
              /\ Permitted(q) /\ (q.kind # "buy" => q.qty <= seen[q.ticker].sellable)
         /\ NextCycle \/ (phase' = "gate" /\ UNCHANGED <<cycle, result>>)
<1>1. PICK kept \in SUBSET Orders(ask) :
        /\ Kept({o \in Orders(ask) : Permitted(o)}, kept)
        /\ plan' = {Capped(o) : o \in kept}
        /\ left' = plan'
        /\ IF kept = {} THEN NextCycle ELSE phase' = "gate" /\ UNCHANGED <<cycle, result>>
  BY Zenon DEF Decide
<1>2. \A o \in Orders(ask) : o \in Order
  BY DEF Orders, Order, Ask
<1>3. \A o, p \in Orders(ask) : o.ticker = p.ticker => o = p
  BY DEF Orders
<1>4. \A o \in Orders(ask) : o.kind # "buy" => o.qty <= seen[o.ticker].sellable
  BY DEF Orders, Decide, Planned
<1>5. \A o \in kept : Permitted(o)
  BY <1>1 DEF Kept
<1>6. \A o \in kept : /\ Capped(o) \in Order /\ Capped(o).ticker = o.ticker
                      /\ Capped(o).kind = o.kind
                      /\ Capped(o).qty <= o.qty /\ Capped(o).qty <= MaxQty
  BY <1>1, <1>2, CappedOrder
<1>7. plan' \subseteq Order /\ left' = plan' /\ \A o \in plan' : o.qty <= MaxQty
  BY <1>1, <1>6
<1>8. \A o, p \in plan' : o.ticker = p.ticker => o = p
  <2>1. TAKE o, p \in plan'
  <2>2. PICK a \in kept, b \in kept : o = Capped(a) /\ p = Capped(b)
    BY <1>1
  <2> QED
    BY <1>1, <1>3, <1>6, <2>2
<1>9. ASSUME NEW o \in plan'
      PROVE  \E q \in Order :
               /\ q.ticker = o.ticker /\ q.kind = o.kind /\ o.qty <= q.qty
               /\ Permitted(q) /\ (q.kind # "buy" => q.qty <= seen[q.ticker].sellable)
  <2>1. PICK a \in kept : o = Capped(a)
    BY <1>1
  <2> QED
    BY <1>1, <1>2, <1>4, <1>5, <1>6, <2>1
<1> QED
  BY <1>1, <1>7, <1>8, <1>9, Zenon

\* An order is handed to the broker.
LEMMA SendsTypes ==
  ASSUME TypeOK, NEW o \in Order, NEW answered \in BOOLEAN, Sends(o, answered)
  PROVE  /\ open' \in [Ticker -> [buy: Nat, sell: Nat]]
         /\ sentAt' \in [Ticker -> CycleOrNever] /\ boughtAt' \in [Ticker -> CycleOrNever]
         /\ unverified' \subseteq Ticker /\ sinceKill' \in Nat /\ rejected' \in BOOLEAN
<1> USE DEF TypeOK, Order, CycleOrNever
<1>1. o.ticker \in Ticker /\ o.qty \in Nat /\ Side(o) \in {"buy", "sell"}
  BY TraderAssumption DEF Side
<1>2. open[o.ticker][Side(o)] \in Nat
  BY <1>1
<1>3. open' \in [Ticker -> [buy: Nat, sell: Nat]]
  BY <1>1, <1>2 DEF Sends
<1>4. sentAt' \in [Ticker -> CycleOrNever] /\ boughtAt' \in [Ticker -> CycleOrNever]
  BY <1>1 DEF Sends
<1>5. unverified' \subseteq Ticker /\ sinceKill' \in Nat /\ rejected' \in BOOLEAN
  BY <1>1 DEF Sends
<1> QED
  BY <1>3, <1>4, <1>5

\* The tables of the policy keep their types.
LEMMA TableTypes ==
  ASSUME TypeOK
  PROVE  /\ Synced(Balance) \in [Ticker -> CycleOrNever]
         /\ Recorded(lastOrder, plan) \in [Ticker -> CycleOrNever]
         /\ RecordedBuys(holdingSince, plan) \in [Ticker -> CycleOrNever]
         /\ Balance \in [Ticker -> [qty: Int, sellable: Int]]
<1> USE DEF TypeOK, CycleOrNever
<1>1. Synced(Balance) \in [Ticker -> CycleOrNever]
  BY DEF Synced
<1>2. Recorded(lastOrder, plan) \in [Ticker -> CycleOrNever]
  BY DEF Recorded
<1>3. RecordedBuys(holdingSince, plan) \in [Ticker -> CycleOrNever]
  BY DEF RecordedBuys
<1>4. \A t \in Ticker : account[t] \in Int /\ account[t] - open[t].sell \in Int
  OBVIOUS
<1>5. Balance \in [Ticker -> [qty: Int, sellable: Int]]
  BY <1>4 DEF Balance
<1> QED
  BY <1>1, <1>2, <1>3, <1>5

\* The initial states have their types.
LEMMA InitTypeInv == Init => TypeInv
<1> SUFFICES ASSUME Init PROVE TypeInv
  OBVIOUS
<1> USE TraderAssumption DEF Init, CycleOrNever, Cycle, Never, NeverYet, NothingSeen
<1>1. account \in [Ticker -> Int]
  OBVIOUS
<1>2. open \in [Ticker -> [buy: Nat, sell: Nat]]
  OBVIOUS
<1>3. seen \in [Ticker -> [qty: Int, sellable: Int]]
  OBVIOUS
<1>4. /\ lastOrder \in [Ticker -> CycleOrNever] /\ holdingSince \in [Ticker -> CycleOrNever]
      /\ sentAt \in [Ticker -> CycleOrNever] /\ boughtAt \in [Ticker -> CycleOrNever]
  OBVIOUS
<1>5. /\ phase \in {"off", "read", "decide", "gate", "send"}
      /\ result \in {"none", "running", "PASS", "FAIL", "interrupted"}
      /\ killed \in BOOLEAN /\ rejected \in BOOLEAN
  OBVIOUS
<1>6. /\ cycle \in Cycle /\ errors \in 0 .. MaxReadErrors + 1 /\ readAt \in CycleOrNever
      /\ sinceKill \in Nat
  BY FirstCycle
<1>7. plan \subseteq Order /\ left \subseteq plan /\ unverified \subseteq Ticker
  OBVIOUS
<1>8. ErrorsCounted
  BY DEF ErrorsCounted
<1> QED
  BY <1>1, <1>2, <1>3, <1>4, <1>5, <1>6, <1>7, <1>8 DEF TypeInv, TypeOK

\* Every step keeps the types and the count of the errors.
LEMMA NextTypeInv == TypeInv /\ [Next]_vars => TypeInv'
<1> SUFFICES ASSUME TypeInv, [Next]_vars PROVE TypeInv'
  OBVIOUS
<1>0. TypeOK /\ ErrorsCounted
  BY DEF TypeInv
<1>1. NothingSeen \in [Ticker -> [qty: Int, sellable: Int]] /\ NeverYet \in [Ticker -> CycleOrNever]
  BY DEF NothingSeen, NeverYet, CycleOrNever
<1> USE TraderAssumption
<1>2. CASE Start
  <2>1. /\ phase' = "read" /\ cycle' = 0 /\ errors' = 0 /\ readAt' = Never
        /\ seen' = NothingSeen /\ lastOrder' = NeverYet /\ holdingSince' = NeverYet
        /\ plan' = {} /\ left' = {} /\ rejected' = FALSE /\ result' = "running"
        /\ sentAt' = NeverYet /\ boughtAt' = NeverYet /\ unverified' = {}
        /\ UNCHANGED <<account, open, killed, sinceKill>>
    BY <1>2 DEF Start, broker
  <2>2. TypeOK'
    <3>1. /\ account' \in [Ticker -> Int] /\ open' \in [Ticker -> [buy: Nat, sell: Nat]]
          /\ seen' \in [Ticker -> [qty: Int, sellable: Int]]
          /\ killed' \in BOOLEAN /\ sinceKill' \in Nat
      BY <1>0, <1>1, <2>1 DEF TypeOK
    <3>2. /\ phase' \in {"off", "read", "decide", "gate", "send"} /\ rejected' \in BOOLEAN
          /\ result' \in {"none", "running", "PASS", "FAIL", "interrupted"}
      BY <2>1
    <3>3. /\ cycle' \in Cycle /\ errors' \in 0 .. MaxReadErrors + 1 /\ readAt' \in CycleOrNever
          /\ lastOrder' \in [Ticker -> CycleOrNever] /\ holdingSince' \in [Ticker -> CycleOrNever]
          /\ sentAt' \in [Ticker -> CycleOrNever] /\ boughtAt' \in [Ticker -> CycleOrNever]
      BY <2>1, FirstCycle
    <3>4. plan' \subseteq Order /\ left' \subseteq plan' /\ unverified' \subseteq Ticker
      BY <2>1
    <3> QED
      BY <3>1, <3>2, <3>3, <3>4 DEF TypeOK
  <2>3. ErrorsCounted'
    BY <2>1 DEF ErrorsCounted, Never
  <2> QED
    BY <2>2, <2>3 DEF TypeInv
<1>3. CASE MarketCloses \/ CycleFails \/ GateRefuses \/ Interrupt \/ Crash
  BY <1>0, <1>3 DEF MarketCloses, CycleFails, GateRefuses, Interrupt, Crash, End, TypeInv, TypeOK,
     ErrorsCounted, broker, tables, batch, history
<1>4. CASE ReadFails
  <2>1. CASE errors + 1 > MaxReadErrors
    BY <1>0, <1>4, <2>1 DEF ReadFails, End, TypeInv, TypeOK, ErrorsCounted, broker, tables, batch, history
  <2>2. CASE ~(errors + 1 > MaxReadErrors)
    <3>1. /\ phase = "read" /\ errors' = errors + 1
          /\ UNCHANGED <<broker, seen, tables, batch, killed, history, readAt, sinceKill>>
      BY <1>4 DEF ReadFails
    <3>2. NextCycle
      BY <1>4, <2>2 DEF ReadFails
    <3> QED
      BY <1>0, <2>2, <3>1, <3>2, NextCycleGoes DEF TypeInv, TypeOK, ErrorsCounted, broker, tables,
         batch, history, CycleOrNever, Cycle, Never
  <2> QED
    BY <2>1, <2>2
<1>5. CASE Read
  BY <1>0, <1>5, TableTypes DEF Read, TypeInv, TypeOK, ErrorsCounted, broker, batch, history,
     CycleOrNever
<1>6. ASSUME NEW tickers \in SUBSET Ticker, NEW ask \in [tickers -> Ask], Decide(ask)
      PROVE  TypeInv'
  <2>1. /\ phase = "decide" /\ rejected' = FALSE /\ seen' = NothingSeen
        /\ UNCHANGED <<broker, errors, tables, killed, history, readAt, sinceKill>>
    BY <1>6 DEF Decide
  <2>2. /\ plan' \subseteq Order /\ left' = plan'
        /\ NextCycle \/ (phase' = "gate" /\ UNCHANGED <<cycle, result>>)
    BY <1>6, Decided, Zenon
  <2>3. \/ phase' = "off" /\ cycle' = cycle /\ result' = "PASS"
        \/ phase' = "read" /\ cycle' = cycle + 1 /\ cycle' \in Cycle /\ result' = result
        \/ phase' = "gate" /\ cycle' = cycle /\ result' = result
    BY <1>0, <2>2, NextCycleGoes DEF TypeOK
  <2>4. TypeOK'
    BY <1>0, <1>1, <2>1, <2>2, <2>3 DEF TypeOK, broker, tables, history
  <2>5. ErrorsCounted'
    BY <1>0, <2>1, <2>3 DEF ErrorsCounted, TypeOK, Cycle
  <2> QED
    BY <2>4, <2>5 DEF TypeInv
<1>7. CASE GatePasses
  BY <1>0, <1>7 DEF GatePasses, TypeInv, TypeOK, ErrorsCounted, broker, tables, batch, history
<1>8. ASSUME NEW o \in Order, NEW answered \in BOOLEAN, Sends(o, answered) PROVE TypeInv'
  <2>1. /\ phase = "send" /\ left' = left \ {o}
        /\ UNCHANGED <<account, phase, cycle, errors, seen, tables, plan, result, killed, readAt>>
    BY <1>8 DEF Sends
  <2> QED
    BY <1>0, <1>8, <2>1, SendsTypes DEF TypeInv, TypeOK, ErrorsCounted, tables
<1>9. ASSUME NEW o \in Order, Rejects(o) PROVE TypeInv'
  BY <1>0, <1>9 DEF Rejects, TypeInv, TypeOK, ErrorsCounted, broker, tables, history
<1>10. CASE Verified
  <2>1. /\ phase = "send" /\ unverified' = {}
        /\ lastOrder' = Recorded(lastOrder, plan) /\ holdingSince' = RecordedBuys(holdingSince, plan)
        /\ UNCHANGED <<broker, errors, seen, batch, killed, sentAt, boughtAt, readAt, sinceKill>>
    BY <1>10 DEF Verified
  <2>2. NextCycle
    BY <1>10 DEF Verified
  <2> QED
    BY <1>0, <2>1, <2>2, TableTypes, NextCycleGoes DEF TypeInv, TypeOK, ErrorsCounted, broker, batch,
       CycleOrNever, Cycle, Never
<1>11. CASE NotVerified
  BY <1>0, <1>11, TableTypes DEF NotVerified, End, TypeInv, TypeOK, ErrorsCounted, broker, batch, history
<1>12. ASSUME NEW t \in Ticker, NEW side \in {"buy", "sell"}, Fills(t, side) PROVE TypeInv'
  <2>1. open[t][side] \in Nat \ {0} /\ account[t] \in Int
    BY <1>0, <1>12 DEF Fills, TypeOK
  <2>2. open' \in [Ticker -> [buy: Nat, sell: Nat]]
    BY <1>0, <1>12, <2>1 DEF Fills, TypeOK
  <2>3. account' \in [Ticker -> Int]
    BY <1>0, <1>12, <2>1 DEF Fills, TypeOK
  <2> QED
    BY <1>0, <1>12, <2>2, <2>3 DEF Fills, TypeInv, TypeOK, ErrorsCounted, tables, batch, history
<1>13. ASSUME NEW t \in Ticker, Lapses(t) PROVE TypeInv'
  BY <1>0, <1>13 DEF Lapses, TypeInv, TypeOK, ErrorsCounted, tables, batch, history
<1>14. CASE Switch
  BY <1>0, <1>14 DEF Switch, TypeInv, TypeOK, ErrorsCounted, broker, tables, batch, history
<1>15. CASE UNCHANGED vars
  BY <1>0, <1>15 DEF vars, TypeInv, TypeOK, ErrorsCounted, broker, tables, batch, history
<1> QED
  BY <1>2, <1>3, <1>4, <1>5, <1>6, <1>7, <1>8, <1>9, <1>10, <1>11, <1>12, <1>13, <1>14, <1>15, ZenonT(40)
     DEF Next, Run, Others

\* Every variable keeps its type.
THEOREM TypeCorrect == Spec => []TypeOK
<1>1. TypeInv => TypeOK
  BY DEF TypeInv
<1> QED
  BY InitTypeInv, NextTypeInv, <1>1, PTL DEF Spec

\* A run goes on only if one of its last MaxReadErrors + 1 reads succeeded (SkipsBounded).
THEOREM SkipsAreBounded == Spec => []SkipsBounded
<1>1. TypeInv => SkipsBounded
  BY TraderAssumption DEF TypeInv, TypeOK, ErrorsCounted, SkipsBounded, Cycle, CycleOrNever, Never
<1> QED
  BY InitTypeInv, NextTypeInv, <1>1, PTL DEF Spec

(***************************************************************************)
(* What a run that passed has verified: nothing is unverified but while    *)
(* orders are sent, and a run has no result before it ends.                *)
(***************************************************************************)
VerifiedInv ==
  /\ phase \in {"read", "decide", "gate"} => unverified = {}
  /\ phase # "off" => result = "running"
  /\ PassMeansVerified

\* Every step keeps that.
LEMMA NextVerifiedInv == TypeInv /\ VerifiedInv /\ [Next]_vars => VerifiedInv'
<1> SUFFICES ASSUME TypeInv, VerifiedInv, [Next]_vars PROVE VerifiedInv'
  OBVIOUS
<1>0. cycle \in Cycle /\ phase \in {"off", "read", "decide", "gate", "send"}
  BY DEF TypeInv, TypeOK
<1> USE DEF VerifiedInv, PassMeansVerified
<1>1. CASE Start
  BY <1>1 DEF Start
<1>2. CASE MarketCloses \/ CycleFails \/ GateRefuses \/ Interrupt \/ Crash \/ NotVerified
  BY <1>2 DEF MarketCloses, CycleFails, GateRefuses, Interrupt, Crash, NotVerified, End, history
<1>3. CASE ReadFails
  <2>1. phase = "read" /\ unverified' = unverified /\ (End("FAIL") \/ NextCycle)
    BY <1>3 DEF ReadFails, history
  <2> QED
    BY <1>0, <2>1, NextCycleGoes DEF End
<1>4. CASE Read \/ GatePasses
  BY <1>4 DEF Read, GatePasses, history
<1>5. ASSUME NEW tickers \in SUBSET Ticker, NEW ask \in [tickers -> Ask], Decide(ask)
      PROVE  VerifiedInv'
  <2>1. phase = "decide" /\ unverified' = unverified
    BY <1>5 DEF Decide, history
  <2>2. NextCycle \/ (phase' = "gate" /\ UNCHANGED <<cycle, result>>)
    BY <1>5, Decided, Zenon
  <2> QED
    BY <1>0, <2>1, <2>2, NextCycleGoes
<1>6. ASSUME NEW o \in Order, NEW answered \in BOOLEAN, Sends(o, answered) PROVE VerifiedInv'
  BY <1>6 DEF Sends
<1>7. ASSUME NEW o \in Order, Rejects(o) PROVE VerifiedInv'
  BY <1>7 DEF Rejects, history
<1>8. CASE Verified
  <2>1. phase = "send" /\ unverified' = {} /\ NextCycle
    BY <1>8 DEF Verified
  <2> QED
    BY <1>0, <2>1, NextCycleGoes
<1>9. ASSUME NEW t \in Ticker, Lapses(t) \/ \E side \in {"buy", "sell"} : Fills(t, side)
      PROVE  VerifiedInv'
  BY <1>9 DEF Lapses, Fills, history
<1>10. CASE Switch \/ UNCHANGED vars
  BY <1>10 DEF Switch, vars, history
<1> QED
  BY <1>1, <1>2, <1>3, <1>4, <1>5, <1>6, <1>7, <1>8, <1>9, <1>10, Zenon DEF Next, Run, Others

\* A run that ends PASS by itself has verified every order the broker took
\* (PassMeansVerified).
THEOREM PassVerified == Spec => []PassMeansVerified
<1>1. Init => VerifiedInv
  BY DEF Init, VerifiedInv, PassMeansVerified
<1>2. VerifiedInv => PassMeansVerified
  BY DEF VerifiedInv
<1> QED
  BY InitTypeInv, NextTypeInv, <1>1, NextVerifiedInv, <1>2, PTL DEF Spec

(***************************************************************************)
(* No short position: what may be sold when a cycle reads can only grow    *)
(* until its own orders are sent, and they are one for each ticker.        *)
(***************************************************************************)
OnePerTicker == \A o, p \in plan : o.ticker = p.ticker => o = p

ShortInv ==
  /\ OnePerTicker
  /\ NeverShort
  /\ phase = "decide" => \A t \in Ticker : seen[t].sellable <= account[t] - open[t].sell
  /\ phase \in {"gate", "send"} =>
       \A o \in left : o.kind # "buy" => o.qty <= account[o.ticker] - open[o.ticker].sell

\* A fill moves a share from the order to the account or out of it.
LEMMA FillsLeaveSellable ==
  ASSUME TypeOK, NEW t \in Ticker, NEW side \in {"buy", "sell"}, Fills(t, side)
  PROVE  \A u \in Ticker : account'[u] - open'[u].sell >= account[u] - open[u].sell
<1>1. open[t] \in [buy: Nat, sell: Nat] /\ account[t] \in Int
  BY DEF TypeOK
<1>2. \A u \in Ticker : u # t => account'[u] = account[u] /\ open'[u] = open[u]
  BY DEF Fills, TypeOK
<1>3. CASE side = "buy"
  <2>1. account'[t] = account[t] + 1 /\ open'[t].sell = open[t].sell
    BY <1>1, <1>3 DEF Fills, TypeOK
  <2> QED
    BY <1>1, <1>2, <2>1 DEF TypeOK
<1>4. CASE side = "sell"
  <2>1. account'[t] = account[t] - 1 /\ open'[t].sell = open[t].sell - 1
    BY <1>1, <1>4 DEF Fills, TypeOK
  <2> QED
    BY <1>1, <1>2, <2>1 DEF TypeOK
<1> QED
  BY <1>3, <1>4

\* Every step keeps the account long.
LEMMA NextShortInv == TypeInv /\ ShortInv /\ [Next]_vars => ShortInv'
<1> SUFFICES ASSUME TypeInv, ShortInv, [Next]_vars PROVE ShortInv'
  OBVIOUS
<1>0. /\ TypeOK /\ cycle \in Cycle /\ phase \in {"off", "read", "decide", "gate", "send"}
      /\ left \subseteq plan /\ plan \subseteq Order
  BY DEF TypeInv, TypeOK
<1>1. CASE Start
  BY <1>1 DEF Start, ShortInv, OnePerTicker, NeverShort, broker
<1>2. CASE MarketCloses \/ CycleFails \/ GateRefuses \/ Interrupt \/ Crash \/ NotVerified
  BY <1>2 DEF MarketCloses, CycleFails, GateRefuses, Interrupt, Crash, NotVerified, End, ShortInv,
     OnePerTicker, NeverShort, broker, batch
<1>3. CASE ReadFails \/ Verified
  <2>1. UNCHANGED <<account, open, plan, left>> /\ (End("FAIL") \/ NextCycle)
    BY <1>3, Zenon DEF ReadFails, Verified, broker, batch
  <2>2. phase' \in {"off", "read"}
    BY <1>0, <2>1, NextCycleGoes DEF End
  <2> QED
    BY <2>1, <2>2 DEF ShortInv, OnePerTicker, NeverShort
<1>4. CASE Read
  BY <1>4, <1>0 DEF Read, Balance, ShortInv, OnePerTicker, NeverShort, broker, batch, TypeOK
<1>5. ASSUME NEW tickers \in SUBSET Ticker, NEW ask \in [tickers -> Ask], Decide(ask)
      PROVE  ShortInv'
  <2>1. phase = "decide" /\ account' = account /\ open' = open
    BY <1>5 DEF Decide, broker
  <2>2. /\ NextCycle \/ (phase' = "gate" /\ UNCHANGED <<cycle, result>>)
        /\ left' = plan' /\ plan' \subseteq Order
        /\ \A o, p \in plan' : o.ticker = p.ticker => o = p
    BY <1>5, Decided, Zenon
  <2>3. \A o \in plan' : \E q \in Order :
              /\ q.ticker = o.ticker /\ q.kind = o.kind /\ o.qty <= q.qty
              /\ q.kind # "buy" => q.qty <= seen[q.ticker].sellable
    BY <1>5, Decided
  <2>4. phase' \in {"off", "read", "gate"}
    BY <1>0, <2>2, NextCycleGoes
  <2>5. ASSUME NEW o \in left', o.kind # "buy"
        PROVE  o.qty <= account[o.ticker] - open[o.ticker].sell
    <3>1. PICK q \in Order : /\ q.ticker = o.ticker /\ q.kind = o.kind /\ o.qty <= q.qty
                             /\ q.kind # "buy" => q.qty <= seen[q.ticker].sellable
      BY <2>2, <2>3
    <3>2. seen[o.ticker].sellable <= account[o.ticker] - open[o.ticker].sell
      BY <2>1, <2>2 DEF ShortInv, Order
    <3>3. /\ o.qty \in Int /\ q.qty \in Int /\ seen[o.ticker].sellable \in Int
          /\ account[o.ticker] - open[o.ticker].sell \in Int
      BY <1>0, <2>2, <2>5 DEF Order, TypeOK
    <3> QED
      BY <2>5, <3>1, <3>2, <3>3
  <2> QED
    BY <2>1, <2>2, <2>4, <2>5 DEF ShortInv, OnePerTicker, NeverShort
<1>6. CASE GatePasses
  BY <1>6 DEF GatePasses, ShortInv, OnePerTicker, NeverShort, broker, batch
<1>7. ASSUME NEW o \in Order, NEW answered \in BOOLEAN, Sends(o, answered) PROVE ShortInv'
  <2> DEFINE t == o.ticker
  <2>1. /\ phase = "send" /\ phase' = "send" /\ o \in left /\ left' = left \ {o}
        /\ open' = [open EXCEPT ![t][Side(o)] = @ + o.qty] /\ UNCHANGED <<account, plan>>
    BY <1>7 DEF Sends
  <2>2. t \in Ticker /\ o.qty \in Nat /\ open[t] \in [buy: Nat, sell: Nat] /\ account \in [Ticker -> Int]
    BY <1>0 DEF TypeOK, Order
  <2>3. \A u \in Ticker : u # t => open'[u] = open[u]
    BY <1>0, <2>1 DEF TypeOK
  <2>4. \A p \in left' : p \in left /\ p.ticker \in Ticker /\ p.ticker # t
    BY <1>0, <2>1 DEF ShortInv, OnePerTicker, Order
  <2>5. open'[t].sell <= account[t]
    <3>1. CASE o.kind = "buy"
      BY <1>0, <2>1, <2>2, <3>1 DEF Side, ShortInv, NeverShort, TypeOK
    <3>2. CASE o.kind # "buy"
      <4>1. open'[t].sell = open[t].sell + o.qty
        BY <1>0, <2>1, <2>2, <3>2 DEF Side, TypeOK
      <4>2. o.qty <= account[t] - open[t].sell
        BY <2>1, <3>2 DEF ShortInv
      <4> QED
        BY <2>2, <4>1, <4>2
    <3> QED
      BY <3>1, <3>2
  <2>6. NeverShort'
    BY <2>1, <2>3, <2>5 DEF ShortInv, NeverShort
  <2>7. \A p \in left' : p.kind # "buy" => p.qty <= account'[p.ticker] - open'[p.ticker].sell
    BY <2>1, <2>3, <2>4 DEF ShortInv
  <2> QED
    BY <2>1, <2>6, <2>7 DEF ShortInv, OnePerTicker
<1>8. ASSUME NEW o \in Order, Rejects(o) PROVE ShortInv'
  BY <1>8 DEF Rejects, ShortInv, OnePerTicker, NeverShort, broker
<1>9. ASSUME NEW t \in Ticker, NEW side \in {"buy", "sell"}, Fills(t, side) PROVE ShortInv'
  <2>1. UNCHANGED <<phase, seen, plan, left>>
    BY <1>9 DEF Fills, batch
  <2>2. \A u \in Ticker : account'[u] - open'[u].sell >= account[u] - open[u].sell
    BY <1>0, <1>9, FillsLeaveSellable
  <2>3. \A u \in Ticker : /\ account[u] \in Int /\ open[u].sell \in Int /\ seen[u].sellable \in Int
                          /\ account'[u] \in Int /\ open'[u].sell \in Int
    <3>1. TypeOK'
      BY NextTypeInv DEF TypeInv
    <3> QED
      BY <1>0, <3>1 DEF TypeOK
  <2>4. \A o \in left : o.ticker \in Ticker /\ o.qty \in Int
    BY <1>0 DEF Order
  <2>5. NeverShort'
    BY <2>2, <2>3 DEF ShortInv, NeverShort
  <2>6. phase = "decide" => \A u \in Ticker : seen[u].sellable <= account'[u] - open'[u].sell
    BY <2>2, <2>3 DEF ShortInv
  <2>7. phase \in {"gate", "send"} =>
          \A o \in left : o.kind # "buy" => o.qty <= account'[o.ticker] - open'[o.ticker].sell
    BY <2>2, <2>3, <2>4 DEF ShortInv
  <2> QED
    BY <2>1, <2>5, <2>6, <2>7 DEF ShortInv, OnePerTicker
<1>10. ASSUME NEW t \in Ticker, Lapses(t) PROVE ShortInv'
  <2>1. /\ phase = "off" /\ phase' = "off" /\ UNCHANGED <<account, plan, left>>
        /\ open' = [open EXCEPT ![t] = [buy |-> 0, sell |-> 0]]
    BY <1>10 DEF Lapses, batch
  <2>2. \A u \in Ticker : open'[u].sell <= open[u].sell /\ open'[u].sell \in Int
    BY <1>0, <2>1 DEF TypeOK
  <2> QED
    BY <1>0, <2>1, <2>2 DEF ShortInv, OnePerTicker, NeverShort, TypeOK
<1>11. CASE Switch \/ UNCHANGED vars
  BY <1>11 DEF Switch, vars, ShortInv, OnePerTicker, NeverShort, broker, batch
<1> QED
  BY <1>1, <1>2, <1>3, <1>4, <1>5, <1>6, <1>7, <1>8, <1>9, <1>10, <1>11, Zenon DEF Next, Run, Others

\* The sell orders out never exceed the shares held (NeverShort).
THEOREM NoShortPosition == Spec => []NeverShort
<1>1. Init => ShortInv
  BY DEF Init, ShortInv, OnePerTicker, NeverShort
<1>2. ShortInv => NeverShort
  BY DEF ShortInv
<1> QED
  BY InitTypeInv, NextTypeInv, <1>1, NextShortInv, <1>2, PTL DEF Spec

(***************************************************************************)
(* The runtime policy.  Its table agrees with what was sent in this run,   *)
(* except for the tickers of the orders that are being sent; an order that *)
(* is still to be sent was permitted on the table as it is.                *)
(***************************************************************************)
Recent(t) == sentAt[t] = lastOrder[t]

PolicyInv ==
  /\ OnePerTicker
  /\ phase \in {"read", "decide", "gate"} => \A t \in Ticker : Recent(t)
  /\ phase = "gate" => left = plan /\ ~rejected
  /\ phase = "send" =>
       /\ \A t \in Ticker : Recent(t) \/ \E o \in plan \ left : o.ticker = t
       /\ ~rejected => \A o \in plan \ left : sentAt[o.ticker] = cycle
  /\ phase \in {"gate", "send"} => \A o \in left : o.kind # "reduce" => ~Cooling(o.ticker)

\* Every step keeps that.
LEMMA NextPolicyInv == TypeInv /\ PolicyInv /\ [Next]_vars => PolicyInv'
<1> SUFFICES ASSUME TypeInv, PolicyInv, [Next]_vars PROVE PolicyInv'
  OBVIOUS
<1>0. /\ TypeOK /\ cycle \in Cycle /\ phase \in {"off", "read", "decide", "gate", "send"}
      /\ left \subseteq plan /\ plan \subseteq Order
  BY DEF TypeInv, TypeOK
<1>1. CASE Start
  BY <1>1 DEF Start, PolicyInv, OnePerTicker, Recent
<1>2. CASE MarketCloses \/ CycleFails \/ GateRefuses \/ Interrupt \/ Crash \/ NotVerified
  BY <1>2 DEF MarketCloses, CycleFails, GateRefuses, Interrupt, Crash, NotVerified, End, PolicyInv,
     OnePerTicker, batch
<1>3. CASE ReadFails
  <2>1. phase = "read" /\ UNCHANGED <<plan, lastOrder, sentAt>> /\ (End("FAIL") \/ NextCycle)
    BY <1>3, Zenon DEF ReadFails, batch, tables, history
  <2>2. phase' \in {"off", "read"}
    BY <1>0, <2>1, NextCycleGoes DEF End
  <2> QED
    BY <2>1, <2>2 DEF PolicyInv, OnePerTicker, Recent
<1>4. CASE Read
  BY <1>4 DEF Read, PolicyInv, OnePerTicker, Recent, batch, history
<1>5. ASSUME NEW tickers \in SUBSET Ticker, NEW ask \in [tickers -> Ask], Decide(ask)
      PROVE  PolicyInv'
  <2>1. phase = "decide" /\ rejected' = FALSE /\ UNCHANGED <<lastOrder, sentAt>>
    BY <1>5 DEF Decide, tables, history
  <2>2. /\ NextCycle \/ (phase' = "gate" /\ UNCHANGED <<cycle, result>>)
        /\ left' = plan' /\ plan' \subseteq Order
        /\ \A o, p \in plan' : o.ticker = p.ticker => o = p
    BY <1>5, Decided, Zenon
  <2>3. \A o \in plan' : \E q \in Order : q.ticker = o.ticker /\ q.kind = o.kind /\ Permitted(q)
    BY <1>5, Decided
  <2>4. \A o \in plan' : o.kind # "reduce" => ~Cooling(o.ticker)
    BY <2>3 DEF Permitted
  <2>5. phase' \in {"off", "read"} \/ (phase' = "gate" /\ cycle' = cycle)
    BY <1>0, <2>2, NextCycleGoes
  <2> QED
    BY <2>1, <2>2, <2>4, <2>5 DEF PolicyInv, OnePerTicker, Recent, Cooling
<1>6. CASE GatePasses
  BY <1>6 DEF GatePasses, PolicyInv, OnePerTicker, Recent, Cooling, batch, tables, history
<1>7. ASSUME NEW o \in Order, NEW answered \in BOOLEAN, Sends(o, answered) PROVE PolicyInv'
  <2>1. /\ phase = "send" /\ phase' = "send" /\ o \in left /\ left' = left \ {o}
        /\ sentAt' = [sentAt EXCEPT ![o.ticker] = cycle] /\ rejected' = (rejected \/ ~answered)
        /\ UNCHANGED <<plan, cycle, lastOrder>>
    BY <1>7 DEF Sends, tables
  <2>2. /\ sentAt'[o.ticker] = cycle /\ o \in plan \ left'
        /\ \A u \in Ticker : u # o.ticker => sentAt'[u] = sentAt[u]
    BY <1>0, <2>1 DEF TypeOK, Order
  <2>3. \A u \in Ticker : sentAt'[u] = lastOrder[u] \/ \E p \in plan \ left' : p.ticker = u
    BY <2>1, <2>2 DEF PolicyInv, Recent
  <2>4. ~rejected' => \A p \in plan \ left' : sentAt'[p.ticker] = cycle
    BY <1>0, <2>1, <2>2 DEF PolicyInv, Order
  <2> QED
    BY <2>1, <2>3, <2>4 DEF PolicyInv, OnePerTicker, Recent, Cooling
<1>8. ASSUME NEW o \in Order, Rejects(o) PROVE PolicyInv'
  <2>1. /\ phase = "send" /\ phase' = "send" /\ o \in left /\ left' = left \ {o} /\ rejected' = TRUE
        /\ UNCHANGED <<plan, cycle, lastOrder, sentAt>>
    BY <1>8 DEF Rejects, tables, history
  <2> QED
    BY <2>1 DEF PolicyInv, OnePerTicker, Recent, Cooling
<1>9. CASE Verified
  <2>1. /\ phase = "send" /\ left = {} /\ ~rejected /\ lastOrder' = Recorded(lastOrder, plan)
        /\ NextCycle /\ UNCHANGED <<plan, sentAt>>
    BY <1>9 DEF Verified, batch
  <2>2. phase' \in {"off", "read"}
    BY <1>0, <2>1, NextCycleGoes
  <2>3. \A t \in Ticker : sentAt[t] = lastOrder'[t]
    <3>1. TAKE t \in Ticker
    <3>2. CASE \E o \in plan : o.ticker = t
      BY <2>1, <3>1, <3>2 DEF PolicyInv, Recorded
    <3>3. CASE ~\E o \in plan : o.ticker = t
      BY <2>1, <3>1, <3>3 DEF PolicyInv, Recorded, Recent
    <3> QED
      BY <3>2, <3>3
  <2> QED
    BY <2>1, <2>2, <2>3 DEF PolicyInv, OnePerTicker, Recent
<1>10. ASSUME NEW t \in Ticker, Lapses(t) \/ \E side \in {"buy", "sell"} : Fills(t, side)
       PROVE  PolicyInv'
  BY <1>10 DEF Lapses, Fills, PolicyInv, OnePerTicker, Recent, Cooling, batch, tables, history
<1>11. CASE Switch \/ UNCHANGED vars
  BY <1>11 DEF Switch, vars, PolicyInv, OnePerTicker, Recent, Cooling, batch, tables, history
<1> QED
  BY <1>1, <1>2, <1>3, <1>4, <1>5, <1>6, <1>7, <1>8, <1>9, <1>10, <1>11, Zenon DEF Next, Run, Others

\* Only the sending phase hands an order to the broker.
LEMMA OnlySending ==
  ASSUME TypeOK, [Next]_vars, NEW o \in Order, Submits(o)
  PROVE  phase = "send"
<1>1. o \in left /\ left' # left /\ open' # open
  BY DEF Submits
<1>2. ~(Start \/ MarketCloses \/ ReadFails \/ CycleFails \/ Read \/ GatePasses \/ GateRefuses)
  BY <1>1, Zenon DEF Start, MarketCloses, ReadFails, CycleFails, Read, GatePasses, GateRefuses, broker
<1>3. ~(Verified \/ NotVerified \/ Interrupt \/ Crash \/ Switch \/ UNCHANGED vars)
  BY <1>1, Zenon DEF Verified, NotVerified, Interrupt, Crash, Switch, vars, broker
<1>4. ~\E tickers \in SUBSET Ticker : \E ask \in [tickers -> Ask] : Decide(ask)
  BY <1>1, Zenon DEF Decide, broker
<1>5. ~\E t \in Ticker : Lapses(t) \/ \E side \in {"buy", "sell"} : Fills(t, side)
  BY <1>1, Zenon DEF Lapses, Fills, batch
<1>6. \/ \E p \in Order, answered \in BOOLEAN : Sends(p, answered)
      \/ \E p \in Order : Rejects(p)
  BY <1>2, <1>3, <1>4, <1>5, Zenon DEF Next, Run, Others
<1> QED
  BY <1>6 DEF Sends, Rejects

\* Between an order of a ticker and the next one that is not a reduction for risk lie
\* Cooldown cycles of the run (CooldownKept).
THEOREM CooldownIsKept == Spec => CooldownKept
<1>1. Init => PolicyInv
  BY DEF Init, PolicyInv, OnePerTicker, NeverYet, Recent
<1>2. TypeInv /\ PolicyInv /\ [Next]_vars =>
        \A o \in Order : Submits(o) /\ o.kind # "reduce" /\ sentAt[o.ticker] # Never
          => cycle - sentAt[o.ticker] >= Cooldown
  <2> SUFFICES ASSUME TypeInv, PolicyInv, [Next]_vars, NEW o \in Order, Submits(o),
                      o.kind # "reduce", sentAt[o.ticker] # Never
               PROVE  cycle - sentAt[o.ticker] >= Cooldown
    OBVIOUS
  <2>1. phase = "send" /\ o \in left /\ o.ticker \in Ticker
    BY OnlySending DEF TypeInv, Submits, Order
  <2>2. sentAt[o.ticker] = lastOrder[o.ticker]
    BY <2>1 DEF PolicyInv, OnePerTicker, Recent, TypeInv, TypeOK
  <2>3. ~Cooling(o.ticker)
    BY <2>1 DEF PolicyInv
  <2> QED
    BY <2>1, <2>2, <2>3, TraderAssumption DEF Cooling, TypeInv, TypeOK, Cycle, CycleOrNever, Never
<1> QED
  BY InitTypeInv, NextTypeInv, <1>1, NextPolicyInv, <1>2, PTL DEF Spec, CooldownKept

(***************************************************************************)
(* The holding time is counted from the last buy or later: a ticker is     *)
(* bought only when the balance does not show it, and then it has no entry *)
(* in the table.                                                           *)
(***************************************************************************)
CountedFromBuy ==
  \A t \in Ticker : /\ boughtAt[t] <= cycle
                    /\ boughtAt[t] # Never /\ holdingSince[t] # Never => holdingSince[t] >= boughtAt[t]

HoldingInv ==
  /\ OnePerTicker
  /\ phase # "off" => CountedFromBuy
  /\ phase = "decide" => \A t \in Ticker : /\ seen[t].qty = 0 => holdingSince[t] = Never
                                           /\ seen[t].sellable <= seen[t].qty
  /\ phase \in {"gate", "send"} =>
       /\ \A o \in plan : o.kind = "buy" => holdingSince[o.ticker] = Never
       /\ \A o \in left : o.kind = "sell" /\ boughtAt[o.ticker] # Never
            => cycle - boughtAt[o.ticker] >= MinHolding

\* A sell that the policy permits has been held for long enough.
LEMMA PermittedSell ==
  ASSUME TypeOK, CountedFromBuy, NEW q \in Order, q.kind = "sell", Permitted(q),
         q.qty <= seen[q.ticker].sellable, seen[q.ticker].sellable <= seen[q.ticker].qty,
         boughtAt[q.ticker] # Never
  PROVE  cycle - boughtAt[q.ticker] >= MinHolding
<1> DEFINE t == q.ticker
<1>1. /\ t \in Ticker /\ q.qty \in Nat \ {0} /\ seen[t].qty \in Int /\ seen[t].sellable \in Int
      /\ cycle \in Nat /\ boughtAt[t] \in Int /\ holdingSince[t] \in Int
  BY TraderAssumption DEF TypeOK, Order, CycleOrNever, Cycle, Never
<1>2. seen[t].qty > 0
  BY <1>1
<1>3. ~TooYoung(t)
  BY <1>2 DEF Permitted
<1>4. boughtAt[t] <= cycle
  BY <1>1 DEF CountedFromBuy
<1>5. holdingSince[t] # Never => holdingSince[t] >= boughtAt[t]
  BY <1>1 DEF CountedFromBuy
<1> QED
  BY <1>1, <1>3, <1>4, <1>5, TraderAssumption DEF TooYoung, Since

\* Every step keeps that.
LEMMA NextHoldingInv == TypeInv /\ HoldingInv /\ [Next]_vars => HoldingInv'
<1> SUFFICES ASSUME TypeInv, HoldingInv, [Next]_vars PROVE HoldingInv'
  OBVIOUS
<1>0. /\ TypeOK /\ cycle \in Nat /\ cycle \in Cycle
      /\ phase \in {"off", "read", "decide", "gate", "send"}
      /\ left \subseteq plan /\ plan \subseteq Order
      /\ \A t \in Ticker : boughtAt[t] \in Int /\ holdingSince[t] \in Int
  BY TraderAssumption DEF TypeInv, TypeOK, CycleOrNever, Cycle, Never
<1>1. CASE Start
  <2>1. /\ phase' = "read" /\ cycle' = 0 /\ plan' = {} /\ boughtAt' = NeverYet
    BY <1>1 DEF Start
  <2> QED
    BY <2>1 DEF HoldingInv, OnePerTicker, CountedFromBuy, NeverYet, Never
<1>2. CASE MarketCloses \/ CycleFails \/ GateRefuses \/ Interrupt \/ Crash \/ NotVerified
  BY <1>2 DEF MarketCloses, CycleFails, GateRefuses, Interrupt, Crash, NotVerified, End, HoldingInv,
     OnePerTicker, batch
<1>3. CASE ReadFails
  <2>1. phase = "read" /\ UNCHANGED <<plan, boughtAt, holdingSince>> /\ (End("FAIL") \/ NextCycle)
    BY <1>3, Zenon DEF ReadFails, batch, tables, history
  <2>2. phase' = "off" \/ (phase' = "read" /\ cycle' = cycle + 1)
    BY <1>0, <2>1, NextCycleGoes DEF End
  <2> QED
    BY <1>0, <2>1, <2>2 DEF HoldingInv, OnePerTicker, CountedFromBuy
<1>4. CASE Read
  <2>1. /\ phase = "read" /\ phase' = "decide" /\ seen' = Balance /\ holdingSince' = Synced(Balance)
        /\ UNCHANGED <<account, open, cycle, plan, boughtAt>>
    BY <1>4 DEF Read, broker, batch, history
  <2>2. CountedFromBuy'
    BY <1>0, <2>1 DEF HoldingInv, CountedFromBuy, Synced
  <2>3. \A t \in Ticker : /\ seen'[t].qty = 0 => holdingSince'[t] = Never
                          /\ seen'[t].sellable <= seen'[t].qty
    BY <1>0, <2>1 DEF Balance, Synced, TypeOK
  <2> QED
    BY <2>1, <2>2, <2>3 DEF HoldingInv, OnePerTicker
<1>5. ASSUME NEW tickers \in SUBSET Ticker, NEW ask \in [tickers -> Ask], Decide(ask)
      PROVE  HoldingInv'
  <2>1. phase = "decide" /\ UNCHANGED <<boughtAt, holdingSince>>
    BY <1>5 DEF Decide, tables, history
  <2>2. /\ NextCycle \/ (phase' = "gate" /\ UNCHANGED <<cycle, result>>)
        /\ left' = plan' /\ plan' \subseteq Order
        /\ \A o, p \in plan' : o.ticker = p.ticker => o = p
    BY <1>5, Decided, Zenon
  <2>3. \A o \in plan' : \E q \in Order :
              /\ q.ticker = o.ticker /\ q.kind = o.kind /\ Permitted(q)
              /\ q.kind # "buy" => q.qty <= seen[q.ticker].sellable
    BY <1>5, Decided
  <2>4. CountedFromBuy
    BY <2>1 DEF HoldingInv
  <2>5. ASSUME NEW o \in plan', o.kind = "buy" PROVE holdingSince[o.ticker] = Never
    <3>1. PICK q \in Order : q.ticker = o.ticker /\ q.kind = o.kind /\ Permitted(q)
      BY <2>3
    <3> QED
      BY <2>1, <2>5, <3>1 DEF HoldingInv, Permitted, Order
  <2>6. ASSUME NEW o \in plan', o.kind = "sell", boughtAt[o.ticker] # Never
        PROVE  cycle - boughtAt[o.ticker] >= MinHolding
    <3>1. PICK q \in Order : /\ q.ticker = o.ticker /\ q.kind = o.kind /\ Permitted(q)
                             /\ q.kind # "buy" => q.qty <= seen[q.ticker].sellable
      BY <2>3
    <3>2. seen[q.ticker].sellable <= seen[q.ticker].qty
      BY <2>1, <3>1 DEF HoldingInv, Order
    <3> QED
      BY <1>0, <2>4, <2>6, <3>1, <3>2, PermittedSell
  <2>7. phase' = "off" \/ (phase' = "read" /\ cycle' = cycle + 1) \/ (phase' = "gate" /\ cycle' = cycle)
    BY <1>0, <2>2, NextCycleGoes
  <2>8. phase' # "off" => CountedFromBuy'
    BY <1>0, <2>1, <2>4, <2>7 DEF CountedFromBuy
  <2> QED
    BY <2>1, <2>2, <2>5, <2>6, <2>7, <2>8 DEF HoldingInv, OnePerTicker
<1>6. CASE GatePasses
  BY <1>6 DEF GatePasses, HoldingInv, OnePerTicker, CountedFromBuy, batch, tables, history
<1>7. ASSUME NEW o \in Order, NEW answered \in BOOLEAN, Sends(o, answered) PROVE HoldingInv'
  <2>1. /\ phase = "send" /\ phase' = "send" /\ o \in left /\ left' = left \ {o}
        /\ boughtAt' = IF o.kind = "buy" THEN [boughtAt EXCEPT ![o.ticker] = cycle] ELSE boughtAt
        /\ UNCHANGED <<plan, cycle, holdingSince>>
    BY <1>7 DEF Sends, tables
  <2>2. /\ \A u \in Ticker : u # o.ticker => boughtAt'[u] = boughtAt[u]
        /\ boughtAt'[o.ticker] = IF o.kind = "buy" THEN cycle ELSE boughtAt[o.ticker]
        /\ o.kind = "buy" => holdingSince[o.ticker] = Never
    BY <1>0, <2>1 DEF TypeOK, Order, HoldingInv
  <2>3. CountedFromBuy'
    BY <1>0, <2>1, <2>2 DEF HoldingInv, CountedFromBuy
  <2>4. \A p \in left' : p \in left /\ p.ticker \in Ticker /\ p.ticker # o.ticker
    BY <1>0, <2>1 DEF HoldingInv, OnePerTicker, Order
  <2> QED
    BY <2>1, <2>2, <2>3, <2>4 DEF HoldingInv, OnePerTicker
<1>8. ASSUME NEW o \in Order, Rejects(o) PROVE HoldingInv'
  <2>1. /\ phase = "send" /\ phase' = "send" /\ left' = left \ {o}
        /\ UNCHANGED <<plan, cycle, holdingSince, boughtAt>>
    BY <1>8 DEF Rejects, tables, history
  <2> QED
    BY <2>1 DEF HoldingInv, OnePerTicker, CountedFromBuy
<1>9. CASE Verified
  <2>1. /\ phase = "send" /\ holdingSince' = RecordedBuys(holdingSince, plan)
        /\ NextCycle /\ UNCHANGED <<plan, boughtAt>>
    BY <1>9 DEF Verified, batch
  <2>2. phase' = "off" \/ (phase' = "read" /\ cycle' = cycle + 1)
    BY <1>0, <2>1, NextCycleGoes
  <2>3. phase' # "off" => CountedFromBuy'
    BY <1>0, <2>1, <2>2 DEF HoldingInv, CountedFromBuy, RecordedBuys
  <2> QED
    BY <2>1, <2>2, <2>3 DEF HoldingInv, OnePerTicker
<1>10. ASSUME NEW t \in Ticker, Lapses(t) \/ \E side \in {"buy", "sell"} : Fills(t, side)
       PROVE  HoldingInv'
  BY <1>10 DEF Lapses, Fills, HoldingInv, OnePerTicker, CountedFromBuy, batch, tables, history
<1>11. CASE Switch \/ UNCHANGED vars
  BY <1>11 DEF Switch, vars, HoldingInv, OnePerTicker, CountedFromBuy, batch, tables, history
<1> QED
  BY <1>1, <1>2, <1>3, <1>4, <1>5, <1>6, <1>7, <1>8, <1>9, <1>10, <1>11, Zenon DEF Next, Run, Others

\* A ticker is not sold, but for risk, before MinHolding cycles have passed since its
\* last buy (MinHoldingKept).
THEOREM MinHoldingIsKept == Spec => MinHoldingKept
<1>1. Init => HoldingInv
  BY DEF Init, HoldingInv, OnePerTicker
<1>2. TypeInv /\ HoldingInv /\ [Next]_vars =>
        \A o \in Order : Submits(o) /\ o.kind = "sell" /\ boughtAt[o.ticker] # Never
          => cycle - boughtAt[o.ticker] >= MinHolding
  BY OnlySending DEF TypeInv, Submits, HoldingInv
<1> QED
  BY InitTypeInv, NextTypeInv, <1>1, NextHoldingInv, <1>2, PTL DEF Spec, MinHoldingKept

(***************************************************************************)
(* The kill switch: what has been sent since it was triggered and what the *)
(* decision under way may still send are MaxOrders orders at most.         *)
(***************************************************************************)
KillInv ==
  /\ ~killed => sinceKill = 0
  /\ sinceKill <= MaxOrders
  /\ phase \in {"gate", "send"} => IsFiniteSet(left) /\ Cardinality(left) <= MaxOrders
  /\ phase = "send" => sinceKill + Cardinality(left) <= MaxOrders

\* A decision leaves MaxOrders orders at most.
LEMMA DecidedFew ==
  ASSUME NEW tickers \in SUBSET Ticker, NEW ask \in [tickers -> Ask], Decide(ask)
  PROVE  IsFiniteSet(left') /\ Cardinality(left') <= MaxOrders
<1>1. PICK kept \in SUBSET Orders(ask) :
        /\ Kept({o \in Orders(ask) : Permitted(o)}, kept)
        /\ plan' = {Capped(o) : o \in kept}
        /\ left' = plan'
        /\ IF kept = {} THEN NextCycle ELSE phase' = "gate" /\ UNCHANGED <<cycle, result>>
  BY Zenon DEF Decide
<1>2. IsFiniteSet(tickers)
  BY TraderAssumption, FS_Subset
<1>3. IsFiniteSet(Orders(ask))
  <2> DEFINE f == [t \in tickers |-> [ticker |-> t, kind |-> ask[t].kind, qty |-> ask[t].qty]]
  <2>1. f \in Surjection(tickers, Orders(ask))
    BY DEF Surjection, Orders
  <2> QED
    BY <1>2, <2>1, FS_Surjection
<1>4. IsFiniteSet(kept)
  BY <1>1, <1>3, FS_Subset
<1>5. Cardinality(kept) <= MaxOrders
  <2>1. IsFiniteSet({o \in Orders(ask) : Permitted(o)})
    <3>1. {o \in Orders(ask) : Permitted(o)} \in SUBSET Orders(ask)
      OBVIOUS
    <3> QED
      BY <1>3, <3>1, FS_Subset
  <2>2. \/ kept = {o \in Orders(ask) : Permitted(o)} /\ Cardinality({o \in Orders(ask) : Permitted(o)}) <= MaxOrders
        \/ Cardinality(kept) = MaxOrders
    BY <1>1, Zenon DEF Kept
  <2> QED
    BY <2>2, TraderAssumption
<1>6. IsFiniteSet(plan') /\ Cardinality(plan') <= Cardinality(kept)
  <2> DEFINE f == [o \in kept |-> Capped(o)]
  <2>1. f \in [kept -> plan'] /\ \A o \in plan' : \E a \in kept : f[a] = o
    BY <1>1, Zenon
  <2>2. f \in Surjection(kept, plan')
    BY <2>1, Zenon DEF Surjection
  <2> QED
    BY <1>4, <2>2, FS_Surjection
<1>7. Cardinality(kept) \in Nat /\ Cardinality(plan') \in Nat
  BY <1>4, <1>6, FS_CardinalityType
<1> QED
  BY <1>1, <1>5, <1>6, <1>7, TraderAssumption

\* Every step keeps the bound.
LEMMA NextKillInv == TypeInv /\ KillInv /\ [Next]_vars => KillInv'
<1> SUFFICES ASSUME TypeInv, KillInv, [Next]_vars PROVE KillInv'
  OBVIOUS
<1>0. /\ cycle \in Cycle /\ phase \in {"off", "read", "decide", "gate", "send"}
      /\ sinceKill \in Nat /\ killed \in BOOLEAN /\ MaxOrders \in Nat
  BY TraderAssumption DEF TypeInv, TypeOK
<1>1. CASE Start
  BY <1>1 DEF Start, KillInv
<1>2. CASE MarketCloses \/ CycleFails \/ GateRefuses \/ Interrupt \/ Crash \/ NotVerified
  BY <1>2 DEF MarketCloses, CycleFails, GateRefuses, Interrupt, Crash, NotVerified, End, KillInv
<1>3. CASE ReadFails \/ Verified
  <2>1. UNCHANGED <<killed, sinceKill>> /\ (End("FAIL") \/ NextCycle)
    BY <1>3, Zenon DEF ReadFails, Verified
  <2>2. phase' \in {"off", "read"}
    BY <1>0, <2>1, NextCycleGoes DEF End
  <2> QED
    BY <2>1, <2>2 DEF KillInv
<1>4. CASE Read
  BY <1>4 DEF Read, KillInv
<1>5. ASSUME NEW tickers \in SUBSET Ticker, NEW ask \in [tickers -> Ask], Decide(ask)
      PROVE  KillInv'
  <2>1. UNCHANGED <<killed, sinceKill>>
    BY <1>5 DEF Decide
  <2>2. NextCycle \/ (phase' = "gate" /\ UNCHANGED <<cycle, result>>)
    BY <1>5, Decided, Zenon
  <2>3. IsFiniteSet(left') /\ Cardinality(left') <= MaxOrders
    BY <1>5, DecidedFew
  <2>4. phase' \in {"off", "read", "gate"}
    BY <1>0, <2>2, NextCycleGoes
  <2> QED
    BY <2>1, <2>3, <2>4 DEF KillInv
<1>6. CASE GatePasses
  <2>1. /\ phase = "gate" /\ ~killed /\ phase' = "send" /\ UNCHANGED <<left, killed, sinceKill>>
    BY <1>6 DEF GatePasses, batch
  <2>2. sinceKill = 0 /\ IsFiniteSet(left) /\ Cardinality(left) <= MaxOrders
    BY <2>1 DEF KillInv
  <2>3. Cardinality(left) \in Nat
    BY <2>2, FS_CardinalityType
  <2> QED
    BY <1>0, <2>1, <2>2, <2>3 DEF KillInv
<1>7. ASSUME NEW o \in Order, NEW answered \in BOOLEAN, Sends(o, answered) PROVE KillInv'
  <2>1. /\ phase = "send" /\ phase' = "send" /\ o \in left /\ left' = left \ {o} /\ killed' = killed
        /\ sinceKill' = IF killed THEN sinceKill + 1 ELSE sinceKill
    BY <1>7 DEF Sends
  <2>2. IsFiniteSet(left) /\ Cardinality(left) \in Nat
    BY <2>1, FS_CardinalityType DEF KillInv
  <2>3. IsFiniteSet(left') /\ Cardinality(left') = Cardinality(left) - 1
    BY <2>1, <2>2, FS_RemoveElement
  <2>4. Cardinality(left') \in Nat
    BY <2>3, FS_CardinalityType
  <2> QED
    BY <1>0, <2>1, <2>2, <2>3, <2>4 DEF KillInv
<1>8. ASSUME NEW o \in Order, Rejects(o) PROVE KillInv'
  <2>1. /\ phase = "send" /\ phase' = "send" /\ o \in left /\ left' = left \ {o}
        /\ UNCHANGED <<killed, sinceKill>>
    BY <1>8 DEF Rejects
  <2>2. IsFiniteSet(left) /\ Cardinality(left) \in Nat
    BY <2>1, FS_CardinalityType DEF KillInv
  <2>3. IsFiniteSet(left') /\ Cardinality(left') = Cardinality(left) - 1
    BY <2>1, <2>2, FS_RemoveElement
  <2> QED
    BY <1>0, <2>1, <2>2, <2>3 DEF KillInv
<1>9. ASSUME NEW t \in Ticker, Lapses(t) \/ \E side \in {"buy", "sell"} : Fills(t, side)
      PROVE  KillInv'
  BY <1>9 DEF Lapses, Fills, KillInv, batch
<1>10. CASE Switch
  <2>1. sinceKill' = 0 /\ UNCHANGED <<phase, left>>
    BY <1>10 DEF Switch, batch
  <2>2. phase = "send" => Cardinality(left) \in Nat
    BY FS_CardinalityType DEF KillInv
  <2> QED
    BY <1>0, <2>1, <2>2 DEF KillInv
<1>11. CASE UNCHANGED vars
  BY <1>11 DEF vars, KillInv, batch
<1> QED
  BY <1>1, <1>2, <1>3, <1>4, <1>5, <1>6, <1>7, <1>8, <1>9, <1>10, <1>11, Zenon DEF Next, Run, Others

\* A triggered switch lets out at most the orders of the decision that had already
\* passed the check (KillStopsNext).
THEOREM KillSwitchStops == Spec => []KillStopsNext
<1>1. Init => KillInv
  BY TraderAssumption DEF Init, KillInv
<1>2. KillInv => KillStopsNext
  BY DEF KillInv, KillStopsNext
<1> QED
  BY InitTypeInv, NextTypeInv, <1>1, NextKillInv, <1>2, PTL DEF Spec

(***************************************************************************)
(* The trader implements TradingAccount: a batch that the gateway has let  *)
(* pass names few tickers, each once, in orders of the size that the caps  *)
(* have left.                                                              *)
(***************************************************************************)
SizesCapped == \A o \in plan : o.qty <= MaxQty

\* Only a decision makes orders, and it caps them.
LEMMA NextSizesCapped == TypeInv /\ SizesCapped /\ [Next]_vars => SizesCapped'
<1> SUFFICES ASSUME TypeInv, SizesCapped, [Next]_vars PROVE SizesCapped'
  OBVIOUS
<1>1. CASE Start
  BY <1>1 DEF Start, SizesCapped
<1>2. ASSUME NEW tickers \in SUBSET Ticker, NEW ask \in [tickers -> Ask], Decide(ask)
      PROVE  SizesCapped'
  BY <1>2, Decided DEF SizesCapped
<1>3. CASE plan' = plan
  BY <1>3 DEF SizesCapped
<1> QED
  BY <1>1, <1>2, <1>3, ZenonT(40)
     DEF Next, Run, Others, MarketCloses, ReadFails, CycleFails, Read, GatePasses, GateRefuses, Sends,
         Rejects, Verified, NotVerified, Interrupt, Crash, Switch, Lapses, Fills, batch, vars

\* What is due are tickers, and few.
LEMMA DueIsSmall ==
  ASSUME TypeInv, KillInv
  PROVE  Due \subseteq Ticker /\ (phase \in {"gate", "send"} => Cardinality({o.ticker : o \in left}) <= MaxOrders)
<1>1. \A o \in left : o.ticker \in Ticker
  BY DEF TypeInv, TypeOK, Order
<1>2. Due \subseteq Ticker
  BY <1>1 DEF Due
<1>3. ASSUME phase \in {"gate", "send"} PROVE Cardinality({o.ticker : o \in left}) <= MaxOrders
  <2> DEFINE T == {o.ticker : o \in left}
             f == [o \in left |-> o.ticker]
  <2>1. IsFiniteSet(left) /\ Cardinality(left) <= MaxOrders
    BY <1>3 DEF KillInv
  <2>2. f \in Surjection(left, T)
    BY DEF Surjection
  <2>3. IsFiniteSet(T) /\ Cardinality(T) <= Cardinality(left)
    BY <2>1, <2>2, FS_Surjection
  <2>4. Cardinality(T) \in Nat /\ Cardinality(left) \in Nat
    BY <2>1, <2>3, FS_CardinalityType
  <2> QED
    BY <2>1, <2>3, <2>4, TraderAssumption
<1> QED
  BY <1>2, <1>3

\* An order that leaves the batch takes its ticker with it.
LEMMA OneLess ==
  ASSUME TypeInv, OnePerTicker, phase = "send", phase' = "send",
         NEW o \in left, left' = left \ {o}
  PROVE  o.ticker \in Due /\ Due' = Due \ {o.ticker}
<1>1. \A p \in left : p.ticker = o.ticker => p = o
  BY DEF TypeInv, TypeOK, OnePerTicker
<1>2. {p.ticker : p \in left \ {o}} = {p.ticker : p \in left} \ {o.ticker}
  BY <1>1
<1> QED
  BY <1>2 DEF Due

\* A run that is not sending has dropped what was due.
LEMMA DroppedBatch ==
  ASSUME TypeInv, KillInv, UNCHANGED <<account, open, killed>>, phase' # "send"
  PROVE  Account!Next
<1>1. Due \subseteq Ticker /\ Due' = Due \ Due
  BY DueIsSmall DEF Due
<1>2. Account!Withdraw(Due)
  BY <1>1 DEF Account!Withdraw
<1> QED
  BY <1>1, <1>2 DEF Account!Next

\* An order out is one submission of the account.
LEMMA SendsSubmits ==
  ASSUME TypeInv, ShortInv, SizesCapped, NEW o \in Order, NEW answered \in BOOLEAN, Sends(o, answered)
  PROVE  Account!Next
<1>1. /\ phase = "send" /\ phase' = "send" /\ o \in left /\ left' = left \ {o}
      /\ open' = [open EXCEPT ![o.ticker][Side(o)] = @ + o.qty] /\ UNCHANGED <<account, killed>>
  BY DEF Sends
<1>2. o.ticker \in Ticker /\ o.qty \in Nat \ {0} /\ Side(o) \in {"buy", "sell"}
  BY TraderAssumption DEF Order, Side
<1>3. o.ticker \in Due /\ Due' = Due \ {o.ticker}
  BY <1>1, OneLess DEF ShortInv
<1>4. o.qty \in 1 .. MaxQty
  BY <1>1, <1>2, TraderAssumption DEF SizesCapped, TypeInv, TypeOK
<1>5. Side(o) = "sell" => o.qty <= account[o.ticker] - open[o.ticker].sell
  BY <1>1 DEF ShortInv, Side
<1>6. Account!Submit(o.ticker, Side(o), o.qty)
  BY <1>1, <1>3, <1>5 DEF Account!Submit, Account!Sellable
<1> QED
  BY <1>2, <1>4, <1>6 DEF Account!Next

\* Every step is one of the account's, or leaves it as it is.
LEMMA NextAccount ==
  TypeInv /\ ShortInv /\ KillInv /\ SizesCapped /\ [Next]_vars => [Account!Next]_(Account!avars)
<1> SUFFICES ASSUME TypeInv, ShortInv, KillInv, SizesCapped, [Next]_vars
             PROVE  Account!Next \/ UNCHANGED Account!avars
  OBVIOUS
<1>0. cycle \in Cycle /\ phase \in {"off", "read", "decide", "gate", "send"}
  BY DEF TypeInv, TypeOK
<1>1. CASE Start \/ MarketCloses \/ CycleFails \/ Read \/ GateRefuses \/ NotVerified \/ Interrupt \/ Crash
  <2>1. UNCHANGED <<account, open, killed>> /\ phase' # "send"
    BY <1>1 DEF Start, MarketCloses, CycleFails, Read, GateRefuses, NotVerified, Interrupt, Crash, End, broker
  <2> QED
    BY <2>1, DroppedBatch
<1>2. CASE ReadFails \/ Verified
  <2>1. UNCHANGED <<account, open, killed>> /\ (End("FAIL") \/ NextCycle)
    BY <1>2, Zenon DEF ReadFails, Verified, broker
  <2>2. phase' # "send"
    BY <1>0, <2>1, NextCycleGoes DEF End
  <2> QED
    BY <2>1, <2>2, DroppedBatch
<1>3. ASSUME NEW tickers \in SUBSET Ticker, NEW ask \in [tickers -> Ask], Decide(ask)
      PROVE  Account!Next
  <2>1. UNCHANGED <<account, open, killed>>
    BY <1>3 DEF Decide, broker
  <2>2. NextCycle \/ (phase' = "gate" /\ UNCHANGED <<cycle, result>>)
    BY <1>3, Decided, Zenon
  <2>3. phase' # "send"
    BY <1>0, <2>2, NextCycleGoes
  <2> QED
    BY <2>1, <2>3, DroppedBatch
<1>4. CASE GatePasses
  <2>1. /\ phase = "gate" /\ phase' = "send" /\ ~killed /\ left' = left
        /\ UNCHANGED <<account, open, killed>>
    BY <1>4 DEF GatePasses, broker, batch
  <2>2. Due = {} /\ Due' = {o.ticker : o \in left}
    BY <2>1 DEF Due
  <2>3. Account!Cardinality(Due') <= MaxOrders
    <3>1. Cardinality(Due') <= MaxOrders
      BY <2>1, <2>2, DueIsSmall
    <3>2. Account!Cardinality(Due') = Cardinality(Due')
      BY Zenon DEF Account!Cardinality, Cardinality
    <3> QED
      BY <3>1, <3>2
  <2>4. Due' \subseteq Ticker
    BY <2>2 DEF TypeInv, TypeOK, Order
  <2>5. Account!Approve(Due')
    BY <2>1, <2>2, <2>3 DEF Account!Approve
  <2> QED
    BY <2>4, <2>5 DEF Account!Next
<1>5. ASSUME NEW o \in Order, NEW answered \in BOOLEAN, Sends(o, answered) PROVE Account!Next
  BY <1>5, SendsSubmits
<1>6. ASSUME NEW o \in Order, Rejects(o) PROVE Account!Next
  <2>1. /\ phase = "send" /\ phase' = "send" /\ o \in left /\ left' = left \ {o}
        /\ UNCHANGED <<account, open, killed>>
    BY <1>6 DEF Rejects, broker
  <2>2. Due' = Due \ {o.ticker} /\ {o.ticker} \in SUBSET Ticker
    BY <2>1, OneLess DEF ShortInv, Order
  <2>3. Account!Withdraw({o.ticker})
    BY <2>1, <2>2 DEF Account!Withdraw
  <2> QED
    BY <2>2, <2>3 DEF Account!Next
<1>7. ASSUME NEW t \in Ticker, NEW side \in {"buy", "sell"}, Fills(t, side) PROVE Account!Next
  <2>1. UNCHANGED <<phase, left, killed>>
    BY <1>7 DEF Fills, batch
  <2>2. Account!Fill(t, side)
    BY <1>7, <2>1 DEF Fills, Account!Fill, Due
  <2> QED
    BY <2>2 DEF Account!Next
<1>8. ASSUME NEW t \in Ticker, Lapses(t) PROVE Account!Next
  <2>1. phase = "off" /\ UNCHANGED <<account, phase, left, killed>>
    BY <1>8 DEF Lapses, batch
  <2>2. Account!Lapse(t)
    BY <1>8, <2>1 DEF Lapses, Account!Lapse, Account!Nothing, Due
  <2> QED
    BY <2>2 DEF Account!Next
<1>9. CASE Switch
  <2>1. Account!Switch
    BY <1>9 DEF Switch, Account!Switch, Due, broker, batch
  <2> QED
    BY <2>1 DEF Account!Next
<1>10. CASE UNCHANGED vars
  BY <1>10 DEF vars, broker, batch, Account!avars, Due
<1> QED
  BY <1>1, <1>2, <1>3, <1>4, <1>5, <1>6, <1>7, <1>8, <1>9, <1>10, ZenonT(40) DEF Next, Run, Others

\* For any tickers and limits, the trader's runs, their interruptions and the late fills
\* implement TradingAccount (AccountSpec).
THEOREM ImplementsAccount == Spec => AccountSpec
<1>1. Init => Account!Init
  BY TraderAssumption DEF Init, Account!Init, Account!Nothing, Due
<1>2. Init => TypeInv /\ ShortInv /\ KillInv /\ SizesCapped
  BY InitTypeInv, TraderAssumption DEF Init, ShortInv, OnePerTicker, NeverShort, KillInv, SizesCapped
<1> QED
  BY <1>1, <1>2, NextTypeInv, NextShortInv, NextKillInv, NextSizesCapped, NextAccount, PTL
     DEF Spec, AccountSpec, Account!Spec

=============================================================================
