--------------------------- MODULE PaperAutoTrader ---------------------------
(***************************************************************************)
(* One paper auto-trading process after the other on one broker account:   *)
(* PaperAutoTrader.run and run_once (execution/paper_auto_trading.py) with *)
(* ExecutionGateway.execute (execution/execution_gateway.py) and the kill  *)
(* switch (execution/kill_switch.py).                                      *)
(*                                                                         *)
(* A cycle reads the balance, decides on it, and sends its orders one by   *)
(* one; limit orders fill whenever the market likes, so that what a cycle  *)
(* has read may be old when it acts.  The tables of the runtime policy     *)
(* (cooldown, holding time) live in the process only.                      *)
(***************************************************************************)
EXTENDS Integers, FiniteSets

CONSTANTS
  Ticker,
  MaxCycles,      \* cycles of one run
  Cooldown,       \* rebalance_cooldown_bars, in cycles
  MinHolding,     \* min_holding_bars
  MaxOrders,      \* max_orders_per_cycle
  MaxQty,         \* max_order_qty_per_order
  MaxReadErrors,  \* max_consecutive_read_error_skips
  Wanted,         \* bound on the quantity of an order the planner may ask for
  Limit           \* bound on the shares of a ticker the broker lets the account reach

ASSUME TraderAssumption ==
  /\ IsFiniteSet(Ticker)
  /\ MaxCycles \in Nat \ {0} /\ Cooldown \in Nat /\ MinHolding \in Nat
  /\ MaxOrders \in Nat \ {0} /\ MaxQty \in Nat \ {0} /\ MaxReadErrors \in Nat
  /\ Wanted \in Nat /\ Limit \in Nat

Cycle == 0 .. MaxCycles - 1
Never == -1

\* "reduce": a sell with the reason "risk_reduce".
Ask   == [kind: {"buy", "sell", "reduce"}, qty: 1 .. Wanted]
Order == [ticker: Ticker, kind: {"buy", "sell", "reduce"}, qty: 1 .. Wanted]

Side(o) == IF o.kind = "buy" THEN "buy" ELSE "sell"

VARIABLES
  account,       \* shares per ticker, at the broker
  open,          \* shares of orders that are not filled yet, per ticker and side
  phase,         \* where the run is; "off": no process
  cycle,         \* cycle_index
  errors,        \* _consecutive_read_errors
  seen,          \* the balance this cycle has read: shares, and those that may be sold
  lastOrder,     \* _last_order_cycle_by_ticker
  holdingSince,  \* _holding_since_cycle_by_ticker
  plan,          \* order_deltas after policy, caps and guard
  left,          \* those the gateway has still to send
  rejected,      \* the gateway has a rejection to report
  result,        \* how the last run ended
  killed,        \* KillSwitch._active
  sentAt,        \* history: last cycle of this run with an order the broker took
  boughtAt,      \* the same, buys only
  readAt,        \* history: last cycle of this run whose balance was read
  unverified,    \* history: tickers with an order of this run not found in the order history
  sinceKill      \* history: orders the broker took since the switch was triggered

broker   == <<account, open>>
tables   == <<lastOrder, holdingSince>>
batch    == <<plan, left, rejected>>
history  == <<sentAt, boughtAt, unverified>>
vars     == <<broker, phase, cycle, errors, seen, tables, batch, result, killed, history, readAt,
              sinceKill>>

NothingSeen == [t \in Ticker |-> [qty |-> 0, sellable |-> 0]]
NeverYet    == [t \in Ticker |-> Never]

Init ==
  /\ account \in [Ticker -> 0 .. Limit]
  /\ open = [t \in Ticker |-> [buy |-> 0, sell |-> 0]]
  /\ phase = "off" /\ cycle = 0 /\ errors = 0 /\ seen = NothingSeen
  /\ lastOrder = NeverYet /\ holdingSince = NeverYet
  /\ plan = {} /\ left = {} /\ rejected = FALSE
  /\ result = "none" /\ killed = FALSE
  /\ sentAt = NeverYet /\ boughtAt = NeverYet /\ readAt = Never
  /\ unverified = {} /\ sinceKill = 0

-----------------------------------------------------------------------------
(***************************************************************************)
(* The run.  A cycle that fails ends it; a skipped one does not.           *)
(***************************************************************************)
\* A new process has passed the start guards.  The account is what it was.
Start ==
  /\ phase = "off"
  /\ phase' = "read" /\ cycle' = 0 /\ errors' = 0 /\ seen' = NothingSeen
  /\ lastOrder' = NeverYet /\ holdingSince' = NeverYet
  /\ plan' = {} /\ left' = {} /\ rejected' = FALSE /\ result' = "running"
  /\ sentAt' = NeverYet /\ boughtAt' = NeverYet /\ readAt' = Never /\ unverified' = {}
  /\ UNCHANGED <<broker, killed, sinceKill>>

End(res) ==
  /\ phase' = "off" /\ result' = res
  /\ UNCHANGED cycle

NextCycle ==
  IF cycle = MaxCycles - 1
    THEN End("PASS")
    ELSE phase' = "read" /\ cycle' = cycle + 1 /\ UNCHANGED result

\* run_once finds the market closed and leaves the loop: nothing to report.
MarketCloses ==
  /\ phase = "read"
  /\ End("PASS")
  /\ UNCHANGED <<broker, errors, seen, tables, batch, killed, history, readAt, sinceKill>>

NeverGivesUp ==  \* mutant: the limit of consecutive read errors is not applied
  /\ phase = "read"
  /\ errors' = errors + 1
  /\ NextCycle
  /\ UNCHANGED <<broker, seen, tables, batch, killed, history, readAt, sinceKill>>

\* A transient error of the balance or of the bars.
ReadFails ==
  /\ phase = "read"
  /\ errors' = errors + 1
  /\ IF errors + 1 > MaxReadErrors THEN End("FAIL") ELSE NextCycle
  /\ UNCHANGED <<broker, seen, tables, batch, killed, history, readAt, sinceKill>>

\* Any other exception, or a guard of the cycle, before the orders are sent.
CycleFails ==
  /\ phase \in {"read", "decide", "gate"}
  /\ End("FAIL")
  /\ UNCHANGED <<broker, errors, seen, tables, batch, killed, history, readAt, sinceKill>>

BalanceWithoutReserve ==  \* mutant: shares under a sell order count as available
  [t \in Ticker |-> [qty |-> account[t], sellable |-> account[t]]]

\* qty and available_qty of a position.
Balance == [t \in Ticker |-> [qty |-> account[t], sellable |-> account[t] - open[t].sell]]

SyncedKeepingOld(positions) ==  \* mutant: tickers that left the balance are not forgotten
  [t \in Ticker |-> IF positions[t].qty # 0 /\ holdingSince[t] = Never THEN cycle
                    ELSE holdingSince[t]]

\* _sync_runtime_position_state.
Synced(positions) ==
  [t \in Ticker |-> IF positions[t].qty = 0 THEN Never
                    ELSE IF holdingSince[t] = Never THEN cycle ELSE holdingSince[t]]

Read ==
  /\ phase = "read"
  /\ phase' = "decide"
  /\ seen' = Balance
  /\ errors' = 0
  /\ holdingSince' = Synced(Balance)
  /\ readAt' = cycle
  /\ UNCHANGED <<broker, cycle, lastOrder, batch, result, killed, history, sinceKill>>

-----------------------------------------------------------------------------
(***************************************************************************)
(* The decision.  PortfolioManager.plan makes at most one order per        *)
(* ticker and caps a sell at what the balance lets it sell; a reduction    *)
(* for risk is a sell.                                                     *)
(***************************************************************************)
Planned(ask) ==
  \A t \in DOMAIN ask : ask[t].kind # "buy" => ask[t].qty <= seen[t].sellable

Orders(ask) == {[ticker |-> t, kind |-> ask[t].kind, qty |-> ask[t].qty] : t \in DOMAIN ask}

Cooling(t)  == lastOrder[t] # Never /\ cycle - lastOrder[t] < Cooldown
Since(t)    == IF holdingSince[t] = Never THEN cycle ELSE holdingSince[t]
TooYoung(t) == cycle - Since(t) < MinHolding

\* _apply_runtime_service_policy
Permitted(o) ==
  LET t == o.ticker  held == seen[o.ticker].qty IN
  IF o.kind = "reduce"
    THEN o.qty <= held
    ELSE /\ ~Cooling(t)
         /\ o.kind = "sell" /\ held > 0 => ~TooYoung(t)
         /\ o.kind = "buy" => held = 0

\* _cap_order_count keeps the heaviest orders; which, the model leaves open.
Kept(orders, kept) ==
  /\ kept \subseteq orders
  /\ IF Cardinality(orders) <= MaxOrders THEN kept = orders ELSE Cardinality(kept) = MaxOrders

\* _cap_order_quantities
Capped(o) == [o EXCEPT !.qty = IF o.qty > MaxQty THEN MaxQty ELSE o.qty]

\* The order guard passes what is left; nothing left is a skip.
Decide(ask) ==
  /\ phase = "decide"
  /\ Planned(ask)
  /\ \E kept \in SUBSET Orders(ask) :
       /\ Kept({o \in Orders(ask) : Permitted(o)}, kept)
       /\ plan' = {Capped(o) : o \in kept}
       /\ left' = plan'
       /\ IF kept = {} THEN NextCycle ELSE phase' = "gate" /\ UNCHANGED <<cycle, result>>
  /\ rejected' = FALSE
  /\ seen' = NothingSeen
  /\ UNCHANGED <<broker, errors, tables, killed, history, readAt, sinceKill>>

-----------------------------------------------------------------------------
(***************************************************************************)
(* The gateway looks at the kill switch once, then sends every order,      *)
(* whatever became of those before.                                        *)
(***************************************************************************)
PassUnchecked ==  \* mutant: the kill switch is not looked at
  /\ phase = "gate"
  /\ phase' = "send"
  /\ UNCHANGED <<broker, cycle, errors, seen, tables, batch, result, killed, history, readAt,
                 sinceKill>>

GatePasses ==
  /\ phase = "gate" /\ ~killed
  /\ phase' = "send"
  /\ UNCHANGED <<broker, cycle, errors, seen, tables, batch, result, killed, history, readAt,
                 sinceKill>>

\* The whole decision is rejected, and the cycle with it.
GateRefuses ==
  /\ phase = "gate" /\ killed
  /\ End("FAIL")
  /\ UNCHANGED <<broker, errors, seen, tables, batch, killed, history, readAt, sinceKill>>

\* The broker has the order.  Its answer may be lost: then the gateway reports
\* a rejection (broker_submit_exception).
Sends(o, answered) ==
  LET t == o.ticker IN
  /\ phase = "send" /\ o \in left
  /\ o.kind = "buy" => account[t] + open[t].buy + o.qty <= Limit
  /\ left' = left \ {o}
  /\ open' = [open EXCEPT ![t][Side(o)] = @ + o.qty]
  /\ rejected' = (rejected \/ ~answered)
  /\ sentAt' = [sentAt EXCEPT ![t] = cycle]
  /\ boughtAt' = IF o.kind = "buy" THEN [boughtAt EXCEPT ![t] = cycle] ELSE boughtAt
  /\ unverified' = unverified \cup {t}
  /\ sinceKill' = IF killed THEN sinceKill + 1 ELSE sinceKill
  /\ UNCHANGED <<account, phase, cycle, errors, seen, tables, plan, result, killed, readAt>>

\* The broker refuses the order, or never hears of it.
Rejects(o) ==
  /\ phase = "send" /\ o \in left
  /\ left' = left \ {o}
  /\ rejected' = TRUE
  /\ UNCHANGED <<broker, phase, cycle, errors, seen, tables, plan, result, killed, history, readAt,
                 sinceKill>>

RecordedBuysOnly(f, orders) ==  \* mutant: a sell starts no cooldown
  [t \in Ticker |-> IF \E o \in orders : o.ticker = t /\ o.kind = "buy" THEN cycle ELSE f[t]]

\* _record_runtime_policy_submitted_orders
Recorded(f, orders) == [t \in Ticker |-> IF \E o \in orders : o.ticker = t THEN cycle ELSE f[t]]
RecordedBuys(f, orders) ==
  [t \in Ticker |-> IF f[t] = Never /\ \E o \in orders : o.ticker = t /\ o.kind = "buy"
                    THEN cycle ELSE f[t]]

PassesAnyway ==  \* mutant: rejections do not fail the cycle
  /\ phase = "send" /\ left = {}
  /\ lastOrder' = IF rejected THEN lastOrder ELSE Recorded(lastOrder, plan)
  /\ holdingSince' = IF rejected THEN holdingSince ELSE RecordedBuys(holdingSince, plan)
  /\ unverified' = IF rejected THEN unverified ELSE {}
  /\ NextCycle
  /\ UNCHANGED <<broker, errors, seen, batch, killed, sentAt, boughtAt, readAt, sinceKill>>

\* No rejection, and the history of every order is found.
Verified ==
  /\ phase = "send" /\ left = {} /\ ~rejected
  /\ lastOrder' = Recorded(lastOrder, plan)
  /\ holdingSince' = RecordedBuys(holdingSince, plan)
  /\ unverified' = {}
  /\ NextCycle
  /\ UNCHANGED <<broker, errors, seen, batch, killed, sentAt, boughtAt, readAt, sinceKill>>

\* A rejection, or an order the history does not show (or cannot be asked for).
NotVerified ==
  /\ phase = "send" /\ left = {}
  /\ lastOrder' = IF rejected THEN lastOrder ELSE Recorded(lastOrder, plan)
  /\ holdingSince' = IF rejected THEN holdingSince ELSE RecordedBuys(holdingSince, plan)
  /\ End("FAIL")
  /\ UNCHANGED <<broker, errors, seen, batch, killed, history, readAt, sinceKill>>

\* Ctrl-C anywhere in the loop: run catches it and reports a safe skip.
Interrupt ==
  /\ phase # "off"
  /\ End("interrupted")
  /\ UNCHANGED <<broker, errors, seen, tables, batch, killed, history, readAt, sinceKill>>

Crash ==
  /\ phase # "off"
  /\ End("none")
  /\ UNCHANGED <<broker, errors, seen, tables, batch, killed, history, readAt, sinceKill>>

-----------------------------------------------------------------------------
(***************************************************************************)
(* The market and the operator.                                            *)
(***************************************************************************)
Fills(t, side) ==
  /\ open[t][side] > 0
  /\ open' = [open EXCEPT ![t][side] = @ - 1]
  /\ account' = [account EXCEPT ![t] = IF side = "buy" THEN @ + 1 ELSE @ - 1]
  /\ UNCHANGED <<phase, cycle, errors, seen, tables, batch, result, killed, history, readAt,
                 sinceKill>>

\* What is not filled when the market closes is cancelled.
Lapses(t) ==
  /\ phase = "off" /\ open[t] # [buy |-> 0, sell |-> 0]
  /\ open' = [open EXCEPT ![t] = [buy |-> 0, sell |-> 0]]
  /\ UNCHANGED <<account, phase, cycle, errors, seen, tables, batch, result, killed, history,
                 readAt, sinceKill>>

\* trigger and reset (by the operator) may come at any time.
Switch ==
  /\ killed' = ~killed
  /\ sinceKill' = 0
  /\ UNCHANGED <<broker, phase, cycle, errors, seen, tables, batch, result, history, readAt>>

-----------------------------------------------------------------------------
Run == Start \/ MarketCloses \/ ReadFails \/ CycleFails \/ Read
       \/ (\E tickers \in SUBSET Ticker : \E ask \in [tickers -> Ask] : Decide(ask))
       \/ GatePasses \/ GateRefuses
       \/ (\E o \in Order, answered \in BOOLEAN : Sends(o, answered))
       \/ (\E o \in Order : Rejects(o))
       \/ Verified \/ NotVerified

Others == Interrupt \/ Crash \/ Switch
          \/ \E t \in Ticker : Lapses(t) \/ \E side \in {"buy", "sell"} : Fills(t, side)

Next == Run \/ Others

Spec == Init /\ [][Next]_vars

-----------------------------------------------------------------------------
(***************************************************************************)
(* The account as its owner sees it: what the gateway has let pass and not *)
(* sent yet is the batch that is due.                                      *)
(***************************************************************************)
Due == IF phase = "send" THEN {o.ticker : o \in left} ELSE {}

Account == INSTANCE TradingAccount WITH due <- Due

\* The trader implements TradingAccount: approval only while the switch is off,
\* MaxOrders orders of MaxQty shares a batch, one for each ticker, and no sell of
\* shares that are not held or already under a sell order, although it decides on
\* a balance read earlier and fills, interruptions and lost answers come between.
AccountSpec == Account!Spec

-----------------------------------------------------------------------------
(***************************************************************************)
(* Properties.                                                             *)
(***************************************************************************)
CycleOrNever == Cycle \cup {Never}

\* Every variable keeps its type.
TypeOK ==
  /\ account \in [Ticker -> Int]
  /\ open \in [Ticker -> [buy: Nat, sell: Nat]]
  /\ phase \in {"off", "read", "decide", "gate", "send"}
  /\ cycle \in Cycle /\ errors \in 0 .. MaxReadErrors + 1
  /\ seen \in [Ticker -> [qty: Int, sellable: Int]]
  /\ lastOrder \in [Ticker -> CycleOrNever] /\ holdingSince \in [Ticker -> CycleOrNever]
  /\ plan \subseteq Order /\ left \subseteq plan /\ rejected \in BOOLEAN
  /\ result \in {"none", "running", "PASS", "FAIL", "interrupted"}
  /\ killed \in BOOLEAN
  /\ sentAt \in [Ticker -> CycleOrNever] /\ boughtAt \in [Ticker -> CycleOrNever]
  /\ readAt \in CycleOrNever
  /\ unverified \subseteq Ticker /\ sinceKill \in Nat

\* The step hands order o to the broker.
Submits(o) == o \in left /\ left' = left \ {o} /\ sentAt'[o.ticker] = cycle /\ open' # open

\* Within a run, Cooldown cycles lie between an order of a ticker and the next
\* one that is not a reduction for risk, whatever was filled, lost or skipped in
\* between (_apply_runtime_service_policy knows of submitted orders only).
CooldownKept ==
  [][\A o \in Order : Submits(o) /\ o.kind # "reduce" /\ sentAt[o.ticker] # Never
       => cycle - sentAt[o.ticker] >= Cooldown]_vars

\* Within a run, a ticker is not sold (but for risk) before MinHolding cycles
\* have passed since its last buy, however late the fill shows in a balance.
MinHoldingKept ==
  [][\A o \in Order : Submits(o) /\ o.kind = "sell" /\ boughtAt[o.ticker] # Never
       => cycle - boughtAt[o.ticker] >= MinHolding]_vars

\* The sell orders out never exceed the shares held, although they are planned
\* on a balance that may be old and may be left over from an earlier run.
NeverShort == \A t \in Ticker : open[t].sell <= account[t]

\* A run goes on only if one of its last MaxReadErrors + 1 reads succeeded: the
\* count is kept across cycles, and reset by a good read alone.
SkipsBounded == phase = "read" => cycle - readAt <= MaxReadErrors + 1

\* A run that ends PASS by itself has found every order the broker took from it
\* in the order history; a lost answer or a rejection makes it FAIL.
PassMeansVerified == result = "PASS" => unverified = {}

\* A triggered switch lets out at most the orders of the one decision that had
\* already passed the gateway's check.
KillStopsNext == sinceKill <= MaxOrders

\* An interrupted cycle has submitted nothing (broker_order_submitted False in
\* _interrupted_cycle_report and in its test).
InterruptSubmittedNothing == result = "interrupted" => unverified = {}
=============================================================================
