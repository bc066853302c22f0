---------------------------- MODULE TradingAccount ----------------------------
(***************************************************************************)
(* What the account a paper trader works on may see of it, whatever runs   *)
(* are interrupted, answers lost or fills late (execution/                 *)
(* paper_auto_trading.py, execution/execution_gateway.py):                 *)
(* PaperAutoTrader implements it.                                          *)
(*                                                                         *)
(* Orders come out of one approved batch at a time.  While the kill switch *)
(* is on no batch is approved; a batch names MaxOrders tickers at most,    *)
(* each good for one order; and a sell is covered by shares that no other  *)
(* sell has a claim on at the moment it is sent.                           *)
(***************************************************************************)
EXTENDS Integers, FiniteSets

CONSTANTS Ticker, MaxOrders, MaxQty

VARIABLES
  account,  \* shares per ticker
  open,     \* shares of orders not filled yet, per ticker and side
  killed,   \* the kill switch is on
  due       \* tickers of the approved batch that have still to be ordered

avars == <<account, open, killed, due>>

Nothing == [buy |-> 0, sell |-> 0]

Init ==
  /\ account \in [Ticker -> Nat]
  /\ open = [t \in Ticker |-> Nothing]
  /\ killed = FALSE /\ due = {}

Approve(tickers) ==
  /\ ~killed /\ due = {}
  /\ Cardinality(tickers) <= MaxOrders
  /\ due' = tickers
  /\ UNCHANGED <<account, open, killed>>

Sellable(t) == account[t] - open[t].sell

Submit(t, side, qty) ==
  /\ t \in due
  /\ side = "sell" => qty <= Sellable(t)
  /\ due' = due \ {t}
  /\ open' = [open EXCEPT ![t][side] = @ + qty]
  /\ UNCHANGED <<account, killed>>

\* An order is refused, or the run ends before the batch is out.
Withdraw(some) ==
  /\ due' = due \ some
  /\ UNCHANGED <<account, open, killed>>

Fill(t, side) ==
  /\ open[t][side] > 0
  /\ open' = [open EXCEPT ![t][side] = @ - 1]
  /\ account' = [account EXCEPT ![t] = IF side = "buy" THEN @ + 1 ELSE @ - 1]
  /\ UNCHANGED <<killed, due>>

\* The market closes between two batches.
Lapse(t) ==
  /\ due = {}
  /\ open' = [open EXCEPT ![t] = Nothing]
  /\ UNCHANGED <<account, killed, due>>

Switch ==
  /\ killed' = ~killed
  /\ UNCHANGED <<account, open, due>>

Next ==
  \/ \E tickers \in SUBSET Ticker : Approve(tickers) \/ Withdraw(tickers)
  \/ \E t \in Ticker, side \in {"buy", "sell"} :
       Fill(t, side) \/ \E qty \in 1 .. MaxQty : Submit(t, side, qty)
  \/ (\E t \in Ticker : Lapse(t))
  \/ Switch

Spec == Init /\ [][Next]_avars
=============================================================================
