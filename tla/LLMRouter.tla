------------------------------ MODULE LLMRouter ------------------------------
(***************************************************************************)
(* The LLM router (orchestration/llm_router.py): one LLMRouter shared by   *)
(* the agents' threads, with a daily budget for Kanana and one circuit     *)
(* breaker per provider.                                                   *)
(*                                                                         *)
(* The budget and each breaker have a lock of their own; a call takes them *)
(* one after the other and holds none while it waits for a provider.  The  *)
(* budget is reserved before the circuit is asked and handed back when no  *)
(* request goes out.  Both providers are external.  Modes and callers the  *)
(* router refuses raise before any state changes; the mock provider of the *)
(* tests is left out.                                                      *)
(***************************************************************************)
EXTENDS Integers

CONSTANTS
  Thread,       \* threads that share the router
  Caller,       \* callers in the cold path
  Buffer,       \* the allocation of callers that have none of their own
  NoKey,        \* no allocation at all
  Key,          \* the keys of budget_allocation
  Allocation,   \* budget_allocation
  DailyLimit,   \* kanana_daily_limit
  Overflow,     \* overflow_to is gpt-4o
  Threshold,    \* circuit_breaker.failure_threshold
  OpenDuration, \* circuit_breaker.open_duration_sec, in ticks
  MaxDay        \* bound on the days

Provider == {"kanana", "gpt"}
Day      == 1 .. MaxDay

\* An empty budget_allocation, which limits no caller, is not configured.
ASSUME ConstantsAssumption ==
  /\ Threshold \in Nat \ {0} /\ OpenDuration \in Nat \ {0}
  /\ DailyLimit \in Nat /\ MaxDay \in Nat \ {0}
  /\ Overflow \in BOOLEAN
  /\ Caller # {} /\ Key # {} /\ Key \subseteq Caller \cup {Buffer} /\ Allocation \in [Key -> Nat]
  /\ NoKey \notin Key

VARIABLES
  circ,     \* per breaker: _state
  fails,    \* per breaker: _failures, up to Threshold
  wait,     \* per breaker: what is left of the cooldown
  probing,  \* per breaker: _half_open_probe_in_flight
  counts,   \* the budget: _counts
  total,    \* the budget: _total
  resetDay, \* the budget: _reset_day
  pc,       \* per thread: where its call is
  caller,   \* per thread: the caller it reserved for
  booked,   \* history: the day of that reservation
  probe,    \* history: the thread's request was admitted as a probe
  today,    \* external: the date
  kananaSet,\* external: KANANA_API_KEY and KANANA_API_URL are set
  openaiSet,\* external: OPENAI_API_KEY is set
  spent,    \* history: reservations of each day that were not handed back
  used,     \* history: the same per key
  late      \* history: reservations of an earlier day handed back on a day

breakers == <<circ, fails, wait, probing>>
budget   == <<counts, total, resetDay>>
ledger   == <<spent, used, late>>
world    == <<today, kananaSet, openaiSet>>
vars     == <<breakers, budget, pc, caller, booked, probe, world, ledger>>

Init ==
  /\ circ = [p \in Provider |-> "closed"]
  /\ fails = [p \in Provider |-> 0]
  /\ wait = [p \in Provider |-> 0]
  /\ probing = [p \in Provider |-> FALSE]
  /\ counts = [k \in Key |-> 0] /\ total = 0 /\ resetDay = 0
  /\ pc = [t \in Thread |-> "idle"]
  /\ caller = [t \in Thread |-> CHOOSE c \in Caller : TRUE]
  /\ booked = [t \in Thread |-> 1]
  /\ probe = [t \in Thread |-> FALSE]
  /\ today = 1 /\ kananaSet \in BOOLEAN /\ openaiSet \in BOOLEAN
  /\ spent = [d \in Day |-> 0]
  /\ used = [d \in Day |-> [k \in Key |-> 0]]
  /\ late = [d \in Day |-> 0]

Goto(t, step) == pc' = [pc EXCEPT ![t] = step]

-----------------------------------------------------------------------------
(***************************************************************************)
(* _BudgetTracker, under its lock.  Every operation first resets the       *)
(* counters of a day that is over (_maybe_reset).                          *)
(***************************************************************************)
\* _quota_key_for.  (Without any allocation the code counts under the caller and
\* limits nobody: Key = Caller with allocations that cannot bind.)
QuotaKey(c) == IF c \in Key THEN c ELSE IF Buffer \in Key THEN Buffer ELSE NoKey

Counted(k) == IF resetDay = today THEN counts[k] ELSE 0
Total      == IF resetDay = today THEN total ELSE 0

CanReserveOneMore(c) ==  \* mutant: the limits are off by one
  LET k == QuotaKey(c) IN
  Total <= DailyLimit /\ k # NoKey /\ Counted(k) <= Allocation[k]

CanReserve(c) ==
  LET k == QuotaKey(c) IN
  Total < DailyLimit /\ k # NoKey /\ Counted(k) < Allocation[k]

\* One unit more or less under key k; a counter at zero stays there.
Book(k, n) ==
  /\ resetDay' = today
  /\ counts' = [j \in Key |-> IF j = k /\ Counted(j) + n >= 0 THEN Counted(j) + n ELSE Counted(j)]
  /\ total' = IF Total + n >= 0 THEN Total + n ELSE Total

\* release: the thread hands its reservation back.
Handed(t) ==
  LET k == QuotaKey(caller[t])
      d == booked[t] IN
  /\ spent' = [spent EXCEPT ![d] = @ - 1]
  /\ used' = [used EXCEPT ![d][k] = @ - 1]
  /\ late' = IF d = today THEN late ELSE [late EXCEPT ![today] = @ + 1]

Release(t) == Book(QuotaKey(caller[t]), -1)

-----------------------------------------------------------------------------
(***************************************************************************)
(* _CircuitBreaker, under its lock.                                        *)
(***************************************************************************)
RefusesCooling(p) ==  \* mutant: HALF_OPEN admits everyone
  circ[p] = "open" /\ wait[p] > 0

Refuses(p) ==
  \/ circ[p] = "open" /\ wait[p] > 0
  \/ circ[p] = "half_open" /\ probing[p]

\* can_attempt
Admit(t, p) ==
  /\ ~Refuses(p)
  /\ IF circ[p] = "closed"
     THEN UNCHANGED <<circ, probing>>
     ELSE /\ circ' = [circ EXCEPT ![p] = "half_open"]
          /\ probing' = [probing EXCEPT ![p] = TRUE]
  /\ probe' = [probe EXCEPT ![t] = circ[p] # "closed"]
  /\ UNCHANGED <<fails, wait>>

RecordSuccess(p) ==
  /\ circ' = [circ EXCEPT ![p] = "closed"]
  /\ fails' = [fails EXCEPT ![p] = 0]
  /\ wait' = [wait EXCEPT ![p] = 0]
  /\ probing' = [probing EXCEPT ![p] = FALSE]

Opens(p) ==
  /\ circ' = [circ EXCEPT ![p] = "open"]
  /\ wait' = [wait EXCEPT ![p] = OpenDuration]
  /\ probing' = [probing EXCEPT ![p] = FALSE]

\* The count only matters up to Threshold.
Counts(p) == fails' = [fails EXCEPT ![p] = IF @ < Threshold THEN @ + 1 ELSE @]

CountFailure(p) ==
  /\ Counts(p)
  /\ IF fails'[p] = Threshold THEN Opens(p) ELSE UNCHANGED <<circ, wait, probing>>

RecordFailureForgiven(p) ==  \* mutant: a failed probe does not open the circuit
  IF circ[p] = "half_open"
  THEN fails' = [fails EXCEPT ![p] = 0] /\ UNCHANGED <<circ, wait, probing>>
  ELSE CountFailure(p)

\* A failure in HALF_OPEN opens the circuit at once and starts a new count.
RecordFailure(p) ==
  IF circ[p] = "half_open"
  THEN Opens(p) /\ fails' = [fails EXCEPT ![p] = 0]
  ELSE CountFailure(p)

-----------------------------------------------------------------------------
(***************************************************************************)
(* call(), mode "cold": reserve, ask the Kanana circuit, call Kanana; then *)
(* GPT-4o if that was not possible and overflow is on.                     *)
(***************************************************************************)
Overflows == IF Overflow THEN "fallback" ELSE "idle"

Reserve(t, c) ==
  /\ pc[t] = "idle" /\ CanReserve(c)
  /\ Book(QuotaKey(c), 1)
  /\ caller' = [caller EXCEPT ![t] = c]
  /\ booked' = [booked EXCEPT ![t] = today]
  /\ spent' = [spent EXCEPT ![today] = @ + 1]
  /\ used' = [used EXCEPT ![today][QuotaKey(c)] = @ + 1]
  /\ Goto(t, "reserved")
  /\ UNCHANGED <<breakers, probe, world, late>>

\* An exhausted budget falls back; a caller without a key does not.
Denied(t, c) ==
  /\ pc[t] = "idle" /\ ~CanReserve(c)
  /\ Book(NoKey, 0)
  /\ Goto(t, IF QuotaKey(c) = NoKey /\ Total < DailyLimit THEN "idle" ELSE Overflows)
  /\ UNCHANGED <<breakers, caller, booked, probe, world, ledger>>

KananaAdmitted(t) ==
  /\ pc[t] = "reserved" /\ Admit(t, "kanana")
  /\ Goto(t, "kanana")
  /\ UNCHANGED <<budget, caller, booked, world, ledger>>

KananaRefused(t) ==
  /\ pc[t] = "reserved" /\ Refuses("kanana")
  /\ Goto(t, "refund")
  /\ UNCHANGED <<breakers, budget, caller, booked, probe, world, ledger>>

RefundForgotten(t) ==  \* mutant: the reservation is kept
  /\ pc[t] = "refund"
  /\ Handed(t)
  /\ Goto(t, Overflows)
  /\ UNCHANGED <<breakers, budget, caller, booked, probe, world>>

\* The circuit refused: the budget is handed back.
Refund(t) ==
  /\ pc[t] = "refund"
  /\ Release(t) /\ Handed(t)
  /\ Goto(t, Overflows)
  /\ UNCHANGED <<breakers, caller, booked, probe, world>>

\* Key or URL missing: no request goes out, yet it counts as a failure.
KananaUnset(t) ==
  /\ pc[t] = "kanana" /\ ~kananaSet
  /\ Release(t) /\ Handed(t)
  /\ Goto(t, "unset")
  /\ UNCHANGED <<breakers, caller, booked, probe, world>>

Settles(t) == probe' = [probe EXCEPT ![t] = FALSE]

KananaAnswers(t) ==
  /\ pc[t] = "kanana" /\ kananaSet
  /\ RecordSuccess("kanana") /\ Settles(t)
  /\ Goto(t, "idle")
  /\ UNCHANGED <<budget, caller, booked, world, ledger>>

KananaFails(t) ==
  /\ pc[t] = "unset" \/ (pc[t] = "kanana" /\ kananaSet)
  /\ RecordFailure("kanana") /\ Settles(t)
  /\ Goto(t, Overflows)
  /\ UNCHANGED <<budget, caller, booked, world, ledger>>

(***************************************************************************)
(* _call_gpt4o: the fallback, and all that mode "mode_b" does.             *)
(***************************************************************************)
ModeBCall(t) ==
  /\ pc[t] = "idle"
  /\ Goto(t, "fallback")
  /\ UNCHANGED <<breakers, budget, caller, booked, probe, world, ledger>>

GptRefused(t) ==
  /\ pc[t] = "fallback" /\ (~openaiSet \/ Refuses("gpt"))
  /\ Goto(t, "idle")
  /\ UNCHANGED <<breakers, budget, caller, booked, probe, world, ledger>>

GptAdmitted(t) ==
  /\ pc[t] = "fallback" /\ openaiSet /\ Admit(t, "gpt")
  /\ Goto(t, "gpt")
  /\ UNCHANGED <<budget, caller, booked, world, ledger>>

GptSettles(t) ==
  /\ pc[t] = "gpt"
  /\ RecordSuccess("gpt") \/ RecordFailure("gpt")
  /\ Settles(t)
  /\ Goto(t, "idle")
  /\ UNCHANGED <<budget, caller, booked, world, ledger>>

-----------------------------------------------------------------------------
Tick(p) ==
  /\ circ[p] = "open" /\ wait[p] > 0
  /\ wait' = [wait EXCEPT ![p] = @ - 1]
  /\ UNCHANGED <<circ, fails, probing, budget, pc, caller, booked, probe, world, ledger>>

Midnight ==
  /\ today < MaxDay
  /\ today' = today + 1
  /\ UNCHANGED <<breakers, budget, pc, caller, booked, probe, kananaSet, openaiSet, ledger>>

Step(t) ==
  \/ KananaAdmitted(t) \/ KananaRefused(t) \/ Refund(t)
  \/ KananaUnset(t) \/ KananaAnswers(t) \/ KananaFails(t)
  \/ GptRefused(t) \/ GptAdmitted(t) \/ GptSettles(t)

Next ==
  \/ \E t \in Thread, c \in Caller : Reserve(t, c) \/ Denied(t, c)
  \/ \E t \in Thread : ModeBCall(t) \/ Step(t)
  \/ \E p \in Provider : Tick(p)
  \/ Midnight

Spec == Init /\ [][Next]_vars

-----------------------------------------------------------------------------
(***************************************************************************)
(* Properties.                                                             *)
(***************************************************************************)
Steps == {"idle", "reserved", "refund", "kanana", "unset", "fallback", "gpt"}

\* Every variable keeps its type.
TypeOK ==
  /\ circ \in [Provider -> {"closed", "open", "half_open"}]
  /\ fails \in [Provider -> 0 .. Threshold] /\ wait \in [Provider -> 0 .. OpenDuration]
  /\ probing \in [Provider -> BOOLEAN]
  /\ counts \in [Key -> Nat] /\ total \in Nat /\ resetDay \in 0 .. MaxDay
  /\ pc \in [Thread -> Steps] /\ caller \in [Thread -> Caller]
  /\ booked \in [Thread -> Day] /\ probe \in [Thread -> BOOLEAN]
  /\ today \in Day /\ kananaSet \in BOOLEAN /\ openaiSet \in BOOLEAN
  /\ spent \in [Day -> Int] /\ used \in [Day -> [Key -> Int]] /\ late \in [Day -> Nat]

InFlight(p) == {t \in Thread : pc[t] \in IF p = "kanana" THEN {"kanana", "unset"} ELSE {"gpt"}}

Mode(p)    == IF circ[p] = "half_open" THEN "probing" ELSE circ[p]
Cooling(p) == circ[p] = "open" /\ wait[p] > 0

\* A half-open circuit is waiting for a request that was admitted as its probe
\* and has not settled, whatever late requests do: no thread can leave it half
\* open for ever and lock everyone out.
ProbeHeld ==
  \A p \in Provider : circ[p] = "half_open" =>
    probing[p] /\ \E t \in InFlight(p) : probe[t]

\* On no day do more reservations stand than the daily limit, nor more under a
\* key than its allocation, except for those that were handed back only after
\* a midnight and so lowered the counter of the wrong day.
BudgetKept ==
  \A d \in Day : /\ spent[d] <= DailyLimit + late[d]
                 /\ \A k \in Key : used[d][k] <= Allocation[k] + late[d]

\* Nothing leaks: the counters of the day never exceed the reservations that
\* stand, so a call that was not made costs no budget.
NothingLeaks ==
  resetDay = today => total <= spent[today] /\ \A k \in Key : counts[k] <= used[today][k]

\* The Kanana breaker keeps the contract of CircuitBreaker, the breaker of the
\* broker connection too: one probe after a cooldown, and nobody beside it.
KananaBreaker == INSTANCE CircuitBreaker WITH
  Caller   <- Thread,
  mode     <- Mode("kanana"),
  cooling  <- Cooling("kanana"),
  inflight <- InFlight("kanana")

KananaSpec == KananaBreaker!Spec

\* The GPT-4o breaker keeps it as well, with fallbacks and Mode B calls mixed.
GptBreaker == INSTANCE CircuitBreaker WITH
  Caller   <- Thread,
  mode     <- Mode("gpt"),
  cooling  <- Cooling("gpt"),
  inflight <- InFlight("gpt")

GptSpec == GptBreaker!Spec
=============================================================================
