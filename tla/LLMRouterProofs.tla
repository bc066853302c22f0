--------------------------- MODULE LLMRouterProofs ---------------------------
(***************************************************************************)
(* Proofs about LLMRouter, for any number of threads, callers and days and *)
(* any limits: its types, that no breaker is left waiting for a probe that *)
(* is gone, that both implement CircuitBreaker, and that the daily budget  *)
(* is kept and nothing of it leaks.                                        *)
(***************************************************************************)
EXTENDS LLMRouter, FiniteSetTheorems, TLAPS

Breakers ==
  /\ circ \in [Provider -> {"closed", "open", "half_open"}]
  /\ fails \in [Provider -> 0 .. Threshold] /\ wait \in [Provider -> 0 .. OpenDuration]
  /\ probing \in [Provider -> BOOLEAN]

Budget ==
  /\ counts \in [Key -> Nat] /\ total \in Nat /\ resetDay \in 0 .. MaxDay
  /\ today \in Day /\ kananaSet \in BOOLEAN /\ openaiSet \in BOOLEAN
  /\ spent \in [Day -> Int] /\ used \in [Day -> [Key -> Int]] /\ late \in [Day -> Nat]

Calls ==
  /\ pc \in [Thread -> Steps] /\ caller \in [Thread -> Caller]
  /\ booked \in [Thread -> Day] /\ probe \in [Thread -> BOOLEAN]

(***************************************************************************)
(* The operations of a breaker.                                            *)
(***************************************************************************)

\* An admission closes nothing and books the probe.
LEMMA AdmitBreakers ==
  ASSUME Breakers, Calls, NEW t \in Thread, NEW p \in Provider, Admit(t, p)
  PROVE  Breakers' /\ probe' \in [Thread -> BOOLEAN]
<1>1. probe' \in [Thread -> BOOLEAN]
  BY Zenon DEF Admit, Calls
<1>2. fails' = fails /\ wait' = wait
  BY Zenon DEF Admit
<1>3. CASE circ[p] = "closed"
  BY <1>1, <1>2, <1>3, Zenon DEF Admit, Breakers
<1>4. CASE circ[p] # "closed"
  <2>1. circ' = [circ EXCEPT ![p] = "half_open"] /\ probing' = [probing EXCEPT ![p] = TRUE]
    BY <1>4, Zenon DEF Admit
  <2> QED
    BY <1>1, <1>2, <2>1 DEF Breakers
<1> QED
  BY <1>3, <1>4

\* A recorded success keeps the types of the breaker.
LEMMA SuccessBreakers ==
  ASSUME Breakers, NEW p \in Provider, RecordSuccess(p)
  PROVE  Breakers'
BY ConstantsAssumption DEF Breakers, RecordSuccess

\* A recorded failure keeps them too, and it opens a half-open circuit; any
\* other circuit it opens or leaves as it is.
LEMMA FailureBreakers ==
  ASSUME Breakers, NEW p \in Provider, RecordFailure(p)
  PROVE  /\ Breakers'
         /\ \/ Opens(p)
            \/ circ[p] # "half_open" /\ UNCHANGED <<circ, wait, probing>>
<1> USE ConstantsAssumption
<1>1. ASSUME Opens(p)
      PROVE  /\ circ' \in [Provider -> {"closed", "open", "half_open"}]
             /\ wait' \in [Provider -> 0 .. OpenDuration] /\ probing' \in [Provider -> BOOLEAN]
  BY <1>1 DEF Opens, Breakers
<1>2. CASE circ[p] = "half_open"
  <2>1. Opens(p) /\ fails' = [fails EXCEPT ![p] = 0]
    BY <1>2, Zenon DEF RecordFailure
  <2>2. fails' \in [Provider -> 0 .. Threshold]
    BY <2>1 DEF Breakers
  <2> QED
    BY <1>1, <2>1, <2>2 DEF Breakers
<1>3. CASE circ[p] # "half_open"
  <2>1. CountFailure(p)
    BY <1>3, Zenon DEF RecordFailure
  <2>2. fails' \in [Provider -> 0 .. Threshold]
    BY <2>1 DEF CountFailure, Counts, Breakers
  <2>3. Opens(p) \/ UNCHANGED <<circ, wait, probing>>
    BY <2>1, Zenon DEF CountFailure
  <2> QED
    BY <1>1, <1>3, <2>2, <2>3 DEF Breakers
<1> QED
  BY <1>2, <1>3

(***************************************************************************)
(* The operations of the budget.                                           *)
(***************************************************************************)

\* Booking keeps the counters natural numbers.
LEMMA BookTypes ==
  ASSUME Budget, NEW k, NEW n \in {-1, 0, 1}, Book(k, n)
  PROVE  counts' \in [Key -> Nat] /\ total' \in Nat /\ resetDay' \in 0 .. MaxDay
<1>1. Total \in Nat /\ \A j \in Key : Counted(j) \in Nat
  BY DEF Budget, Total, Counted
<1>2. total' \in Nat
  BY <1>1 DEF Book
<1>3. counts' \in [Key -> Nat]
  BY <1>1 DEF Book
<1>4. resetDay' \in 0 .. MaxDay
  BY ConstantsAssumption DEF Book, Budget, Day
<1> QED
  BY <1>2, <1>3, <1>4

\* One more or less under any key keeps a ledger of integers one.
LEMMA ShiftTypes ==
  ASSUME NEW f \in [Key -> Int], NEW k
  PROVE  [f EXCEPT ![k] = @ + 1] \in [Key -> Int] /\ [f EXCEPT ![k] = @ - 1] \in [Key -> Int]
<1>1. CASE k \in Key
  BY <1>1
<1>2. CASE k \notin Key
  <2>1. ASSUME NEW v PROVE [f EXCEPT ![k] = v] = f
    BY <1>2
  <2> QED
    BY <2>1
<1> QED
  BY <1>1, <1>2

\* Handing a reservation back keeps the types of the ledger.
LEMMA HandedTypes ==
  ASSUME Budget, Calls, NEW t \in Thread, Handed(t)
  PROVE  spent' \in [Day -> Int] /\ used' \in [Day -> [Key -> Int]] /\ late' \in [Day -> Nat]
<1>1. booked[t] \in Day
  BY DEF Calls
<1>2. spent' \in [Day -> Int]
  BY <1>1 DEF Handed, Budget
<1> DEFINE d == booked[t]
           k == QuotaKey(caller[t])
<1>3. d \in Day /\ used' = [used EXCEPT ![d][k] = @ - 1]
  BY <1>1 DEF Handed
<1> HIDE DEF d, k
<1>4. used' \in [Day -> [Key -> Int]]
  <2>1. used[d] \in [Key -> Int]
    BY <1>3 DEF Budget
  <2>2. [used[d] EXCEPT ![k] = @ - 1] \in [Key -> Int]
    BY <2>1, ShiftTypes
  <2> QED
    BY <1>3, <2>2 DEF Budget
<1>5. late' \in [Day -> Nat]
  BY DEF Handed, Budget
<1> QED
  BY <1>2, <1>4, <1>5

CircuitInv == Breakers /\ Budget /\ Calls /\ ProbeHeld

\* The initial states have their types and closed circuits.
LEMMA InitCircuitInv == Init => CircuitInv
<1> USE ConstantsAssumption
<1> SUFFICES ASSUME Init PROVE CircuitInv
  OBVIOUS
<1>1. Breakers
  BY DEF Init, Breakers
<1>2. Budget
  BY DEF Init, Budget, Day
<1>3. Calls
  <2>1. (CHOOSE c \in Caller : TRUE) \in Caller
    OBVIOUS
  <2>2. caller \in [Thread -> Caller]
    BY <2>1 DEF Init
  <2> QED
    BY <2>2 DEF Init, Calls, Steps, Day
<1>4. ProbeHeld
  BY DEF Init, ProbeHeld
<1> QED
  BY <1>1, <1>2, <1>3, <1>4 DEF CircuitInv

\* An admitted call is the probe of the circuit it finds half open.
LEMMA AdmitProbe ==
  ASSUME CircuitInv, NEW t \in Thread, NEW p \in Provider, NEW step \in Steps,
         Admit(t, p), Goto(t, step),
         pc[t] \in {"reserved", "fallback"},
         step = IF p = "kanana" THEN "kanana" ELSE "gpt"
  PROVE  ProbeHeld'
<1> USE DEF CircuitInv, Breakers, Calls, Provider
<1>1. pc' = [pc EXCEPT ![t] = step] /\ probe' = [probe EXCEPT ![t] = circ[p] # "closed"]
  BY Zenon DEF Admit, Goto
<1>2. \A q \in Provider : q # p => InFlight(q)' = InFlight(q)
  BY <1>1 DEF InFlight
<1>3. t \in InFlight(p)' /\ \A q \in Provider : t \notin InFlight(q)
  BY <1>1 DEF InFlight
<1>4. CASE circ[p] = "closed"
  <2>1. UNCHANGED <<circ, probing>>
    BY <1>4, Zenon DEF Admit
  <2> QED
    BY <1>1, <1>2, <1>3, <1>4, <2>1 DEF ProbeHeld
<1>5. CASE circ[p] # "closed"
  <2>1. circ' = [circ EXCEPT ![p] = "half_open"] /\ probing' = [probing EXCEPT ![p] = TRUE]
    BY <1>5, Zenon DEF Admit
  <2>2. probing'[p] /\ probe'[t]
    BY <1>1, <1>5, <2>1
  <2> QED
    BY <1>1, <1>2, <1>3, <2>1, <2>2 DEF ProbeHeld
<1> QED
  BY <1>4, <1>5

\* A call that settles leaves no circuit half open without its probe.
LEMMA SettleProbe ==
  ASSUME CircuitInv, NEW t \in Thread, NEW p \in Provider, NEW step \in Steps,
         RecordSuccess(p) \/ RecordFailure(p), Settles(t), Goto(t, step),
         t \in InFlight(p), step \in {"idle", "fallback"}
  PROVE  ProbeHeld'
<1> USE DEF CircuitInv, Breakers, Calls, Provider
<1>1. pc' = [pc EXCEPT ![t] = step] /\ probe' = [probe EXCEPT ![t] = FALSE]
  BY Zenon DEF Settles, Goto
<1>2. \A q \in Provider : q # p => InFlight(q)' = InFlight(q) /\ t \notin InFlight(q)
  BY <1>1 DEF InFlight
<1>3. circ'[p] # "half_open" /\ \A q \in Provider : q # p => circ'[q] = circ[q] /\ probing'[q] = probing[q]
  <2>1. CASE RecordSuccess(p)
    BY <2>1 DEF RecordSuccess
  <2>2. CASE Opens(p)
    BY <2>2 DEF Opens
  <2>3. CASE circ[p] # "half_open" /\ UNCHANGED <<circ, wait, probing>>
    BY <2>3
  <2> QED
    BY <2>1, <2>2, <2>3, FailureBreakers
<1> QED
  BY <1>1, <1>2, <1>3 DEF ProbeHeld

\* A step that touches no breaker and moves its thread outside the requests
\* keeps every probe.
LEMMA QuietProbe ==
  ASSUME CircuitInv, NEW t \in Thread, NEW step \in Steps, Goto(t, step),
         UNCHANGED <<breakers, probe>>,
         \/ pc[t] \notin {"kanana", "unset", "gpt"} /\ step \notin {"kanana", "unset", "gpt"}
         \/ pc[t] = "kanana" /\ step = "unset"
  PROVE  ProbeHeld'
<1>1. pc' = [pc EXCEPT ![t] = step]
  BY Zenon DEF Goto
<1>2. \A q \in Provider : InFlight(q)' = InFlight(q)
  BY <1>1 DEF InFlight, CircuitInv, Calls, Provider
<1> QED
  BY <1>2 DEF ProbeHeld, breakers, CircuitInv

\* Moving a thread keeps the types of the calls.
LEMMA GotoCalls ==
  ASSUME Calls, NEW t \in Thread, NEW step \in Steps, Goto(t, step)
  PROVE  pc' \in [Thread -> Steps]
BY DEF Calls, Goto

\* Every step keeps the types and the probes.
LEMMA NextCircuitInv ==
  ASSUME CircuitInv, [Next]_vars
  PROVE  CircuitInv'
<1> USE ConstantsAssumption
<1>1. ASSUME NEW t \in Thread, NEW c \in Caller, Reserve(t, c)
      PROVE  CircuitInv'
  <2>1. /\ Book(QuotaKey(c), 1) /\ Goto(t, "reserved") /\ pc[t] = "idle"
        /\ caller' = [caller EXCEPT ![t] = c] /\ booked' = [booked EXCEPT ![t] = today]
        /\ spent' = [spent EXCEPT ![today] = @ + 1]
        /\ used' = [used EXCEPT ![today][QuotaKey(c)] = @ + 1]
        /\ UNCHANGED <<breakers, probe, world, late>>
    BY <1>1, Zenon DEF Reserve
  <2>2. used' \in [Day -> [Key -> Int]] /\ spent' \in [Day -> Int]
    <3>1. used[today] \in [Key -> Int]
      BY DEF CircuitInv, Budget
    <3>2. [used[today] EXCEPT ![QuotaKey(c)] = @ + 1] \in [Key -> Int]
      BY <3>1, ShiftTypes
    <3> QED
      BY <2>1, <3>2 DEF CircuitInv, Budget
  <2>3. Budget'
    BY <2>1, <2>2, BookTypes DEF CircuitInv, Budget, world
  <2>4. Calls'
    <3>1. booked' \in [Thread -> Day] /\ caller' \in [Thread -> Caller]
      BY <2>1 DEF CircuitInv, Calls, Budget
    <3> QED
      BY <2>1, <3>1, GotoCalls DEF CircuitInv, Calls, Steps
  <2>5. ProbeHeld'
    BY <2>1, QuietProbe DEF Steps
  <2> QED
    BY <2>1, <2>3, <2>4, <2>5 DEF CircuitInv, Breakers, breakers
<1>2. ASSUME NEW t \in Thread, NEW c \in Caller, Denied(t, c)
      PROVE  CircuitInv'
  <2>1. /\ Book(NoKey, 0) /\ pc[t] = "idle"
        /\ Goto(t, IF QuotaKey(c) = NoKey /\ Total < DailyLimit THEN "idle" ELSE Overflows)
        /\ UNCHANGED <<breakers, caller, booked, probe, world, ledger>>
    BY <1>2, Zenon DEF Denied
  <2>2. PICK step \in {"idle", "fallback"} : Goto(t, step)
    BY <2>1 DEF Overflows
  <2>3. Budget'
    BY <2>1, BookTypes DEF CircuitInv, Budget, world, ledger
  <2>4. ProbeHeld'
    BY <2>1, <2>2, QuietProbe DEF Steps
  <2> QED
    BY <2>1, <2>2, <2>3, <2>4, GotoCalls DEF CircuitInv, Calls, Steps, Breakers, breakers
<1>3. ASSUME NEW t \in Thread, KananaAdmitted(t)
      PROVE  CircuitInv'
  <2>1. /\ pc[t] = "reserved" /\ Admit(t, "kanana") /\ Goto(t, "kanana")
        /\ UNCHANGED <<budget, caller, booked, world, ledger>>
    BY <1>3, Zenon DEF KananaAdmitted
  <2>2. ProbeHeld'
    BY <2>1, AdmitProbe DEF Steps, Provider
  <2>3. Breakers' /\ Calls'
    BY <2>1, AdmitBreakers, GotoCalls DEF CircuitInv, Calls, Steps, Provider
  <2> QED
    BY <2>1, <2>2, <2>3 DEF CircuitInv, Budget, budget, world, ledger
<1>4. ASSUME NEW t \in Thread, GptAdmitted(t)
      PROVE  CircuitInv'
  <2>1. /\ pc[t] = "fallback" /\ Admit(t, "gpt") /\ Goto(t, "gpt")
        /\ UNCHANGED <<budget, caller, booked, world, ledger>>
    BY <1>4, Zenon DEF GptAdmitted
  <2>2. ProbeHeld'
    BY <2>1, AdmitProbe DEF Steps, Provider
  <2>3. Breakers' /\ Calls'
    BY <2>1, AdmitBreakers, GotoCalls DEF CircuitInv, Calls, Steps, Provider
  <2> QED
    BY <2>1, <2>2, <2>3 DEF CircuitInv, Budget, budget, world, ledger
<1>5. ASSUME NEW t \in Thread, NEW p \in Provider, NEW step \in {"idle", "fallback"},
             RecordSuccess(p) \/ RecordFailure(p), Settles(t), Goto(t, step), t \in InFlight(p),
             UNCHANGED <<budget, caller, booked, world, ledger>>
      PROVE  CircuitInv'
  <2>1. ProbeHeld'
    BY <1>5, SettleProbe DEF Steps
  <2>2. Breakers'
    BY <1>5, SuccessBreakers, FailureBreakers DEF CircuitInv
  <2>3. probe' \in [Thread -> BOOLEAN]
    BY <1>5, Zenon DEF Settles, CircuitInv, Calls
  <2>4. Calls'
    BY <1>5, <2>3, GotoCalls DEF CircuitInv, Calls, Steps
  <2> QED
    BY <1>5, <2>1, <2>2, <2>4 DEF CircuitInv, Budget, budget, world, ledger
<1>6. ASSUME NEW t \in Thread, KananaAnswers(t) \/ KananaFails(t) \/ GptSettles(t)
      PROVE  CircuitInv'
  <2>1. CASE KananaAnswers(t)
    <3>1. /\ RecordSuccess("kanana") /\ Settles(t) /\ Goto(t, "idle") /\ pc[t] = "kanana"
          /\ UNCHANGED <<budget, caller, booked, world, ledger>>
      BY <2>1, Zenon DEF KananaAnswers
    <3> QED
      BY <3>1, <1>5 DEF InFlight, Provider
  <2>2. CASE KananaFails(t)
    <3>1. /\ RecordFailure("kanana") /\ Settles(t) /\ Goto(t, Overflows) /\ pc[t] \in {"kanana", "unset"}
          /\ UNCHANGED <<budget, caller, booked, world, ledger>>
      BY <2>2, Zenon DEF KananaFails
    <3>2. Overflows \in {"idle", "fallback"}
      BY DEF Overflows
    <3> QED
      BY <3>1, <3>2, <1>5 DEF InFlight, Provider
  <2>3. CASE GptSettles(t)
    <3>1. /\ RecordSuccess("gpt") \/ RecordFailure("gpt")
          /\ Settles(t) /\ Goto(t, "idle") /\ pc[t] = "gpt"
          /\ UNCHANGED <<budget, caller, booked, world, ledger>>
      BY <2>3, Zenon DEF GptSettles
    <3> QED
      BY <3>1, <1>5 DEF InFlight, Provider
  <2> QED
    BY <1>6, <2>1, <2>2, <2>3
<1>7. ASSUME NEW t \in Thread, Refund(t) \/ KananaUnset(t)
      PROVE  CircuitInv'
  <2>1. /\ Release(t) /\ Handed(t)
        /\ UNCHANGED <<breakers, caller, booked, probe, world>>
    BY <1>7, Zenon DEF Refund, KananaUnset
  <2>2. Budget'
    BY <2>1, BookTypes, HandedTypes DEF CircuitInv, Budget, world, Release
  <2>3. PICK step \in Steps : /\ Goto(t, step)
                              /\ \/ pc[t] = "refund" /\ step \in {"idle", "fallback"}
                                 \/ pc[t] = "kanana" /\ step = "unset"
    <3>1. Overflows \in {"idle", "fallback"}
      BY DEF Overflows
    <3>2. (pc[t] = "refund" /\ Goto(t, Overflows)) \/ (pc[t] = "kanana" /\ Goto(t, "unset"))
      BY <1>7, Zenon DEF Refund, KananaUnset
    <3> QED
      BY <3>1, <3>2 DEF Steps
  <2>4. ProbeHeld'
    BY <2>1, <2>3, QuietProbe
  <2> QED
    BY <2>1, <2>2, <2>3, <2>4, GotoCalls DEF CircuitInv, Calls, Breakers, breakers
<1>8. ASSUME NEW t \in Thread, KananaRefused(t) \/ ModeBCall(t) \/ GptRefused(t)
      PROVE  CircuitInv'
  <2>1. UNCHANGED <<breakers, budget, caller, booked, probe, world, ledger>>
    BY <1>8, Zenon DEF KananaRefused, ModeBCall, GptRefused
  <2>2. PICK step \in {"refund", "fallback", "idle"} :
          Goto(t, step) /\ pc[t] \in {"reserved", "idle", "fallback"}
    BY <1>8 DEF KananaRefused, ModeBCall, GptRefused
  <2>3. ProbeHeld'
    BY <2>1, <2>2, QuietProbe DEF Steps
  <2> QED
    BY <2>1, <2>2, <2>3, GotoCalls
    DEF CircuitInv, Calls, Steps, Breakers, Budget, breakers, budget, world, ledger
<1>9. ASSUME NEW p \in Provider, Tick(p)
      PROVE  CircuitInv'
  <2>1. /\ wait[p] > 0 /\ wait' = [wait EXCEPT ![p] = @ - 1]
        /\ UNCHANGED <<circ, fails, probing, budget, pc, caller, booked, probe, world, ledger>>
    BY <1>9, Zenon DEF Tick
  <2>2. wait' \in [Provider -> 0 .. OpenDuration]
    BY <2>1 DEF CircuitInv, Breakers
  <2>3. ProbeHeld'
    BY <2>1 DEF CircuitInv, ProbeHeld, InFlight
  <2> QED
    BY <2>1, <2>2, <2>3 DEF CircuitInv, Breakers, Budget, Calls, budget, world, ledger
<1>10. CASE Midnight
  <2>1. /\ today' = today + 1 /\ today < MaxDay
        /\ UNCHANGED <<breakers, budget, pc, caller, booked, probe, kananaSet, openaiSet, ledger>>
    BY <1>10, Zenon DEF Midnight
  <2>2. today' \in Day
    BY <2>1 DEF CircuitInv, Budget, Day
  <2>3. ProbeHeld'
    BY <2>1 DEF CircuitInv, ProbeHeld, InFlight, breakers
  <2> QED
    BY <2>1, <2>2, <2>3 DEF CircuitInv, Breakers, Budget, Calls, breakers, budget, ledger
<1>11. CASE UNCHANGED vars
  <2>1. UNCHANGED <<breakers, budget, pc, caller, booked, probe, world, ledger>>
    BY <1>11, Zenon DEF vars
  <2>2. ProbeHeld'
    BY <2>1 DEF CircuitInv, ProbeHeld, InFlight, breakers
  <2> QED
    BY <2>1, <2>2 DEF CircuitInv, Breakers, Budget, Calls, breakers, budget, world, ledger
<1> QED
  BY <1>1, <1>2, <1>3, <1>4, <1>6, <1>7, <1>8, <1>9, <1>10, <1>11, Zenon DEF Next, Step

\* No breaker waits for a probe that is gone, and every variable has its type.
THEOREM CircuitsCorrect == Spec => [](TypeOK /\ ProbeHeld)
<1>1. Spec => []CircuitInv
  BY InitCircuitInv, NextCircuitInv, PTL DEF Spec
<1>2. CircuitInv => TypeOK /\ ProbeHeld
  BY DEF CircuitInv, TypeOK, Breakers, Budget, Calls
<1> QED
  BY <1>1, <1>2, PTL

-----------------------------------------------------------------------------
(***************************************************************************)
(* Each breaker implements CircuitBreaker.  What a step may do to breaker  *)
(* p, stated once for both: the steps of CircuitBreaker, or nothing.       *)
(***************************************************************************)
Admits(p, t) ==
  /\ t \notin InFlight(p) /\ InFlight(p)' = InFlight(p) \cup {t}
  /\ \/ Mode(p) = "closed" /\ Mode(p)' = Mode(p)
     \/ Mode(p) = "open" /\ ~Cooling(p) /\ Mode(p)' = "probing"
  /\ Cooling(p)' = Cooling(p)

Settled(p, t) == t \in InFlight(p) /\ InFlight(p)' = InFlight(p) \ {t}

Closes(p) == Mode(p)' = "closed" /\ Cooling(p)' = FALSE

FailsOpen(p) ==
  \/ Mode(p) # "probing" /\ Mode(p)' = Mode(p) /\ Cooling(p)' = Cooling(p)
  \/ Mode(p)' = "open" /\ Cooling(p)' = TRUE

Cools(p) ==
  /\ Mode(p) = "open" /\ Cooling(p) /\ Cooling(p)' = FALSE
  /\ Mode(p)' = Mode(p) /\ InFlight(p)' = InFlight(p)

Still(p) == Mode(p)' = Mode(p) /\ Cooling(p)' = Cooling(p) /\ InFlight(p)' = InFlight(p)

\* An admission is a step of its own breaker and no step of the other.
LEMMA AdmitStep ==
  ASSUME CircuitInv, NEW t \in Thread, NEW p \in Provider, NEW q \in Provider,
         Admit(t, p), Goto(t, IF p = "kanana" THEN "kanana" ELSE "gpt"),
         pc[t] \in {"reserved", "fallback"}
  PROVE  IF q = p THEN Admits(p, t) ELSE Still(q)
<1> USE DEF CircuitInv, Breakers, Calls, Provider
<1>1. pc' = [pc EXCEPT ![t] = IF p = "kanana" THEN "kanana" ELSE "gpt"] /\ wait' = wait
  BY Zenon DEF Admit, Goto
<1>2. InFlight(p)' = InFlight(p) \cup {t} /\ t \notin InFlight(p)
  BY <1>1 DEF InFlight
<1>3. q # p => InFlight(q)' = InFlight(q)
  BY <1>1 DEF InFlight
<1>4. CASE circ[p] = "closed"
  <2>1. UNCHANGED <<circ, probing>>
    BY <1>4, Zenon DEF Admit
  <2> QED
    BY <1>1, <1>2, <1>3, <1>4, <2>1 DEF Admits, Still, Mode, Cooling
<1>5. CASE circ[p] # "closed"
  <2>1. circ' = [circ EXCEPT ![p] = "half_open"]
    BY <1>5, Zenon DEF Admit
  <2>2. circ[p] = "open" /\ ~(wait[p] > 0)
    <3>1. ~Refuses(p)
      BY Zenon DEF Admit
    <3> QED
      BY <1>5, <3>1 DEF Refuses, ProbeHeld
  <2> QED
    BY <1>1, <1>2, <1>3, <2>1, <2>2 DEF Admits, Still, Mode, Cooling
<1> QED
  BY <1>4, <1>5

\* A settled call is a step of its own breaker and no step of the other.
LEMMA SettleStep ==
  ASSUME CircuitInv, NEW t \in Thread, NEW p \in Provider, NEW q \in Provider,
         NEW step \in {"idle", "fallback"},
         RecordSuccess(p) \/ RecordFailure(p), Goto(t, step), t \in InFlight(p)
  PROVE  IF q = p THEN Settled(p, t) /\ (Closes(p) \/ FailsOpen(p)) ELSE Still(q)
<1> USE ConstantsAssumption DEF CircuitInv, Breakers, Calls, Provider
<1>1. pc' = [pc EXCEPT ![t] = step]
  BY Zenon DEF Goto
<1>2. Settled(p, t) /\ (q # p => InFlight(q)' = InFlight(q))
  BY <1>1 DEF InFlight, Settled
<1>3. CASE RecordSuccess(p)
  <2>1. circ' = [circ EXCEPT ![p] = "closed"] /\ wait' = [wait EXCEPT ![p] = 0]
    BY <1>3, Zenon DEF RecordSuccess
  <2> QED
    BY <1>2, <2>1 DEF Closes, Still, Mode, Cooling
<1>4. CASE Opens(p)
  <2>1. circ' = [circ EXCEPT ![p] = "open"] /\ wait' = [wait EXCEPT ![p] = OpenDuration]
    BY <1>4, Zenon DEF Opens
  <2> QED
    BY <1>2, <2>1 DEF FailsOpen, Still, Mode, Cooling
<1>5. CASE circ[p] # "half_open" /\ UNCHANGED <<circ, wait, probing>>
  BY <1>2, <1>5 DEF FailsOpen, Still, Mode, Cooling
<1> QED
  BY <1>3, <1>4, <1>5, FailureBreakers

\* A clock tick is the end of a cooldown or no step at all.
LEMMA TickStep ==
  ASSUME CircuitInv, NEW p \in Provider, NEW q \in Provider, Tick(p)
  PROVE  Cools(q) \/ Still(q)
<1> USE DEF CircuitInv, Breakers
<1>1. /\ circ[p] = "open" /\ wait[p] > 0 /\ wait' = [wait EXCEPT ![p] = @ - 1]
      /\ circ' = circ /\ pc' = pc
  BY Zenon DEF Tick
<1>2. InFlight(q)' = InFlight(q) /\ Mode(q)' = Mode(q)
  BY <1>1 DEF InFlight, Mode
<1>3. CASE q = p /\ wait[p] = 1
  BY <1>1, <1>2, <1>3 DEF Cools, Cooling, Mode
<1>4. CASE q # p \/ wait[p] # 1
  <2>1. wait'[q] > 0 <=> wait[q] > 0
    BY <1>1, <1>4
  <2> QED
    BY <1>1, <1>2, <2>1 DEF Still, Cooling
<1> QED
  BY <1>3, <1>4

\* Whatever happens, each breaker makes a step of CircuitBreaker or none.
LEMMA BreakerStep ==
  ASSUME CircuitInv, [Next]_vars, NEW q \in Provider
  PROVE  \/ \E t \in Thread : Admits(q, t) \/ (Settled(q, t) /\ (Closes(q) \/ FailsOpen(q)))
         \/ Cools(q)
         \/ Still(q)
<1>1. ASSUME NEW t \in Thread, KananaAdmitted(t) \/ GptAdmitted(t)
      PROVE  Admits(q, t) \/ Still(q)
  <2>1. PICK p \in Provider : /\ Admit(t, p) /\ Goto(t, IF p = "kanana" THEN "kanana" ELSE "gpt")
                              /\ pc[t] \in {"reserved", "fallback"}
    BY <1>1 DEF KananaAdmitted, GptAdmitted, Provider
  <2> QED
    BY <2>1, AdmitStep
<1>2. ASSUME NEW t \in Thread, KananaAnswers(t) \/ KananaFails(t) \/ GptSettles(t)
      PROVE  (Settled(q, t) /\ (Closes(q) \/ FailsOpen(q))) \/ Still(q)
  <2>1. Overflows \in {"idle", "fallback"}
    BY DEF Overflows
  <2>2. PICK p \in Provider, step \in {"idle", "fallback"} :
          (RecordSuccess(p) \/ RecordFailure(p)) /\ Goto(t, step) /\ t \in InFlight(p)
    BY <1>2, <2>1 DEF KananaAnswers, KananaFails, GptSettles, InFlight, Provider
  <2> QED
    BY <2>2, SettleStep
<1>3. ASSUME NEW t \in Thread, NEW c \in Caller,
             \/ Reserve(t, c) \/ Denied(t, c) \/ KananaRefused(t) \/ Refund(t) \/ KananaUnset(t)
             \/ ModeBCall(t) \/ GptRefused(t)
      PROVE  Still(q)
  <2>1. UNCHANGED breakers
    BY <1>3, Zenon DEF Reserve, Denied, KananaRefused, Refund, KananaUnset, ModeBCall, GptRefused
  <2>2. PICK step \in Steps :
          /\ Goto(t, step)
          /\ \/ pc[t] \notin {"kanana", "unset", "gpt"} /\ step \notin {"kanana", "unset", "gpt"}
             \/ pc[t] = "kanana" /\ step = "unset"
    <3>1. Overflows \in {"idle", "fallback"}
      BY DEF Overflows
    <3> QED
      BY <1>3, <3>1 DEF Reserve, Denied, KananaRefused, Refund, KananaUnset, ModeBCall, GptRefused, Steps
  <2>3. InFlight(q)' = InFlight(q)
    BY <2>2 DEF Goto, InFlight, CircuitInv, Calls, Provider
  <2> QED
    BY <2>1, <2>3 DEF Still, Mode, Cooling, breakers
<1>4. ASSUME NEW p \in Provider, Tick(p)
      PROVE  Cools(q) \/ Still(q)
  BY <1>4, TickStep
<1>5. CASE Midnight \/ UNCHANGED vars
  <2>1. UNCHANGED <<breakers, pc>>
    BY <1>5, Zenon DEF Midnight, vars
  <2> QED
    BY <2>1 DEF Still, Mode, Cooling, InFlight, breakers
<1>6. Caller # {}
  BY ConstantsAssumption
<1> QED
  BY <1>1, <1>2, <1>3, <1>4, <1>5, <1>6, Zenon DEF Next, Step

\* The Kanana breaker implements CircuitBreaker.
THEOREM KananaImplements == Spec => KananaSpec
<1>1. Init => KananaBreaker!Init
  BY DEF Init, KananaBreaker!Init, Mode, Cooling, InFlight, Provider
<1>2. ASSUME CircuitInv, [Next]_vars
      PROVE  [KananaBreaker!Next]_(KananaBreaker!bvars)
  BY <1>2, BreakerStep
  DEF Admits, Settled, Closes, FailsOpen, Cools, Still, Provider, KananaBreaker!Next, KananaBreaker!Admit,
      KananaBreaker!Succeed, KananaBreaker!Fail, KananaBreaker!Cool, KananaBreaker!bvars
<1>3. Spec => []CircuitInv
  BY InitCircuitInv, NextCircuitInv, PTL DEF Spec
<1> QED
  BY <1>1, <1>2, <1>3, PTL DEF Spec, KananaSpec, KananaBreaker!Spec

\* The GPT-4o breaker implements CircuitBreaker.
THEOREM GptImplements == Spec => GptSpec
<1>1. Init => GptBreaker!Init
  BY DEF Init, GptBreaker!Init, Mode, Cooling, InFlight, Provider
<1>2. ASSUME CircuitInv, [Next]_vars
      PROVE  [GptBreaker!Next]_(GptBreaker!bvars)
  BY <1>2, BreakerStep
  DEF Admits, Settled, Closes, FailsOpen, Cools, Still, Provider, GptBreaker!Next, GptBreaker!Admit,
      GptBreaker!Succeed, GptBreaker!Fail, GptBreaker!Cool, GptBreaker!bvars
<1>3. Spec => []CircuitInv
  BY InitCircuitInv, NextCircuitInv, PTL DEF Spec
<1> QED
  BY <1>1, <1>2, <1>3, PTL DEF Spec, GptSpec, GptBreaker!Spec

\* What the Kanana breaker promises by its own steps alone.
LEMMA KananaNeverLocks == KananaSpec => []KananaBreaker!NoLockOut /\ KananaBreaker!OneProbe
<1> DEFINE In == InFlight("kanana")
<1>1. KananaBreaker!Init => KananaBreaker!NoLockOut
  BY DEF KananaBreaker!Init, KananaBreaker!NoLockOut
<1>2. ASSUME KananaBreaker!NoLockOut, [KananaBreaker!Next]_(KananaBreaker!bvars)
      PROVE  /\ KananaBreaker!NoLockOut'
             /\ [Mode("kanana") = "probing" => In' \subseteq In]_(KananaBreaker!bvars)
  <2>1. ASSUME NEW t \in Thread, KananaBreaker!Admit(t)
        PROVE  KananaBreaker!NoLockOut' /\ Mode("kanana") # "probing"
    BY <1>2, <2>1 DEF KananaBreaker!Admit, KananaBreaker!NoLockOut
  <2>2. ASSUME NEW t \in Thread, KananaBreaker!Succeed(t) \/ KananaBreaker!Fail(t)
        PROVE  KananaBreaker!NoLockOut' /\ In' \subseteq In
    BY <1>2, <2>2 DEF KananaBreaker!Succeed, KananaBreaker!Fail, KananaBreaker!NoLockOut
  <2>3. CASE KananaBreaker!Cool \/ UNCHANGED KananaBreaker!bvars
    BY <1>2, <2>3 DEF KananaBreaker!Cool, KananaBreaker!bvars, KananaBreaker!NoLockOut
  <2> QED
    BY <1>2, <2>1, <2>2, <2>3 DEF KananaBreaker!Next
<1> QED
  BY <1>1, <1>2, PTL DEF KananaSpec, KananaBreaker!Spec, KananaBreaker!OneProbe

\* What the GPT-4o breaker promises by its own steps alone.
LEMMA GptNeverLocks == GptSpec => []GptBreaker!NoLockOut /\ GptBreaker!OneProbe
<1> DEFINE In == InFlight("gpt")
<1>1. GptBreaker!Init => GptBreaker!NoLockOut
  BY DEF GptBreaker!Init, GptBreaker!NoLockOut
<1>2. ASSUME GptBreaker!NoLockOut, [GptBreaker!Next]_(GptBreaker!bvars)
      PROVE  /\ GptBreaker!NoLockOut'
             /\ [Mode("gpt") = "probing" => In' \subseteq In]_(GptBreaker!bvars)
  <2>1. ASSUME NEW t \in Thread, GptBreaker!Admit(t)
        PROVE  GptBreaker!NoLockOut' /\ Mode("gpt") # "probing"
    BY <1>2, <2>1 DEF GptBreaker!Admit, GptBreaker!NoLockOut
  <2>2. ASSUME NEW t \in Thread, GptBreaker!Succeed(t) \/ GptBreaker!Fail(t)
        PROVE  GptBreaker!NoLockOut' /\ In' \subseteq In
    BY <1>2, <2>2 DEF GptBreaker!Succeed, GptBreaker!Fail, GptBreaker!NoLockOut
  <2>3. CASE GptBreaker!Cool \/ UNCHANGED GptBreaker!bvars
    BY <1>2, <2>3 DEF GptBreaker!Cool, GptBreaker!bvars, GptBreaker!NoLockOut
  <2> QED
    BY <1>2, <2>1, <2>2, <2>3 DEF GptBreaker!Next
<1> QED
  BY <1>1, <1>2, PTL DEF GptSpec, GptBreaker!Spec, GptBreaker!OneProbe

\* Neither provider is ever locked out: while its circuit probes, a call that
\* will end the probing is in flight, and until it settles nobody else is let
\* in.
THEOREM NeverLockedOut ==
  Spec => /\ []KananaBreaker!NoLockOut /\ KananaBreaker!OneProbe
          /\ []GptBreaker!NoLockOut /\ GptBreaker!OneProbe
BY KananaImplements, GptImplements, KananaNeverLocks, GptNeverLocks, PTL

-----------------------------------------------------------------------------
(***************************************************************************)
(* The budget.  What stands on the current day is counted, but for the     *)
(* reservations of an earlier day that were handed back on it; days to     *)
(* come owe nothing, and days gone by only get better.                     *)
(***************************************************************************)
WithinLimits ==
  /\ resetDay <= today
  /\ Total <= DailyLimit /\ \A k \in Key : Counted(k) <= Allocation[k]

TodayCounted ==
  /\ spent[today] <= Total + late[today]
  /\ \A k \in Key : used[today][k] <= Counted(k) + late[today]

FutureClear ==
  \A d \in Day : today < d => spent[d] <= late[d] /\ \A k \in Key : used[d][k] <= late[d]

BudgetInv == WithinLimits /\ TodayCounted /\ FutureClear /\ BudgetKept

\* Nothing has been spent in the initial states.
LEMMA InitBudgetInv == Init => BudgetInv
<1> SUFFICES ASSUME Init PROVE BudgetInv
  OBVIOUS
<1>1. /\ today = 1 /\ resetDay = 0 /\ total = 0 /\ counts = [k \in Key |-> 0]
      /\ spent = [d \in Day |-> 0] /\ late = [d \in Day |-> 0]
      /\ used = [d \in Day |-> [k \in Key |-> 0]] /\ today \in Day
  BY ConstantsAssumption DEF Init, Day
<1>2. Total = 0 /\ \A k \in Key : Counted(k) = 0
  BY <1>1 DEF Total, Counted
<1>3. \A d \in Day : spent[d] = 0 /\ late[d] = 0 /\ \A k \in Key : used[d][k] = 0
  BY <1>1
<1> QED
  BY <1>1, <1>2, <1>3, ConstantsAssumption
  DEF BudgetInv, WithinLimits, TodayCounted, FutureClear, BudgetKept

\* Booking moves the counters of the day by one at most, and not below zero.
LEMMA BookCounts ==
  ASSUME Budget, today' = today, NEW k, NEW n \in {-1, 0, 1}, Book(k, n)
  PROVE  /\ resetDay' = today
         /\ Total' = IF Total + n >= 0 THEN Total + n ELSE Total
         /\ \A j \in Key : Counted(j)' = IF j = k /\ Counted(j) + n >= 0 THEN Counted(j) + n ELSE Counted(j)
         /\ Total \in Nat /\ \A j \in Key : Counted(j) \in Nat
<1>1. Total \in Nat /\ \A j \in Key : Counted(j) \in Nat
  BY DEF Budget, Total, Counted
<1>2. resetDay' = today'
  BY Zenon DEF Book
<1>3. Total' = total' /\ \A j \in Key : Counted(j)' = counts'[j]
  BY <1>2 DEF Total, Counted
<1> QED
  BY <1>1, <1>2, <1>3 DEF Book

\* A reservation is made only below the limits and is counted.
LEMMA ReserveBudget ==
  ASSUME CircuitInv, BudgetInv, NEW t \in Thread, NEW c \in Caller, Reserve(t, c)
  PROVE  BudgetInv'
<1> DEFINE k == QuotaKey(c)
<1> USE DEF CircuitInv, Budget, BudgetInv
<1>1. /\ Book(k, 1) /\ spent' = [spent EXCEPT ![today] = @ + 1]
      /\ used' = [used EXCEPT ![today][k] = @ + 1]
      /\ UNCHANGED <<today, late>>
  BY Zenon DEF Reserve, world
<1>2. Total < DailyLimit /\ k # NoKey /\ Counted(k) < Allocation[k]
  BY Zenon DEF Reserve, CanReserve
<1>3. k \in Key
  BY <1>2 DEF QuotaKey
<1> HIDE DEF k
<1>4. /\ resetDay' = today /\ Total' = Total + 1 /\ Total \in Nat
      /\ \A j \in Key : /\ Counted(j) \in Nat
                        /\ Counted(j)' = IF j = k THEN Counted(j) + 1 ELSE Counted(j)
  BY <1>1, BookCounts
<1>5. \A d \in Day : /\ spent'[d] = IF d = today THEN spent[d] + 1 ELSE spent[d]
                     /\ \A j \in Key : used'[d][j] = IF d = today /\ j = k THEN used[d][j] + 1 ELSE used[d][j]
  BY <1>1, <1>3
<1>6. WithinLimits'
  <2>1. resetDay' <= today'
    BY <1>1, <1>4 DEF Day
  <2>2. Total' <= DailyLimit /\ \A j \in Key : Counted(j)' <= Allocation[j]
    BY <1>2, <1>4, ConstantsAssumption DEF WithinLimits
  <2> QED
    BY <2>1, <2>2 DEF WithinLimits
<1>7. TodayCounted'
  BY <1>1, <1>4, <1>5 DEF TodayCounted
<1>8. FutureClear'
  BY <1>1, <1>5 DEF FutureClear, Day
<1>9. BudgetKept'
  <2>1. \A d \in Day : d # today => spent'[d] = spent[d] /\ \A j \in Key : used'[d][j] = used[d][j]
    BY <1>5
  <2>2. spent'[today] <= DailyLimit + late[today] /\ \A j \in Key : used'[today][j] <= Allocation[j] + late[today]
    BY <1>1, <1>4, <1>6, <1>7, ConstantsAssumption DEF WithinLimits, TodayCounted
  <2> QED
    BY <1>1, <2>1, <2>2 DEF BudgetKept
<1> QED
  BY <1>6, <1>7, <1>8, <1>9

\* A reservation handed back lowers the ledger of its own day and the counter
\* of the current one; when they differ, it is late.
LEMMA ReleaseBudget ==
  ASSUME CircuitInv, BudgetInv, NEW t \in Thread, Release(t), Handed(t), UNCHANGED world
  PROVE  BudgetInv'
<1> DEFINE k == QuotaKey(caller[t])
           b == booked[t]
<1> USE DEF CircuitInv, Budget, BudgetInv
<1>1. /\ Book(k, -1) /\ spent' = [spent EXCEPT ![b] = @ - 1]
      /\ used' = [used EXCEPT ![b][k] = @ - 1]
      /\ late' = (IF b = today THEN late ELSE [late EXCEPT ![today] = @ + 1])
      /\ today' = today
  BY Zenon DEF Release, Handed, world
<1>2. b \in Day
  BY DEF Calls
<1> HIDE DEF k, b
<1>3. /\ resetDay' = today /\ Total \in Nat
      /\ Total' = IF Total >= 1 THEN Total - 1 ELSE Total
      /\ \A j \in Key : /\ Counted(j) \in Nat
                        /\ Counted(j)' = IF j = k /\ Counted(j) >= 1 THEN Counted(j) - 1 ELSE Counted(j)
  BY <1>1, BookCounts
<1>4. \A d \in Day : /\ spent'[d] = IF d = b THEN spent[d] - 1 ELSE spent[d]
                     /\ late'[d] = IF d = today /\ b # today THEN late[d] + 1 ELSE late[d]
                     /\ \A j \in Key : used'[d][j] = IF d = b /\ j = k THEN used[d][j] - 1 ELSE used[d][j]
  BY <1>1, <1>2
<1>5. \A d \in Day : /\ spent[d] \in Int /\ late[d] \in Nat
                     /\ \A j \in Key : used[d][j] \in Int
  OBVIOUS
<1>6. WithinLimits'
  <2>1. resetDay' <= today'
    BY <1>1, <1>3 DEF Day
  <2>2. Total' <= DailyLimit /\ \A j \in Key : Counted(j)' <= Allocation[j]
    BY <1>3, ConstantsAssumption DEF WithinLimits
  <2> QED
    BY <2>1, <2>2 DEF WithinLimits
<1>7. TodayCounted'
  <2>1. spent'[today] <= Total' + late'[today]
    BY <1>3, <1>4, <1>5 DEF TodayCounted
  <2>2. ASSUME NEW j \in Key PROVE used'[today][j] <= Counted(j)' + late'[today]
    BY <1>3, <1>4, <1>5 DEF TodayCounted
  <2> QED
    BY <1>1, <2>1, <2>2 DEF TodayCounted
<1>8. FutureClear'
  BY <1>1, <1>4, <1>5 DEF FutureClear
<1>9. BudgetKept'
  BY <1>4, <1>5, ConstantsAssumption DEF BudgetKept
<1> QED
  BY <1>6, <1>7, <1>8, <1>9

\* Every step keeps the budget.
LEMMA NextBudgetInv ==
  ASSUME CircuitInv, BudgetInv, [Next]_vars
  PROVE  BudgetInv'
<1>1. ASSUME NEW t \in Thread, NEW c \in Caller, Reserve(t, c)
      PROVE  BudgetInv'
  BY <1>1, ReserveBudget
<1>2. ASSUME NEW t \in Thread, Refund(t) \/ KananaUnset(t)
      PROVE  BudgetInv'
  BY <1>2, ReleaseBudget DEF Refund, KananaUnset
<1>3. ASSUME NEW t \in Thread, NEW c \in Caller, Denied(t, c)
      PROVE  BudgetInv'
  <2>1. Book(NoKey, 0) /\ UNCHANGED <<today, spent, used, late>>
    BY <1>3, Zenon DEF Denied, world, ledger
  <2>2. resetDay' = today /\ Total' = Total /\ \A j \in Key : Counted(j)' = Counted(j)
    BY <2>1, BookCounts DEF CircuitInv
  <2> QED
    BY <2>1, <2>2 DEF BudgetInv, WithinLimits, TodayCounted, FutureClear, BudgetKept, CircuitInv, Budget, Day
<1>4. CASE Midnight
  <2>1. today' = today + 1 /\ UNCHANGED <<resetDay, total, counts, spent, used, late>>
    BY <1>4, Zenon DEF Midnight, budget, ledger
  <2>2. today' \in Day /\ today < today' /\ resetDay # today'
    <3>1. today < MaxDay
      BY <1>4, Zenon DEF Midnight
    <3>2. resetDay <= today /\ resetDay \in Nat /\ today \in 1 .. MaxDay /\ MaxDay \in Nat
      BY ConstantsAssumption DEF BudgetInv, WithinLimits, CircuitInv, Budget, Day
    <3> QED
      BY <2>1, <3>1, <3>2 DEF Day
  <2>3. Total' = 0 /\ \A j \in Key : Counted(j)' = 0
    BY <2>1, <2>2 DEF Total, Counted
  <2>4. WithinLimits'
    BY <2>1, <2>3, ConstantsAssumption DEF BudgetInv, WithinLimits, CircuitInv, Budget, Day
  <2>5. TodayCounted'
    BY <2>1, <2>2, <2>3 DEF BudgetInv, FutureClear, TodayCounted, CircuitInv, Budget
  <2>6. FutureClear' /\ BudgetKept'
    BY <2>1 DEF BudgetInv, FutureClear, BudgetKept, CircuitInv, Budget, Day
  <2> QED
    BY <2>4, <2>5, <2>6 DEF BudgetInv
<1>5. ASSUME UNCHANGED <<budget, today, ledger>>
      PROVE  BudgetInv'
  BY <1>5 DEF BudgetInv, WithinLimits, TodayCounted, FutureClear, BudgetKept, Total, Counted, budget, ledger
<1>6. ASSUME NEW t \in Thread,
             \/ KananaAdmitted(t) \/ KananaRefused(t) \/ KananaAnswers(t) \/ KananaFails(t)
             \/ ModeBCall(t) \/ GptRefused(t) \/ GptAdmitted(t) \/ GptSettles(t)
      PROVE  BudgetInv'
  <2>1. UNCHANGED <<budget, today, ledger>>
    BY <1>6, Zenon DEF KananaAdmitted, KananaRefused, KananaAnswers, KananaFails, ModeBCall, GptRefused,
                       GptAdmitted, GptSettles, world
  <2> QED
    BY <2>1, <1>5
<1>7. ASSUME NEW p \in Provider, Tick(p)
      PROVE  BudgetInv'
  BY <1>5, <1>7, Zenon DEF Tick, world
<1>8. CASE UNCHANGED vars
  BY <1>5, <1>8, Zenon DEF vars, world
<1> QED
  BY <1>1, <1>2, <1>3, <1>4, <1>6, <1>7, <1>8, Zenon DEF Next, Step

\* No day's budget is exceeded, but for reservations handed back after their
\* midnight.
THEOREM BudgetCorrect == Spec => []BudgetKept
<1>1. Spec => [](CircuitInv /\ BudgetInv)
  BY InitCircuitInv, NextCircuitInv, InitBudgetInv, NextBudgetInv, PTL DEF Spec
<1>2. BudgetInv => BudgetKept
  BY DEF BudgetInv
<1> QED
  BY <1>1, <1>2, PTL
-----------------------------------------------------------------------------
(***************************************************************************)
(* Nothing leaks.  The ledger of a day covers the calls that still hold a  *)
(* reservation of it, so handing one back never takes it below zero, where *)
(* the counters of the day cannot follow.                                  *)
(***************************************************************************)
Holds(t)           == pc[t] \in {"reserved", "refund", "kanana"}
Standing(d)        == {t \in Thread : Holds(t) /\ booked[t] = d}
StandingUnder(d, k) == {t \in Standing(d) : QuotaKey(caller[t]) = k}

Covers(n, S) == IsFiniteSet(S) /\ Cardinality(S) <= n

HoldersCovered ==
  /\ \A t \in Thread : Holds(t) => QuotaKey(caller[t]) \in Key
  /\ \A d \in Day : /\ Covers(spent[d], Standing(d))
                    /\ \A k \in Key : Covers(used[d][k], StandingUnder(d, k))

CountedSpent ==
  Total <= spent[today] /\ \A k \in Key : Counted(k) <= used[today][k]

LeakInv == HoldersCovered /\ CountedSpent

\* A set gains a member, or loses one, together with the number that covers it.
LEMMA CoverMoves ==
  ASSUME NEW S, NEW t, NEW n \in Int, Covers(n, S)
  PROVE  /\ n >= 0
         /\ Covers(n + 1, S \cup {t})
         /\ t \in S => n >= 1 /\ Covers(n - 1, S \ {t})
<1>1. Cardinality(S) \in Nat /\ Cardinality(S \cup {t}) \in Nat /\ Cardinality(S \ {t}) \in Nat
  BY FS_AddElement, FS_RemoveElement, FS_CardinalityType DEF Covers
<1>2. IsFiniteSet(S \cup {t}) /\ Cardinality(S \cup {t}) <= Cardinality(S) + 1
  BY <1>1, FS_AddElement DEF Covers
<1>3. IsFiniteSet(S \ {t}) /\ (t \in S => Cardinality(S \ {t}) = Cardinality(S) - 1)
  BY <1>1, FS_RemoveElement DEF Covers
<1> QED
  BY <1>1, <1>2, <1>3 DEF Covers

\* Nobody holds a reservation in the initial states.
LEMMA InitLeakInv == Init => LeakInv
<1> SUFFICES ASSUME Init PROVE LeakInv
  OBVIOUS
<1>1. \A d \in Day : Standing(d) = {} /\ \A k \in Key : StandingUnder(d, k) = {}
  BY DEF Init, Standing, StandingUnder, Holds
<1>2. IsFiniteSet({}) /\ Cardinality({}) = 0
  BY FS_EmptySet
<1>3. /\ today \in Day /\ total = 0 /\ counts = [k \in Key |-> 0]
      /\ \A d \in Day : spent[d] = 0 /\ \A k \in Key : used[d][k] = 0
  BY ConstantsAssumption DEF Init, Day
<1>4. CountedSpent
  BY <1>3 DEF CountedSpent, Total, Counted
<1>5. HoldersCovered
  <2>1. \A d \in Day : /\ Covers(spent[d], Standing(d))
                       /\ \A k \in Key : Covers(used[d][k], StandingUnder(d, k))
    <3>1. Covers(0, {})
      BY <1>2 DEF Covers
    <3> QED
      BY <1>1, <1>3, <3>1
  <2> QED
    BY <2>1 DEF Init, HoldersCovered, Holds
<1> QED
  BY <1>4, <1>5 DEF LeakInv

\* A reservation adds its thread to the holders of the day and of its key.
LEMMA ReserveLeak ==
  ASSUME CircuitInv, LeakInv, NEW t \in Thread, NEW c \in Caller, Reserve(t, c)
  PROVE  LeakInv'
<1> DEFINE k == QuotaKey(c)
<1> USE DEF CircuitInv, Budget, Calls, LeakInv
<1>1. /\ Book(k, 1) /\ spent' = [spent EXCEPT ![today] = @ + 1]
      /\ used' = [used EXCEPT ![today][k] = @ + 1]
      /\ today' = today /\ pc[t] = "idle" /\ pc' = [pc EXCEPT ![t] = "reserved"]
      /\ caller' = [caller EXCEPT ![t] = c] /\ booked' = [booked EXCEPT ![t] = today]
  BY Zenon DEF Reserve, world, Goto
<1>2. k \in Key
  BY Zenon DEF Reserve, CanReserve, QuotaKey
<1>3. QuotaKey(caller'[t]) = k /\ \A u \in Thread \ {t} : QuotaKey(caller'[u]) = QuotaKey(caller[u])
  BY <1>1
<1>4. \A u \in Thread : QuotaKey(caller[u])' = QuotaKey(caller'[u])
  BY DEF QuotaKey
<1> HIDE DEF k
<1>5. /\ Total' = Total + 1 /\ Total \in Nat
      /\ \A j \in Key : /\ Counted(j) \in Nat
                        /\ Counted(j)' = IF j = k THEN Counted(j) + 1 ELSE Counted(j)
  BY <1>1, BookCounts
<1>6. \A d \in Day : /\ spent'[d] = IF d = today THEN spent[d] + 1 ELSE spent[d]
                     /\ \A j \in Key : used'[d][j] = IF d = today /\ j = k THEN used[d][j] + 1 ELSE used[d][j]
  BY <1>1, <1>2
<1>7. \A d \in Day : /\ spent[d] \in Int /\ \A j \in Key : used[d][j] \in Int
  OBVIOUS
<1>8. CountedSpent'
  BY <1>1, <1>5, <1>6, <1>7 DEF CountedSpent
<1>9. \A d \in Day : Standing(d)' = IF d = today THEN Standing(d) \cup {t} ELSE Standing(d)
  BY <1>1 DEF Standing, Holds
<1>10. \A d \in Day, j \in Key :
         StandingUnder(d, j)' = IF d = today /\ j = k THEN StandingUnder(d, j) \cup {t} ELSE StandingUnder(d, j)
  <2>1. \A d \in Day : t \notin Standing(d)
    BY <1>1 DEF Standing, Holds
  <2>2. \A d \in Day, j \in Key : StandingUnder(d, j)' = {u \in Standing(d)' : QuotaKey(caller'[u]) = j}
    BY <1>4 DEF StandingUnder, Standing
  <2>3. \A d \in Day : Standing(d) \subseteq Thread
    BY DEF Standing
  <2> QED
    BY <1>3, <1>9, <2>1, <2>2, <2>3 DEF StandingUnder
<1>11. \A u \in Thread : Holds(u)' => QuotaKey(caller[u])' \in Key
  BY <1>1, <1>2, <1>3, <1>4 DEF HoldersCovered, Holds
<1>12. ASSUME NEW d \in Day PROVE Covers(spent'[d], Standing(d)')
  <2>1. Covers(spent[d], Standing(d)) /\ spent[d] \in Int
    BY <1>7 DEF HoldersCovered
  <2>2. Covers(spent[d] + 1, Standing(d) \cup {t})
    BY <2>1, CoverMoves
  <2> QED
    BY <1>6, <1>9, <2>1, <2>2
<1>13. ASSUME NEW d \in Day, NEW j \in Key PROVE Covers(used'[d][j], StandingUnder(d, j)')
  <2>1. Covers(used[d][j], StandingUnder(d, j)) /\ used[d][j] \in Int
    BY <1>7 DEF HoldersCovered
  <2>2. Covers(used[d][j] + 1, StandingUnder(d, j) \cup {t})
    BY <2>1, CoverMoves
  <2> QED
    BY <1>6, <1>10, <2>1, <2>2
<1>14. HoldersCovered'
  BY <1>11, <1>12, <1>13 DEF HoldersCovered, Covers
<1> QED
  BY <1>8, <1>14

\* A reservation handed back removes its thread from the holders, and its
\* ledger was above zero: the counters fall at most as far as the ledger.
LEMMA ReleaseLeak ==
  ASSUME CircuitInv, LeakInv, NEW t \in Thread, NEW step \in Steps \ {"reserved", "refund", "kanana"},
         Release(t), Handed(t), Goto(t, step), Holds(t), UNCHANGED <<caller, booked, world>>
  PROVE  LeakInv'
<1> DEFINE k == QuotaKey(caller[t])
           b == booked[t]
<1> USE DEF CircuitInv, Budget, Calls, LeakInv
<1>1. /\ Book(k, -1) /\ spent' = [spent EXCEPT ![b] = @ - 1]
      /\ used' = [used EXCEPT ![b][k] = @ - 1]
      /\ today' = today /\ pc' = [pc EXCEPT ![t] = step] /\ caller' = caller /\ booked' = booked
  BY Zenon DEF Release, Handed, world, Goto
<1>2. b \in Day /\ k \in Key /\ t \in StandingUnder(b, k) /\ t \in Standing(b)
  BY DEF HoldersCovered, Standing, StandingUnder
<1>3. \A d \in Day : Standing(d)' = IF d = b THEN Standing(d) \ {t} ELSE Standing(d)
  BY <1>1 DEF Standing, Holds
<1>4. \A d \in Day, j \in Key :
        StandingUnder(d, j)' = IF d = b /\ j = k THEN StandingUnder(d, j) \ {t} ELSE StandingUnder(d, j)
  <2>1. \A u \in Thread : QuotaKey(caller[u])' = QuotaKey(caller[u])
    BY <1>1 DEF QuotaKey
  <2>2. \A d \in Day, j \in Key : StandingUnder(d, j)' = {u \in Standing(d)' : QuotaKey(caller[u]) = j}
    BY <2>1 DEF StandingUnder, Standing
  <2>3. \A d \in Day : t \in Standing(d) => d = b
    BY DEF Standing
  <2> QED
    BY <1>3, <2>2, <2>3 DEF StandingUnder
<1>5. \A u \in Thread : Holds(u)' => QuotaKey(caller[u])' \in Key
  BY <1>1 DEF HoldersCovered, Holds, QuotaKey
<1> HIDE DEF k, b
<1>6. /\ Total \in Nat /\ Total' = IF Total >= 1 THEN Total - 1 ELSE Total
      /\ \A j \in Key : /\ Counted(j) \in Nat
                        /\ Counted(j)' = IF j = k /\ Counted(j) >= 1 THEN Counted(j) - 1 ELSE Counted(j)
  BY <1>1, BookCounts
<1>7. \A d \in Day : /\ spent'[d] = IF d = b THEN spent[d] - 1 ELSE spent[d]
                     /\ \A j \in Key : used'[d][j] = IF d = b /\ j = k THEN used[d][j] - 1 ELSE used[d][j]
  BY <1>1, <1>2
<1>8. \A d \in Day : /\ spent[d] \in Int /\ \A j \in Key : used[d][j] \in Int
  OBVIOUS
<1>9. spent[b] >= 1 /\ used[b][k] >= 1
  BY <1>2, <1>8, CoverMoves DEF HoldersCovered
<1>10. CountedSpent'
  <2>0. today \in Day /\ Total <= spent[today] /\ \A j \in Key : Counted(j) <= used[today][j]
    BY DEF CountedSpent
  <2> HIDE DEF CircuitInv, Budget, Calls, LeakInv
  <2>1. Total' <= spent'[today]
    <3>1. spent'[today] = IF today = b THEN spent[today] - 1 ELSE spent[today]
      BY <1>7, <2>0
    <3>2. spent[today] \in Int /\ (today = b => spent[today] >= 1)
      BY <1>8, <1>9, <2>0
    <3> QED
      BY <1>6, <2>0, <3>1, <3>2
  <2>2. ASSUME NEW j \in Key PROVE Counted(j)' <= used'[today][j]
    <3>1. used'[today][j] = IF today = b /\ j = k THEN used[today][j] - 1 ELSE used[today][j]
      BY <1>7, <2>0
    <3>2. used[today][j] \in Int /\ (today = b /\ j = k => used[today][j] >= 1)
      BY <1>8, <1>9, <2>0
    <3> QED
      BY <1>6, <2>0, <3>1, <3>2
  <2> QED
    BY <1>1, <2>1, <2>2 DEF CountedSpent
<1>11. ASSUME NEW d \in Day PROVE Covers(spent'[d], Standing(d)')
  <2>1. Covers(spent[d], Standing(d)) /\ spent[d] \in Int
    BY <1>8 DEF HoldersCovered
  <2>2. t \in Standing(d) => Covers(spent[d] - 1, Standing(d) \ {t})
    BY <2>1, CoverMoves
  <2> QED
    BY <1>2, <1>3, <1>7, <2>1, <2>2
<1>12. ASSUME NEW d \in Day, NEW j \in Key PROVE Covers(used'[d][j], StandingUnder(d, j)')
  <2>1. Covers(used[d][j], StandingUnder(d, j)) /\ used[d][j] \in Int
    BY <1>8 DEF HoldersCovered
  <2>2. t \in StandingUnder(d, j) => Covers(used[d][j] - 1, StandingUnder(d, j) \ {t})
    BY <2>1, CoverMoves
  <2> QED
    BY <1>2, <1>4, <1>7, <2>1, <2>2
<1>13. HoldersCovered'
  BY <1>5, <1>11, <1>12 DEF HoldersCovered, Covers
<1> QED
  BY <1>10, <1>13

\* A step that books nothing and lets a thread move, but not into a
\* reservation, keeps the holders covered: at most it takes one away.
LEMMA QuietHolders ==
  ASSUME CircuitInv, HoldersCovered, UNCHANGED <<caller, booked, spent, used>>,
         \A t \in Thread : Holds(t)' => Holds(t)
  PROVE  HoldersCovered'
<1>1. \A t \in Thread : QuotaKey(caller[t])' = QuotaKey(caller[t])
  BY DEF QuotaKey
<1>2. \A d \in Day : Standing(d)' \subseteq Standing(d)
  BY DEF Standing
<1>3. \A d \in Day, k \in Key : StandingUnder(d, k)' \subseteq StandingUnder(d, k)
  BY <1>1, <1>2 DEF StandingUnder, Standing
<1>4. ASSUME NEW S, NEW R, NEW n \in Int, R \subseteq S, Covers(n, S)
      PROVE  Covers(n, R)
  <2>1. IsFiniteSet(R) /\ Cardinality(R) <= Cardinality(S)
    BY <1>4, FS_Subset DEF Covers
  <2>2. Cardinality(R) \in Nat /\ Cardinality(S) \in Nat
    BY <1>4, <2>1, FS_CardinalityType DEF Covers
  <2> QED
    BY <1>4, <2>1, <2>2 DEF Covers
<1>5. \A d \in Day : /\ spent[d] \in Int /\ \A k \in Key : used[d][k] \in Int
  BY DEF CircuitInv, Budget
<1>6. ASSUME NEW d \in Day PROVE Covers(spent'[d], Standing(d)')
  BY <1>2, <1>4, <1>5 DEF HoldersCovered
<1>7. ASSUME NEW d \in Day, NEW k \in Key PROVE Covers(used'[d][k], StandingUnder(d, k)')
  BY <1>3, <1>4, <1>5 DEF HoldersCovered
<1> QED
  BY <1>1, <1>6, <1>7 DEF HoldersCovered, Covers

\* Every step keeps the ledger above the counters.
LEMMA NextLeakInv ==
  ASSUME CircuitInv, BudgetInv, LeakInv, [Next]_vars
  PROVE  LeakInv'
<1>1. ASSUME NEW t \in Thread, NEW c \in Caller, Reserve(t, c)
      PROVE  LeakInv'
  BY <1>1, ReserveLeak
<1>2. ASSUME NEW t \in Thread, Refund(t) \/ KananaUnset(t)
      PROVE  LeakInv'
  <2>1. Release(t) /\ Handed(t) /\ Holds(t) /\ UNCHANGED <<caller, booked, world>>
    BY <1>2 DEF Refund, KananaUnset, Holds
  <2>2. PICK step \in {"idle", "fallback", "unset"} : Goto(t, step)
    BY <1>2 DEF Refund, KananaUnset, Overflows
  <2> QED
    BY <2>1, <2>2, ReleaseLeak DEF Steps
<1>3. ASSUME UNCHANGED <<budget, today, ledger>>
      PROVE  CountedSpent'
  BY <1>3 DEF LeakInv, CountedSpent, Total, Counted, budget, ledger
<1>4. ASSUME NEW t \in Thread, NEW c \in Caller, Denied(t, c)
      PROVE  LeakInv'
  <2>1. /\ Book(NoKey, 0) /\ UNCHANGED <<today, spent, used, caller, booked>>
    BY <1>4, Zenon DEF Denied, world, ledger
  <2>2. PICK step \in {"idle", "fallback"} : pc' = [pc EXCEPT ![t] = step]
    BY <1>4 DEF Denied, Overflows, Goto
  <2>3. \A u \in Thread : Holds(u)' => Holds(u)
    BY <2>2 DEF Holds, CircuitInv, Calls
  <2>4. Total' = Total /\ \A j \in Key : Counted(j)' = Counted(j)
    BY <2>1, BookCounts DEF CircuitInv
  <2> QED
    BY <2>1, <2>3, <2>4, QuietHolders DEF LeakInv, CountedSpent
<1>5. ASSUME NEW t \in Thread,
             \/ KananaAdmitted(t) \/ KananaRefused(t) \/ KananaAnswers(t) \/ KananaFails(t)
             \/ ModeBCall(t) \/ GptRefused(t) \/ GptAdmitted(t) \/ GptSettles(t)
      PROVE  LeakInv'
  <2>1. UNCHANGED <<budget, today, ledger, caller, booked>>
    BY <1>5, Zenon DEF KananaAdmitted, KananaRefused, KananaAnswers, KananaFails, ModeBCall, GptRefused,
                       GptAdmitted, GptSettles, world
  <2>2. PICK step : /\ pc' = [pc EXCEPT ![t] = step]
                    /\ Holds(t) \/ step \notin {"reserved", "refund", "kanana"}
    BY <1>5 DEF KananaAdmitted, KananaRefused, KananaAnswers, KananaFails, ModeBCall, GptRefused,
                GptAdmitted, GptSettles, Goto, Overflows, Holds
  <2>3. \A u \in Thread : Holds(u)' => Holds(u)
    BY <2>2 DEF Holds, CircuitInv, Calls
  <2> QED
    BY <1>3, <2>1, <2>3, QuietHolders DEF LeakInv, ledger
<1>6. CASE Midnight
  <2>1. today' = today + 1 /\ UNCHANGED <<resetDay, total, counts, spent, used, pc, caller, booked>>
    BY <1>6, Zenon DEF Midnight, budget, ledger
  <2>2. today' \in Day /\ resetDay # today'
    BY <1>6, ConstantsAssumption DEF Midnight, budget, BudgetInv, WithinLimits, CircuitInv, Budget, Day
  <2>3. Total' = 0 /\ \A j \in Key : Counted(j)' = 0
    BY <2>1, <2>2 DEF Total, Counted
  <2>4. spent[today'] >= 0 /\ \A k \in Key : used[today'][k] >= 0
    BY <2>2, CoverMoves DEF LeakInv, HoldersCovered, CircuitInv, Budget
  <2>5. HoldersCovered'
    BY <2>1, QuietHolders DEF LeakInv, Holds
  <2> QED
    BY <2>1, <2>3, <2>4, <2>5 DEF LeakInv, CountedSpent
<1>7. ASSUME UNCHANGED <<budget, pc, caller, booked, world, ledger>>
      PROVE  LeakInv'
  <2>1. UNCHANGED <<budget, today, spent, used, ledger, caller, booked>> /\ \A t \in Thread : Holds(t)' => Holds(t)
    BY <1>7, Zenon DEF Holds, world, ledger
  <2> QED
    BY <1>3, <2>1, QuietHolders DEF LeakInv
<1>8. ASSUME NEW p \in Provider, Tick(p)
      PROVE  LeakInv'
  BY <1>7, <1>8, Zenon DEF Tick
<1>9. CASE UNCHANGED vars
  BY <1>7, <1>9, Zenon DEF vars
<1> QED
  BY <1>1, <1>2, <1>4, <1>5, <1>6, <1>8, <1>9, Zenon DEF Next, Step

\* A call that was not made costs no budget: the counters of the day never
\* exceed the reservations that stand.
THEOREM CallsNotMadeAreFree == Spec => []NothingLeaks
<1>1. Spec => [](CircuitInv /\ BudgetInv /\ LeakInv)
  BY InitCircuitInv, NextCircuitInv, InitBudgetInv, NextBudgetInv, InitLeakInv, NextLeakInv, PTL DEF Spec
<1>2. LeakInv => NothingLeaks
  BY DEF LeakInv, CountedSpent, NothingLeaks, Total, Counted
<1> QED
  BY <1>1, <1>2, PTL
=============================================================================
