---------------------------- MODULE KisRestProofs ----------------------------
(***************************************************************************)
(* Proofs about KisRest, for any number of threads and orders and any      *)
(* threshold, cooldown and retry limit: its types, the circuit invariants, *)
(* what callers are told about orders, and that the circuit implements     *)
(* CircuitBreaker.                                                         *)
(***************************************************************************)
EXTENDS KisRest, TLAPS

(***************************************************************************)
(* The circuit.  A thread in flight has an attempt to its name and holds   *)
(* an answer once it has one.                                              *)
(***************************************************************************)
ThreadsOK ==
  \A t \in Thread : /\ pc[t] # "idle" => attempt[t] \in 1 .. MaxRetries
                    /\ pc[t] = "answered" => answer[t] \in Answers
                    /\ pc[t] # "answered" => answer[t] = "none"

CircuitInv == TypeOK /\ ThreadsOK /\ ProbeHeld /\ OpenIffThreshold

\* The initial states have their types and a closed circuit.
LEMMA InitCircuitInv == Init => CircuitInv
<1> USE ConstantsAssumption
<1> SUFFICES ASSUME Init PROVE CircuitInv
  OBVIOUS
<1>1. TypeOK
  <2>1. failures \in 0 .. Threshold /\ remaining \in 0 .. OpenDuration
    BY DEF Init
  <2>2. attempt \in [Thread -> 0 .. MaxRetries] /\ accepted \in [Order -> Nat] /\ lost \in [Order -> Nat]
    BY DEF Init
  <2>3. /\ opened \in BOOLEAN /\ probing \in BOOLEAN /\ healthy \in BOOLEAN
        /\ probe \in [Thread -> BOOLEAN]
    BY DEF Init
  <2>4. /\ pc \in [Thread -> {"idle", "sending", "answered"}] /\ job \in [Thread -> Job]
        /\ answer \in [Thread -> Answers \cup {"none"}] /\ result \in [Order -> Results]
    BY DEF Init, Job, Results
  <2> QED
    BY <2>1, <2>2, <2>3, <2>4 DEF TypeOK
<1>2. ThreadsOK
  BY DEF Init, ThreadsOK
<1>3. ProbeHeld /\ OpenIffThreshold
  BY DEF Init, ProbeHeld, OpenIffThreshold
<1> QED
  BY <1>1, <1>2, <1>3 DEF CircuitInv

\* Sending an attempt touches no more than the thread's answer and the server.
LEMMA SendTypes ==
  ASSUME TypeOK, NEW t \in Thread, Send(t)
  PROVE  /\ \E a \in Answers : answer' = [answer EXCEPT ![t] = a]
         /\ accepted' \in [Order -> Nat] /\ lost' \in [Order -> Nat]
<1> USE DEF TypeOK, Job
<1>1. PICK a \in Answers, taken \in BOOLEAN :
        /\ taken => job[t] \in Order
        /\ answer' = [answer EXCEPT ![t] = a]
        /\ accepted' = IF taken THEN [accepted EXCEPT ![job[t]] = @ + 1] ELSE accepted
        /\ lost' = IF job[t] \in Order /\ a = "lost" THEN [lost EXCEPT ![job[t]] = @ + 1] ELSE lost
  BY DEF Send
<1>2. accepted' \in [Order -> Nat]
  BY <1>1
<1>3. lost' \in [Order -> Nat]
  BY <1>1
<1> QED
  BY <1>1, <1>2, <1>3

\* What an order is reported as is one of the results.
LEMMA ReturnsTypes ==
  ASSUME TypeOK, NEW t \in Thread, NEW how \in Results, Returns(t, how)
  PROVE  result' \in [Order -> Results]
BY DEF TypeOK, Returns

\* A call that ends leaves its thread with nothing.
LEMMA EndsTypes ==
  ASSUME TypeOK, NEW t \in Thread, Ends(t)
  PROVE  /\ pc' \in [Thread -> {"idle", "sending", "answered"}]
         /\ job' \in [Thread -> Job] /\ attempt' \in [Thread -> 0 .. MaxRetries]
         /\ answer' \in [Thread -> Answers \cup {"none"}] /\ probe' \in [Thread -> BOOLEAN]
<1> USE ConstantsAssumption DEF TypeOK, Ends
<1>1. pc' \in [Thread -> {"idle", "sending", "answered"}]
  OBVIOUS
<1>2. job' \in [Thread -> Job] /\ attempt' \in [Thread -> 0 .. MaxRetries]
  BY DEF Job
<1>3. answer' \in [Thread -> Answers \cup {"none"}] /\ probe' \in [Thread -> BOOLEAN]
  OBVIOUS
<1> QED
  BY <1>1, <1>2, <1>3

\* Every step keeps the circuit invariant.
LEMMA NextCircuitInv ==
  ASSUME CircuitInv, [Next]_vars
  PROVE  CircuitInv'
<1> USE ConstantsAssumption
<1> USE DEF CircuitInv, TypeOK, ThreadsOK, ProbeHeld, OpenIffThreshold, InFlight, Job, Ends,
            circuit, threads, server
<1>1. ASSUME NEW t \in Thread, NEW j \in Job, Call(t, j)
      PROVE  CircuitInv'
  BY <1>1, SMTT(30) DEF Call, CircuitRefuses, Answers
<1>2. ASSUME NEW o \in Order, CallRefused(o)
      PROVE  CircuitInv'
  BY <1>2, SMTT(30) DEF CallRefused, Results
<1>3. ASSUME NEW t \in Thread, Send(t)
      PROVE  CircuitInv'
  <2>1. PICK a \in Answers : answer' = [answer EXCEPT ![t] = a]
    BY <1>3, SendTypes
  <2>2. pc' = [pc EXCEPT ![t] = "answered"] /\ pc[t] = "sending"
        /\ UNCHANGED <<circuit, job, attempt, probe, healthy, result>>
    BY <1>3 DEF Send
  <2>3. TypeOK'
    BY <2>1, <2>2, <1>3, SendTypes, SMTT(30)
  <2>4. ThreadsOK'
    BY <2>1, <2>2, SMTT(30) DEF Answers
  <2>5. ProbeHeld' /\ OpenIffThreshold'
    BY <2>2, SMTT(30)
  <2> QED
    BY <2>3, <2>4, <2>5
<1>4. ASSUME NEW t \in Thread, Succeeds(t)
      PROVE  CircuitInv'
  <2>1. result' \in [Order -> Results]
    BY <1>4, ReturnsTypes DEF Succeeds, Results
  <2>2. TypeOK'
    <3>1. failures' \in 0 .. Threshold /\ remaining' \in 0 .. OpenDuration
      BY <1>4 DEF Succeeds
    <3>2. opened' \in BOOLEAN /\ probing' \in BOOLEAN
      BY <1>4 DEF Succeeds
    <3> QED
      BY <1>4, <2>1, <3>1, <3>2, EndsTypes DEF Succeeds
  <2>3. ThreadsOK'
    BY <1>4, SMTT(30) DEF Succeeds, Answers
  <2>4. ProbeHeld' /\ OpenIffThreshold'
    BY <1>4, SMTT(30) DEF Succeeds
  <2> QED
    BY <2>2, <2>3, <2>4
<1>5. ASSUME NEW t \in Thread, ClientError(t)
      PROVE  CircuitInv'
  <2>1. result' \in [Order -> Results]
    BY <1>5, ReturnsTypes DEF ClientError, Results
  <2>2. TypeOK'
    BY <1>5, <2>1, EndsTypes DEF ClientError
  <2>3. ThreadsOK'
    BY <1>5, SMTT(30) DEF ClientError, Answers
  <2>4. ProbeHeld' /\ OpenIffThreshold'
    BY <1>5, SMTT(30) DEF ClientError
  <2> QED
    BY <2>2, <2>3, <2>4
<1>6. ASSUME NEW t \in Thread, Retries(t)
      PROVE  CircuitInv'
  BY <1>6, SMTT(30) DEF Retries, Answers
<1>7. ASSUME NEW t \in Thread, Fails(t)
      PROVE  CircuitInv'
  <2>1. result' \in [Order -> Results]
    BY <1>7, ReturnsTypes DEF Fails, Results
  <2>2. TypeOK'
    <3>1. failures' \in 0 .. Threshold /\ remaining' \in 0 .. OpenDuration
      BY <1>7 DEF Fails
    <3>2. opened' \in BOOLEAN /\ probing' \in BOOLEAN
      BY <1>7, Zenon DEF Fails
    <3> QED
      BY <1>7, <2>1, <3>1, <3>2, EndsTypes DEF Fails
  <2>3. ThreadsOK'
    BY <1>7, SMTT(30) DEF Fails, Answers
  <2>4. ProbeHeld' /\ OpenIffThreshold'
    BY <1>7, Zenon DEF Fails
  <2> QED
    BY <2>2, <2>3, <2>4
<1>8. CASE Tick
  BY <1>8, SMTT(30) DEF Tick
<1>9. CASE ServerTurns
  BY <1>9, SMTT(30) DEF ServerTurns
<1>10. CASE UNCHANGED vars
  BY <1>10, SMTT(30) DEF vars
<1> QED
  BY <1>1, <1>2, <1>3, <1>4, <1>5, <1>6, <1>7, <1>8, <1>9, <1>10 DEF Next, Step

\* The invariant of the circuit, with its three named parts.
THEOREM CircuitCorrect == Spec => [](TypeOK /\ ProbeHeld /\ OpenIffThreshold)
<1>1. Spec => []CircuitInv
  BY InitCircuitInv, NextCircuitInv, PTL DEF Spec
<1>2. CircuitInv => TypeOK /\ ProbeHeld /\ OpenIffThreshold
  BY DEF CircuitInv
<1> QED
  BY <1>1, <1>2, PTL

-----------------------------------------------------------------------------
(***************************************************************************)
(* Orders.  An order is with at most one thread, has no result while it    *)
(* is, and the server cannot have taken it more often than answers were    *)
(* lost, but for an answer that arrived and is about to be returned.       *)
(***************************************************************************)
OneThread ==
  \A t, u \in InFlight : job[t] = job[u] /\ job[t] \in Order => t = u

StillNew == \A t \in InFlight : job[t] \in Order => result[job[t]] = "new"

Ledger ==
  /\ \A o \in Order : Fresh(o) => accepted[o] = 0 /\ lost[o] = 0
  /\ \A t \in InFlight : job[t] \in Order =>
       IF answer[t] = "ok" THEN accepted[job[t]] >= 1 /\ accepted[job[t]] <= lost[job[t]] + 1
       ELSE accepted[job[t]] <= lost[job[t]]

OrderInv == OneThread /\ StillNew /\ Ledger /\ DuplicateOnlyIfLost /\ ReportedRight

\* No order has been submitted in the initial states.
LEMMA InitOrderInv == Init => OrderInv
BY DEF Init, OrderInv, OneThread, StillNew, Ledger, DuplicateOnlyIfLost, ReportedRight, InFlight, Fresh

\* Every step keeps the books of every order.
LEMMA NextOrderInv ==
  ASSUME CircuitInv, OrderInv, [Next]_vars
  PROVE  OrderInv'
<1> USE ConstantsAssumption
<1> USE DEF CircuitInv, TypeOK, ThreadsOK, OrderInv, OneThread, StillNew, Ledger, DuplicateOnlyIfLost,
            ReportedRight, InFlight, Fresh, Job, Ends, Returns, circuit, threads, server
<1>1. ASSUME NEW t \in Thread, NEW j \in Job, Call(t, j)
      PROVE  OrderInv'
  BY <1>1, SMTT(30) DEF Call
<1>2. ASSUME NEW o \in Order, CallRefused(o)
      PROVE  OrderInv'
  BY <1>2, SMTT(30) DEF CallRefused
<1>3. ASSUME NEW t \in Thread, Send(t)
      PROVE  OrderInv'
  BY <1>3, SMTT(30) DEF Send
<1>4. ASSUME NEW t \in Thread, Succeeds(t)
      PROVE  OrderInv'
  BY <1>4, SMTT(30) DEF Succeeds
<1>5. ASSUME NEW t \in Thread, ClientError(t)
      PROVE  OrderInv'
  BY <1>5, SMTT(30) DEF ClientError
<1>6. ASSUME NEW t \in Thread, Retries(t)
      PROVE  OrderInv'
  BY <1>6, SMTT(30) DEF Retries
<1>7. ASSUME NEW t \in Thread, Fails(t)
      PROVE  OrderInv'
  BY <1>7, SMTT(30) DEF Fails
<1>8. CASE Tick
  BY <1>8 DEF Tick
<1>9. CASE ServerTurns
  BY <1>9 DEF ServerTurns
<1>10. CASE UNCHANGED vars
  BY <1>10 DEF vars
<1> QED
  BY <1>1, <1>2, <1>3, <1>4, <1>5, <1>6, <1>7, <1>8, <1>9, <1>10 DEF Next, Step

\* What a caller is told about an order, and when an order is duplicated.
THEOREM OrdersCorrect == Spec => [](DuplicateOnlyIfLost /\ ReportedRight)
<1>1. Spec => [](CircuitInv /\ OrderInv)
  BY InitCircuitInv, NextCircuitInv, InitOrderInv, NextOrderInv, PTL DEF Spec
<1>2. OrderInv => DuplicateOnlyIfLost /\ ReportedRight
  BY DEF OrderInv
<1> QED
  BY <1>1, <1>2, PTL

\* An order reported as refused by the circuit never reached the server, and a
\* rejected one only through an attempt whose answer was lost.
THEOREM ReportsRight == Spec => []ReportedRight
BY OrdersCorrect, PTL

-----------------------------------------------------------------------------
(***************************************************************************)
(* The circuit implements the breaker its callers rely on: every step is a *)
(* step of CircuitBreaker or leaves it alone.                              *)
(***************************************************************************)
THEOREM ImplementsBreaker == Spec => BreakerSpec
<1>1. Init => Breaker!Init
  BY DEF Init, Breaker!Init, InFlight
<1>2. ASSUME CircuitInv, [Next]_vars
      PROVE  [Breaker!Next]_(Breaker!bvars)
  <2> USE ConstantsAssumption DEF InFlight, circuit, threads, server, Breaker!bvars
  <2>1. ASSUME NEW t \in Thread, NEW j \in Job, Call(t, j)
        PROVE  Breaker!Admit(t)
    BY <1>2, <2>1, SMTT(30) DEF Call, CircuitRefuses, CircuitInv, TypeOK, Breaker!Admit
  <2>2. ASSUME NEW t \in Thread, Succeeds(t)
        PROVE  Breaker!Succeed(t)
    BY <1>2, <2>2, SMTT(30) DEF Succeeds, Ends, CircuitInv, TypeOK, Breaker!Succeed
  <2>3. ASSUME NEW t \in Thread, ClientError(t) \/ Fails(t)
        PROVE  Breaker!Fail(t)
    BY <1>2, <2>3, SMTT(30) DEF ClientError, Fails, Ends, CircuitInv, TypeOK, OpenIffThreshold, ProbeHeld, Breaker!Fail
  <2>4. ASSUME NEW t \in Thread, Send(t) \/ Retries(t)
        PROVE  UNCHANGED Breaker!bvars
    BY <1>2, <2>4, SMTT(30) DEF Send, Retries, CircuitInv, TypeOK
  <2>5. CASE Tick
    <3>1. opened /\ ~probing /\ remaining \in Nat /\ remaining > 0
      BY <1>2, <2>5 DEF Tick, CircuitInv, TypeOK, ProbeHeld
    <3>2. remaining' = remaining - 1 /\ UNCHANGED <<opened, probing, pc>>
      BY <2>5 DEF Tick
    <3>3. CASE remaining = 1
      BY <3>1, <3>2, <3>3 DEF Breaker!Cool, Breaker!Next
    <3>4. CASE remaining > 1
      BY <3>1, <3>2, <3>4
    <3> QED
      BY <3>1, <3>3, <3>4
  <2>6. CASE (\E o \in Order : CallRefused(o)) \/ ServerTurns \/ UNCHANGED vars
    BY <2>6 DEF CallRefused, ServerTurns, vars
  <2> QED
    BY <1>2, <2>1, <2>2, <2>3, <2>4, <2>5, <2>6 DEF Next, Step, Breaker!Next
<1>3. Spec => []CircuitInv
  BY InitCircuitInv, NextCircuitInv, PTL DEF Spec
<1> QED
  BY <1>1, <1>2, <1>3, PTL DEF Spec, BreakerSpec, Breaker!Spec

\* What any breaker promises, by its own steps alone.
LEMMA BreakerNeverLocks == Breaker!Spec => []Breaker!NoLockOut /\ Breaker!OneProbe
<1> DEFINE Mode == IF ~opened THEN "closed" ELSE IF probing THEN "probing" ELSE "open"
           Cooling == opened /\ remaining > 0
<1>1. Breaker!Init => Breaker!NoLockOut
  BY DEF Breaker!Init, Breaker!NoLockOut
<1>2. ASSUME Breaker!NoLockOut, [Breaker!Next]_(Breaker!bvars)
      PROVE  /\ Breaker!NoLockOut'
             /\ [Mode = "probing" => InFlight' \subseteq InFlight]_(Breaker!bvars)
  <2>1. ASSUME NEW t \in Thread, Breaker!Admit(t)
        PROVE  Breaker!NoLockOut' /\ Mode # "probing"
    BY <1>2, <2>1 DEF Breaker!Admit, Breaker!NoLockOut
  <2>2. ASSUME NEW t \in Thread, Breaker!Succeed(t)
        PROVE  Breaker!NoLockOut' /\ InFlight' \subseteq InFlight
    BY <1>2, <2>2 DEF Breaker!Succeed, Breaker!NoLockOut
  <2>3. ASSUME NEW t \in Thread, Breaker!Fail(t)
        PROVE  Breaker!NoLockOut' /\ InFlight' \subseteq InFlight
    BY <1>2, <2>3 DEF Breaker!Fail, Breaker!NoLockOut
  <2>4. CASE Breaker!Cool
    BY <1>2, <2>4 DEF Breaker!Cool, Breaker!NoLockOut
  <2>5. CASE UNCHANGED Breaker!bvars
    BY <1>2, <2>5 DEF Breaker!bvars, Breaker!NoLockOut
  <2> QED
    BY <1>2, <2>1, <2>2, <2>3, <2>4, <2>5 DEF Breaker!Next
<1> QED
  BY <1>1, <1>2, PTL DEF Breaker!Spec, Breaker!OneProbe

\* The connection to the broker is never locked: while its circuit probes, a
\* call that will end the probing is in flight and nobody else is let in.
THEOREM NeverLockedOut == Spec => []Breaker!NoLockOut /\ Breaker!OneProbe
BY ImplementsBreaker, BreakerNeverLocks, PTL DEF BreakerSpec

-----------------------------------------------------------------------------
(***************************************************************************)
(* Bounds.  A call makes at most MaxRetries attempts, so the server takes  *)
(* an order at most that often; and every step of a call brings it closer  *)
(* to its end, which is what CallsEnd rests on besides fairness.           *)
(***************************************************************************)
TakenBound ==
  \A t \in InFlight : job[t] \in Order =>
    accepted[job[t]] <= IF pc[t] = "answered" THEN attempt[t] ELSE attempt[t] - 1

AtMostMaxRetries == \A o \in Order : accepted[o] <= MaxRetries

\* The attempts a call may still make, and the answer it may still await.
StepsLeft(t) ==
  IF pc[t] = "idle" THEN 0
  ELSE 2 * (MaxRetries - attempt[t]) + (IF pc[t] = "sending" THEN 2 ELSE 1)

\* A step of a call brings it closer to its end, and no other step of its
\* thread or of another moves it away.
CallsAdvance ==
  [][\A t \in Thread : pc[t] # "idle" =>
       IF Step(t) THEN StepsLeft(t)' < StepsLeft(t) ELSE StepsLeft(t)' = StepsLeft(t)]_vars

\* Every step keeps the bound of the submissions.
LEMMA NextTakenBound ==
  ASSUME CircuitInv, OrderInv, TakenBound, AtMostMaxRetries, [Next]_vars
  PROVE  TakenBound' /\ AtMostMaxRetries'
<1> USE ConstantsAssumption
<1> USE DEF CircuitInv, TypeOK, ThreadsOK, OrderInv, OneThread, Ledger, TakenBound, AtMostMaxRetries,
            InFlight, Fresh, Job, Ends, circuit, threads, server
<1>1. ASSUME NEW t \in Thread, NEW j \in Job, Call(t, j)
      PROVE  TakenBound' /\ AtMostMaxRetries'
  BY <1>1, SMTT(30) DEF Call
<1>2. ASSUME NEW t \in Thread, Send(t)
      PROVE  TakenBound' /\ AtMostMaxRetries'
  BY <1>2, SMTT(30) DEF Send
<1>3. ASSUME NEW t \in Thread, Succeeds(t) \/ ClientError(t) \/ Fails(t)
      PROVE  TakenBound' /\ AtMostMaxRetries'
  <2>1. /\ pc' = [pc EXCEPT ![t] = "idle"] /\ job' = [job EXCEPT ![t] = Quote]
        /\ attempt' = [attempt EXCEPT ![t] = 0] /\ UNCHANGED accepted
    BY <1>3, Zenon DEF Succeeds, ClientError, Fails, server, Ends
  <2> QED
    BY <2>1
<1>4. ASSUME NEW t \in Thread, Retries(t)
      PROVE  TakenBound' /\ AtMostMaxRetries'
  BY <1>4, SMTT(30) DEF Retries
<1>5. CASE (\E o \in Order : CallRefused(o)) \/ Tick \/ ServerTurns \/ UNCHANGED vars
  <2>1. UNCHANGED <<pc, job, attempt, accepted>>
    BY <1>5, Zenon DEF CallRefused, Tick, ServerTurns, vars, threads, server
  <2> QED
    BY <2>1
<1> QED
  BY <1>1, <1>2, <1>3, <1>4, <1>5 DEF Next, Step

\* The broker takes an order at most MaxRetries times, however many answers
\* are lost and whatever the other threads do to the circuit.
THEOREM SubmissionsBounded == Spec => []AtMostMaxRetries
<1>1. Init => TakenBound /\ AtMostMaxRetries
  BY ConstantsAssumption DEF Init, TakenBound, AtMostMaxRetries, InFlight
<1> QED
  BY <1>1, InitCircuitInv, NextCircuitInv, InitOrderInv, NextOrderInv, NextTakenBound, PTL DEF Spec

\* A call that goes on comes to its end within two steps per attempt: nothing
\* the server answers and nothing another thread does makes it longer.
THEOREM CallsAlwaysAdvance == Spec => CallsAdvance
<1> DEFINE Closer(t) ==
      IF Step(t) THEN StepsLeft(t)' < StepsLeft(t) ELSE StepsLeft(t)' = StepsLeft(t)
<1>1. ASSUME CircuitInv, [Next]_vars, NEW t \in Thread, pc[t] # "idle", ~UNCHANGED vars
      PROVE  Closer(t)
  <2>a. /\ pc \in [Thread -> {"idle", "sending", "answered"}]
        /\ attempt \in [Thread -> 0 .. MaxRetries] /\ MaxRetries \in Nat \ {0}
    BY <1>1, ConstantsAssumption DEF CircuitInv, TypeOK
  <2>1. CASE Send(t)
    <3>1. pc[t] = "sending" /\ pc'[t] = "answered" /\ attempt'[t] = attempt[t]
      BY <2>1, <2>a DEF Send
    <3> QED
      BY <3>1, <2>1, <2>a DEF StepsLeft, Step
  <2>2. CASE Retries(t)
    <3>1. /\ pc[t] = "answered" /\ pc'[t] = "sending" /\ attempt'[t] = attempt[t] + 1
          /\ attempt[t] < MaxRetries
      BY <2>2, <2>a DEF Retries
    <3> QED
      BY <3>1, <2>2, <2>a DEF StepsLeft, Step
  <2>3. CASE Succeeds(t) \/ ClientError(t) \/ Fails(t)
    <3>1. pc[t] = "answered" /\ pc'[t] = "idle"
      BY <2>3, <2>a DEF Succeeds, ClientError, Fails, Ends
    <3> QED
      BY <3>1, <2>3, <2>a DEF StepsLeft, Step
  <2>4. ASSUME NEW u \in Thread, u # t, \/ Step(u) \/ \E j \in Job : Call(u, j)
        PROVE  pc'[t] = pc[t] /\ attempt'[t] = attempt[t]
    BY <2>4, <2>a, SMTT(30) DEF Call, Step, Send, Succeeds, ClientError, Retries, Fails, Ends
  <2>5. ASSUME (\E o \in Order : CallRefused(o)) \/ Tick \/ ServerTurns
        PROVE  pc'[t] = pc[t] /\ attempt'[t] = attempt[t]
    <3>1. pc' = pc /\ attempt' = attempt
      BY <2>5, Zenon DEF CallRefused, Tick, ServerTurns, threads
    <3> QED
      BY <3>1
  <2>6. ASSUME ~Step(t)
        PROVE  pc'[t] = pc[t] /\ attempt'[t] = attempt[t]
    <3>1. \A j \in Job : ~Call(t, j)
      BY <1>1 DEF Call
    <3>2. Next
      BY <1>1
    <3> QED
      BY <2>4, <2>5, <2>6, <3>1, <3>2 DEF Next
  <2>7. CASE ~Step(t)
    BY <2>6, <2>7 DEF StepsLeft
  <2> QED
    BY <2>1, <2>2, <2>3, <2>7 DEF Step
<1>2. CircuitInv /\ [Next]_vars => [\A t \in Thread : pc[t] # "idle" => Closer(t)]_vars
  BY <1>1
<1> QED
  BY <1>2, InitCircuitInv, NextCircuitInv, PTL DEF Spec, CallsAdvance

=============================================================================
