------------------------------- MODULE KisRest -------------------------------
(***************************************************************************)
(* The broker connection (connectors/kis_rest.py): one KISRestClient       *)
(* shared by several threads, its retries and its circuit breaker.         *)
(*                                                                         *)
(* A thread runs one call at a time: _check_circuit under the lock, then   *)
(* up to MaxRetries HTTP attempts outside it, then one of the two _record  *)
(* functions under the lock.  The KIS server is external: it answers an    *)
(* attempt, refuses it for good (a non-retryable msg_cd) or for now, or    *)
(* its answer is lost (timeout) after it did or did not take an order.     *)
(***************************************************************************)
EXTENDS Naturals

CONSTANTS
  Thread,       \* threads that share the client
  Order,        \* submit_order calls, each made once
  Quote,        \* any GET call
  Threshold,    \* circuit_breaker.failure_threshold
  OpenDuration, \* circuit_breaker.open_duration_sec, in ticks
  MaxRetries    \* attempts per call

ASSUME ConstantsAssumption ==
  /\ Threshold \in Nat \ {0} /\ MaxRetries \in Nat \ {0} /\ OpenDuration \in Nat \ {0}
  /\ Quote \notin Order

Job == Order \cup {Quote}

VARIABLES
  failures,  \* _circuit_consecutive_failures, up to Threshold
  opened,    \* _circuit_opened_at is set
  remaining, \* what is left of the cooldown
  probing,   \* _circuit_half_open_probe_in_flight
  pc,        \* per thread: idle, sending an attempt, or holding its answer
  job,       \* per thread: the call it runs
  attempt,   \* per thread: the attempt it is in
  answer,    \* per thread: what the attempt came back with
  healthy,   \* external: the server answers, and no quote is refused for good
  accepted,  \* external: how often the server took each order
  result,    \* what submit_order returned or raised
  probe,     \* history: the thread's call was admitted as a probe
  lost       \* history: answers to attempts of an order that were lost

circuit == <<failures, opened, remaining, probing>>
threads == <<pc, job, attempt, answer, probe>>
server  == <<accepted, lost>>
vars    == <<circuit, threads, healthy, server, result>>

Answers == {"ok", "client_error", "busy", "lost"}
Results == {"new", "refused", "submitted", "malformed", "rejected", "failed"}

Init ==
  /\ failures = 0 /\ opened = FALSE /\ remaining = 0 /\ probing = FALSE
  /\ pc = [t \in Thread |-> "idle"]
  /\ job = [t \in Thread |-> Quote]
  /\ attempt = [t \in Thread |-> 0]
  /\ answer = [t \in Thread |-> "none"]
  /\ probe = [t \in Thread |-> FALSE]
  /\ healthy = TRUE
  /\ accepted = [o \in Order |-> 0]
  /\ lost = [o \in Order |-> 0]
  /\ result = [o \in Order |-> "new"]

-----------------------------------------------------------------------------
InFlight == {t \in Thread : pc[t] # "idle"}

\* submit_order has not been called for o yet.
Fresh(o) == result[o] = "new" /\ \A t \in InFlight : job[t] # o

Returns(t, how) ==
  result' = IF job[t] \in Order THEN [result EXCEPT ![job[t]] = how] ELSE result

(***************************************************************************)
(* _check_circuit: under the lock.                                         *)
(***************************************************************************)
CircuitRefusesCooling ==  \* mutant: the probe flag is not looked at
  opened /\ remaining > 0

CircuitRefuses == opened /\ (remaining > 0 \/ probing)

\* The call is admitted, as the probe when the cooldown is over.
Call(t, j) ==
  /\ pc[t] = "idle"
  /\ j \in Order => Fresh(j)
  /\ ~CircuitRefuses
  /\ probing' = opened
  /\ probe' = [probe EXCEPT ![t] = opened]
  /\ pc' = [pc EXCEPT ![t] = "sending"]
  /\ job' = [job EXCEPT ![t] = j]
  /\ attempt' = [attempt EXCEPT ![t] = 1]
  /\ UNCHANGED <<failures, opened, remaining, answer, healthy, server, result>>

CallRefused(o) ==
  /\ CircuitRefuses
  /\ Fresh(o)
  /\ result' = [result EXCEPT ![o] = "refused"]
  /\ UNCHANGED <<circuit, threads, healthy, server>>

(***************************************************************************)
(* One HTTP attempt.  An order may be taken although its answer is lost.   *)
(***************************************************************************)
Send(t) ==
  /\ pc[t] = "sending"
  /\ \E a \in Answers, taken \in BOOLEAN :
       /\ healthy => a = "ok" \/ (a = "client_error" /\ job[t] \in Order)
       /\ taken => job[t] \in Order /\ a \in {"ok", "lost"}
       /\ a = "ok" /\ job[t] \in Order => taken
       /\ answer' = [answer EXCEPT ![t] = a]
       /\ accepted' = IF taken THEN [accepted EXCEPT ![job[t]] = @ + 1] ELSE accepted
       /\ lost' = IF job[t] \in Order /\ a = "lost" THEN [lost EXCEPT ![job[t]] = @ + 1] ELSE lost
  /\ pc' = [pc EXCEPT ![t] = "answered"]
  /\ UNCHANGED <<circuit, job, attempt, probe, healthy, result>>

(***************************************************************************)
(* What the thread does with the answer: record a success, record a client *)
(* error, try again, or record a failure.                                  *)
(***************************************************************************)
Ends(t) ==
  /\ pc' = [pc EXCEPT ![t] = "idle"]
  /\ job' = [job EXCEPT ![t] = Quote]
  /\ attempt' = [attempt EXCEPT ![t] = 0]
  /\ answer' = [answer EXCEPT ![t] = "none"]
  /\ probe' = [probe EXCEPT ![t] = FALSE]

\* _record_call_success; the body may still lack its output.
Succeeds(t) ==
  /\ pc[t] = "answered" /\ answer[t] = "ok"
  /\ failures' = 0 /\ opened' = FALSE /\ remaining' = 0 /\ probing' = FALSE
  /\ Ends(t)
  /\ Returns(t, "submitted") \/ Returns(t, "malformed")
  /\ UNCHANGED <<healthy, server>>

\* _record_call_failure of a non-retryable error: the server did answer, so
\* nothing is counted, but the probe permit is handed back.
ClientErrorKept(t) ==  \* mutant: the permit is kept
  /\ pc[t] = "answered" /\ answer[t] = "client_error"
  /\ Ends(t)
  /\ Returns(t, "rejected")
  /\ UNCHANGED <<circuit, healthy, server>>

ClientError(t) ==
  /\ pc[t] = "answered" /\ answer[t] = "client_error"
  /\ probing' = FALSE
  /\ Ends(t)
  /\ Returns(t, "rejected")
  /\ UNCHANGED <<failures, opened, remaining, healthy, server>>

RetriesUncounted(t) ==  \* mutant: the attempts are not counted
  /\ pc[t] = "answered" /\ answer[t] \in {"busy", "lost"} /\ attempt[t] < MaxRetries
  /\ pc' = [pc EXCEPT ![t] = "sending"]
  /\ answer' = [answer EXCEPT ![t] = "none"]
  /\ UNCHANGED <<circuit, job, attempt, probe, healthy, server, result>>

RetriesAny(t) ==  \* mutant: every answer is tried again
  /\ pc[t] = "answered" /\ attempt[t] < MaxRetries
  /\ attempt' = [attempt EXCEPT ![t] = @ + 1]
  /\ pc' = [pc EXCEPT ![t] = "sending"]
  /\ answer' = [answer EXCEPT ![t] = "none"]
  /\ UNCHANGED <<circuit, job, probe, healthy, server, result>>

Retries(t) ==
  /\ pc[t] = "answered" /\ answer[t] \in {"busy", "lost"} /\ attempt[t] < MaxRetries
  /\ attempt' = [attempt EXCEPT ![t] = @ + 1]
  /\ pc' = [pc EXCEPT ![t] = "sending"]
  /\ answer' = [answer EXCEPT ![t] = "none"]
  /\ UNCHANGED <<circuit, job, probe, healthy, server, result>>

\* _record_call_failure.  The counter only matters up to Threshold.
Fails(t) ==
  /\ pc[t] = "answered" /\ answer[t] \in {"busy", "lost"} /\ attempt[t] = MaxRetries
  /\ failures' = IF failures < Threshold THEN failures + 1 ELSE failures
  /\ opened' = (failures' = Threshold)
  /\ remaining' = IF failures' = Threshold THEN OpenDuration ELSE remaining
  /\ probing' = FALSE
  /\ Ends(t)
  /\ Returns(t, "failed")
  /\ UNCHANGED <<healthy, server>>

Tick ==
  /\ opened /\ remaining > 0
  /\ remaining' = remaining - 1
  /\ UNCHANGED <<failures, opened, probing, threads, healthy, server, result>>

\* External: the server goes down and comes back.
ServerTurns ==
  /\ healthy' = ~healthy
  /\ UNCHANGED <<circuit, threads, server, result>>

Step(t) == Send(t) \/ Succeeds(t) \/ ClientError(t) \/ Retries(t) \/ Fails(t)

Next ==
  \/ \E t \in Thread, j \in Job : Call(t, j)
  \/ \E o \in Order : CallRefused(o)
  \/ \E t \in Thread : Step(t)
  \/ Tick
  \/ ServerTurns

Spec == Init /\ [][Next]_vars

\* Threads that are in a call go on, the clock runs, and quotes keep being
\* asked for (HotRunner polls in a loop).
FairSpec ==
  /\ Spec
  /\ \A t \in Thread : WF_vars(Step(t)) /\ WF_vars(Call(t, Quote))
  /\ WF_vars(Tick)

-----------------------------------------------------------------------------
(***************************************************************************)
(* Properties.                                                             *)
(***************************************************************************)
\* Every variable keeps its type.
TypeOK ==
  /\ failures \in 0 .. Threshold /\ remaining \in 0 .. OpenDuration
  /\ opened \in BOOLEAN /\ probing \in BOOLEAN /\ healthy \in BOOLEAN
  /\ pc \in [Thread -> {"idle", "sending", "answered"}]
  /\ job \in [Thread -> Job]
  /\ attempt \in [Thread -> 0 .. MaxRetries]
  /\ answer \in [Thread -> Answers \cup {"none"}]
  /\ probe \in [Thread -> BOOLEAN]
  /\ accepted \in [Order -> Nat] /\ lost \in [Order -> Nat]
  /\ result \in [Order -> Results]

\* The probe flag is never left behind: while it is set the circuit is open,
\* its cooldown is over and a call admitted as a probe is in flight, although
\* any other call that settles clears the flag and lets the next one set it.
ProbeHeld ==
  probing => opened /\ remaining = 0 /\ \E t \in InFlight : probe[t]

\* The circuit is open exactly when the last Threshold calls to settle as
\* retryable failures did so with no success between them.
OpenIffThreshold == opened <=> failures = Threshold

\* An order is taken twice only when the answer to an earlier attempt was
\* lost: an answer, even an error, is never followed by a second acceptance.
DuplicateOnlyIfLost == \A o \in Order : accepted[o] <= lost[o] + 1

\* An order reported as refused by the circuit never reached the server, and
\* one reported as rejected reached it only through an attempt whose answer
\* was lost.
ReportedRight ==
  \A o \in Order :
    /\ result[o] = "refused" => accepted[o] = 0
    /\ result[o] \in {"submitted", "malformed"} => accepted[o] >= 1
    /\ result[o] \in {"rejected", "failed"} => accepted[o] <= lost[o]

\* The breaker every caller relies on.
Breaker == INSTANCE CircuitBreaker WITH
  Caller   <- Thread,
  mode     <- IF ~opened THEN "closed" ELSE IF probing THEN "probing" ELSE "open",
  cooling  <- opened /\ remaining > 0,
  inflight <- InFlight

BreakerSpec == Breaker!Spec

\* Every call ends, however the server behaves.
CallsEnd == \A t \in Thread : pc[t] # "idle" ~> pc[t] = "idle"

\* Once the server answers again, and refuses no quote for good, the circuit does
\* not stay open: the cooldown ends, some call gets the probe permit and closes it.
Recovers == <>[]healthy => <>[]~opened
=============================================================================
