---------------------------- MODULE CircuitBreaker ----------------------------
(***************************************************************************)
(* What a circuit breaker of Flephant promises its callers, whatever it    *)
(* counts and however it keeps its state: KISRestClient (kis_rest.py) and  *)
(* the _CircuitBreaker of the LLM router implement it.                     *)
(*                                                                         *)
(* Its mode changes only when a caller is admitted, when an admitted call  *)
(* settles, or when the cooldown ends.  A call that was admitted earlier   *)
(* may settle in any mode.                                                 *)
(***************************************************************************)
CONSTANT Caller

VARIABLES
  mode,     \* "closed", "open", or "probing" after the cooldown
  cooling,  \* the cooldown of an open circuit is not over
  inflight  \* callers admitted and not settled

bvars == <<mode, cooling, inflight>>

Init == mode = "closed" /\ cooling = FALSE /\ inflight = {}

\* A closed circuit admits everyone; an open one admits a probe, once its
\* cooldown is over, and nobody while the probe is out.
Admit(c) ==
  /\ c \notin inflight
  /\ \/ mode = "closed" /\ UNCHANGED mode
     \/ mode = "open" /\ ~cooling /\ mode' = "probing"
  /\ inflight' = inflight \cup {c}
  /\ UNCHANGED cooling

Succeed(c) ==
  /\ c \in inflight
  /\ mode' = "closed" /\ cooling' = FALSE
  /\ inflight' = inflight \ {c}

\* A failure opens the circuit or is merely counted; a failure that says
\* nothing about the server still ends the probe.
Fail(c) ==
  /\ c \in inflight
  /\ \/ mode # "probing" /\ UNCHANGED <<mode, cooling>>
     \/ mode' = "open" /\ cooling' = TRUE
     \/ mode = "probing" /\ mode' = "open" /\ UNCHANGED cooling
  /\ inflight' = inflight \ {c}

Cool ==
  /\ mode = "open" /\ cooling
  /\ cooling' = FALSE
  /\ UNCHANGED <<mode, inflight>>

Next == (\E c \in Caller : Admit(c) \/ Succeed(c) \/ Fail(c)) \/ Cool

Spec == Init /\ [][Next]_bvars

\* The breaker never locks its callers out: only an open circuit cools down,
\* and one that admits nobody but its probe has that probe, or another call
\* that will end the probing, still in flight.
NoLockOut ==
  /\ cooling => mode = "open"
  /\ mode = "probing" => inflight # {}

\* Until a call settles a probing circuit admits nobody.
OneProbe == [][mode = "probing" => inflight' \subseteq inflight]_bvars
=============================================================================
