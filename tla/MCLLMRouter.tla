---------------------------- MODULE MCLLMRouter ----------------------------
(* Two threads share the router; one caller has an allocation of its own   *)
(* and the other uses the buffer, or has no allocation when there is none. *)
EXTENDS LLMRouter

CONSTANTS t1, t2, c1, c2

MCThread       == {t1, t2}
MCCaller       == {c1, c2}
MCKey          == {c1, Buffer}
MCAllocation   == [k \in MCKey |-> IF k = c1 THEN 1 ELSE 2]
=============================================================================
