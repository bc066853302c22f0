------------------------------ MODULE MCKisRest ------------------------------
(* Two threads and one order: a late call and a probe overlap, and the      *)
(* thread that settles may become the next probe.                           *)
EXTENDS KisRest

CONSTANTS t1, t2, o1

MCThread == {t1, t2}
MCOrder == {o1}
=============================================================================
