--------------------------- MODULE MCPaperSession ---------------------------
(* Two sessions of two cycles, one after the other.                         *)
EXTENDS PaperSession

CONSTANTS s1, s2

MCSession == {s1, s2}
=============================================================================
