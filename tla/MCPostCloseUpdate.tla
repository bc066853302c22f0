------------------------- MODULE MCPostCloseUpdate -------------------------
(* Two evenings, the worker and one operator.                               *)
EXTENDS PostCloseUpdate

CONSTANT tool
MCTool == {tool}
=============================================================================
