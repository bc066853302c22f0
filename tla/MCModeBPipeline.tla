--------------------------- MODULE MCModeBPipeline ---------------------------
(* One report for each way through the gates.                               *)
EXTENDS ModeBPipeline

Clean == [verdict |-> "pass", sanity |-> TRUE, flagged |-> FALSE, quality |-> TRUE,
          policy |-> TRUE]
MCReports == {Clean, [Clean EXCEPT !.flagged = TRUE], [Clean EXCEPT !.quality = FALSE],
              [Clean EXCEPT !.policy = FALSE], [Clean EXCEPT !.verdict = "warn"]}
=============================================================================
