--------------------------- MODULE OperationalState ---------------------------
(***************************************************************************)
(* The operational state machine of Flephant (ops/state_machine.py): the   *)
(* transition graph every component shares, and the two ways it is used.   *)
(***************************************************************************)

ModeA == {"BOOTSTRAP", "HOT_RUNNING", "COLD_RUNNING", "DEGRADED", "EMERGENCY_HALT",
          "MANUAL_OVERRIDE", "RECOVERY"}
ModeB == {"MODE_B_IDLE", "MODE_B_EVOLVING", "MODE_B_BACKTEST", "MODE_B_OPERATOR_REVIEW",
          "MODE_B_DEPLOY", "MODE_B_BLOCKED"}
PipelineState == ModeA \cup ModeB \cup {"SHUTDOWN", "ERROR"}

\* _ANY_STATE_TRANSITIONS: allowed everywhere but in SHUTDOWN.
FromAnywhere == {"EMERGENCY_HALT", "MANUAL_OVERRIDE", "SHUTDOWN", "ERROR"}

\* _SPECIAL_TRANSITIONS
Special ==
  [BOOTSTRAP              |-> {"HOT_RUNNING", "DEGRADED"},
   HOT_RUNNING            |-> {"COLD_RUNNING", "DEGRADED", "MODE_B_IDLE"},
   COLD_RUNNING           |-> {"HOT_RUNNING", "DEGRADED"},
   DEGRADED               |-> {"HOT_RUNNING"},
   EMERGENCY_HALT         |-> {"RECOVERY"},
   RECOVERY               |-> {"HOT_RUNNING"},
   MANUAL_OVERRIDE        |-> {"HOT_RUNNING", "RECOVERY"},
   MODE_B_IDLE            |-> {"MODE_B_EVOLVING", "BOOTSTRAP"},
   MODE_B_EVOLVING        |-> {"MODE_B_BACKTEST"},
   MODE_B_BACKTEST        |-> {"MODE_B_DEPLOY", "MODE_B_OPERATOR_REVIEW", "MODE_B_BLOCKED"},
   MODE_B_OPERATOR_REVIEW |-> {"MODE_B_DEPLOY", "MODE_B_BLOCKED"},
   MODE_B_DEPLOY          |-> {"MODE_B_IDLE"},
   MODE_B_BLOCKED         |-> {"MODE_B_IDLE"},
   SHUTDOWN               |-> {},
   ERROR                  |-> {"BOOTSTRAP"}]

Allowed(s) == Special[s] \cup (IF s = "SHUTDOWN" THEN {} ELSE FromAnywhere)

\* ModeBScheduler._transition: an IllegalTransitionError is logged and dropped,
\* so that an illegal request leaves the state as it is.
Moved(s, target) == IF target \in Allowed(s) THEN target ELSE s
=============================================================================
