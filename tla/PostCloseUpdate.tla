--------------------------- MODULE PostCloseUpdate ---------------------------
(***************************************************************************)
(* The nightly update of the data set: the scheduler                       *)
(* (scripts/post_close_data_update_scheduler.py), its job table            *)
(* (ops/post_close_job_store.py) and the update it runs                    *)
(* (scripts/post_close_data_update.py).                                    *)
(*                                                                         *)
(* The worker polls for ever and is restarted when it dies; an operator    *)
(* may start the same program for one run (--once, --force, --dry-run) at  *)
(* any time.  They share the job table and risk_config.yaml, whose         *)
(* expected_end_date a passed update promotes, and nothing keeps two of    *)
(* them apart.  Each process reads the configuration once and keeps it,    *)
(* until a promotion of its own makes it drop what it has read.            *)
(***************************************************************************)
EXTENDS Integers, Sequences, FiniteSets

CONSTANTS
  Worker,       \* the process systemd keeps alive
  Tool,         \* processes an operator starts
  DayLength,    \* ticks of a day, from the run time of one evening to the next
  Evening,      \* ticks of these before midnight
  OpenFor,      \* ticks of these in which the Mode B window is open
  RetryAfter,   \* retry_failed_after_sec, in ticks
  MaxClock,     \* bound on the clock
  MaxRuns,      \* bound on the rows of the job table
  MaxKills      \* bound on processes killed

ASSUME UpdateAssumption ==
  /\ Worker \notin Tool
  /\ DayLength \in Nat \ {0} /\ Evening \in 1 .. DayLength /\ OpenFor \in 1 .. Evening
  /\ RetryAfter \in Nat /\ MaxClock \in Nat /\ MaxRuns \in Nat /\ MaxKills \in Nat

Process == {Worker} \cup Tool
Status  == {"RUNNING", "PASS", "FAIL", "BLOCKED", "SKIP", "DRY_RUN"}
Row     == [target: Nat, status: Status, started: Nat]

\* risk_config.yaml is not in _CACHE, or empty there.
Unread == -1

VARIABLES
  clock,
  rows,     \* post_close_job_runs, in the order of started_at
  final,    \* expected_end_date of final_dataset_gate in risk_config.yaml
  emptied,  \* risk_config.yaml has been opened to be written and is empty
  pc,       \* where run_once is; "blind": the process has read an empty configuration
  cache,    \* the expected_end_date in the process's _CACHE, or Unread
  target,   \* target_end
  dry,      \* run_dry
  row,      \* run_id, as the index of the row
  kills,
  byHand    \* history: targets an operator's process has made a row for

table  == <<clock, rows>>
config == <<final, emptied>>
job    == <<target, dry, row>>
vars   == <<table, config, pc, cache, job, kills, byHand>>

Init ==
  /\ clock = DayLength /\ rows = << >> /\ final = 0 /\ emptied = FALSE
  /\ pc = [p \in Process |-> "off"] /\ cache = [p \in Process |-> Unread]
  /\ target = [p \in Process |-> 0] /\ dry = [p \in Process |-> FALSE]
  /\ row = [p \in Process |-> 0]
  /\ kills = 0 /\ byHand = {}

\* latest_pit_safe_trading_day, after the run time of the evening.
Today      == clock \div DayLength
InEvening  == clock % DayLength < Evening
WindowOpen == clock % DayLength < OpenFor

\* Steps of run_once with a row in the table.
Running == {"begin", "stages", "copy", "promote", "report"}

Goes(p, from, to) == pc[p] = from /\ pc' = [pc EXCEPT ![p] = to]

-----------------------------------------------------------------------------
\* load.  Empty, the configuration has no run time: every tick of the process is
\* scheduler_run_time_invalid.
Loads(p) ==
  /\ pc' = [pc EXCEPT ![p] = IF emptied THEN "blind" ELSE "idle"]
  /\ cache' = [cache EXCEPT ![p] = IF emptied THEN Unread ELSE final]
  /\ UNCHANGED <<table, config, job, kills, byHand>>

\* The process starts, and its first tick reads the configuration ...
Launch(p) == pc[p] = "off" /\ Loads(p)

\* ... as does the first tick of the worker after it has promoted a date.
Rereads(p) == pc[p] = "idle" /\ cache[p] = Unread /\ Loads(p)

\* What run_once holds is gone when it returns or the process dies.
Forgets(p) ==
  /\ target' = [target EXCEPT ![p] = 0]
  /\ dry' = [dry EXCEPT ![p] = FALSE]
  /\ row' = [row EXCEPT ![p] = 0]

RowsOf(t)   == {i \in DOMAIN rows : rows[i].target = t}
LatestOf(t) == CHOOSE i \in RowsOf(t) : \A j \in RowsOf(t) : j <= i

DueUnlessRunning(p) ==  \* mutant: a row that is RUNNING counts as an update under way
  /\ InEvening /\ cache[p] # Unread /\ cache[p] < Today
  /\ RowsOf(Today) # {} =>
       LET last == rows[LatestOf(Today)] IN
       /\ last.status \notin {"PASS", "RUNNING"}
       /\ last.status \in {"BLOCKED", "FAIL"} => clock - last.started >= RetryAfter

\* evaluate_tick
Due(p) ==
  /\ InEvening /\ cache[p] # Unread /\ cache[p] < Today
  /\ RowsOf(Today) # {} =>
       LET last == rows[LatestOf(Today)] IN
       /\ last.status # "PASS"
       /\ last.status \in {"BLOCKED", "FAIL"} => clock - last.started >= RetryAfter

\* The worker neither forces nor runs dry.
Decide(p, force, dryRun) ==
  /\ p = Worker => ~force /\ ~dryRun
  /\ force \/ Due(p)
  /\ Goes(p, "idle", "create")
  /\ target' = [target EXCEPT ![p] = Today]
  /\ dry' = [dry EXCEPT ![p] = dryRun]
  /\ UNCHANGED <<table, config, cache, row, kills, byHand>>

\* run_once returns without a run.  The worker sleeps and asks again, a tool ends.
Declines(p) ==
  /\ p # Worker /\ (pc[p] = "blind" \/ (pc[p] = "idle" /\ ~Due(p)))
  /\ pc' = [pc EXCEPT ![p] = "off"] /\ cache' = [cache EXCEPT ![p] = Unread]
  /\ UNCHANGED <<table, config, job, kills, byHand>>

\* create_run
Create(p) ==
  /\ Len(rows) < MaxRuns
  /\ Goes(p, "create", "begin")
  /\ rows' = Append(rows, [target |-> target[p], status |-> "RUNNING", started |-> clock])
  /\ row' = [row EXCEPT ![p] = Len(rows) + 1]
  /\ byHand' = IF p = Worker THEN byHand ELSE byHand \cup {target[p]}
  /\ UNCHANGED <<clock, config, cache, target, dry, kills>>

\* finish_run, and run_once returns: a tool ends, the worker sleeps.
Finish(p, from, status) ==
  /\ Goes(p, from, IF p = Worker THEN "idle" ELSE "off")
  /\ rows' = [rows EXCEPT ![row[p]].status = status]
  /\ cache' = IF p = Worker THEN cache ELSE [cache EXCEPT ![p] = Unread]
  /\ Forgets(p)
  /\ UNCHANGED <<clock, config, kills, byHand>>

-----------------------------------------------------------------------------
(***************************************************************************)
(* run_update.                                                             *)
(***************************************************************************)
Covered(p) == cache[p] >= target[p]

Skips(p)     == Covered(p) /\ Finish(p, "begin", "SKIP")
RunsDry(p)   == ~Covered(p) /\ dry[p] /\ Finish(p, "begin", "DRY_RUN")
FindsShut(p) == ~Covered(p) /\ ~dry[p] /\ ~WindowOpen /\ Finish(p, "begin", "BLOCKED")

Starts(p) ==
  /\ ~Covered(p) /\ ~dry[p] /\ WindowOpen
  /\ Goes(p, "begin", "stages")
  /\ UNCHANGED <<table, config, cache, job, kills, byHand>>

PassesEarly(p) ==  \* mutant: the row says PASS when the stages have
  Finish(p, "stages", "PASS")

\* A stage fails for good, the evidence of the last one is not accepted, the gate is
\* not in the file, or the file cannot be copied, opened or written.
Blocked(p) == \E from \in {"stages", "copy", "promote"} : Finish(p, from, "BLOCKED")
\* An exception out of run_update, or the report cannot be written, whatever it says.
Breaks(p)  == \E from \in Running : Finish(p, from, "FAIL")

\* All stages have passed: _promote_final_dataset_gate finds the gate in the text of
\* the file ...
Rewrites(p) ==
  /\ ~emptied /\ Goes(p, "stages", "copy")
  /\ UNCHANGED <<table, config, cache, job, kills, byHand>>

\* ... copies the file and opens it, whoever has it open, to write it in one piece ...
Opens(p) ==
  /\ Goes(p, "copy", "promote")
  /\ emptied' = TRUE
  /\ UNCHANGED <<table, final, cache, job, kills, byHand>>

PromotedInFile(p) ==  \* mutant: the process keeps what it had read
  /\ Goes(p, "promote", "report")
  /\ final' = target[p] /\ emptied' = FALSE
  /\ UNCHANGED <<table, cache, job, kills, byHand>>

\* ... and has written it, and drops what it has read of it.
Promoted(p) ==
  /\ Goes(p, "promote", "report")
  /\ final' = target[p] /\ emptied' = FALSE
  /\ cache' = [cache EXCEPT ![p] = Unread]
  /\ UNCHANGED <<table, job, kills, byHand>>

Passes(p) == Finish(p, "report", "PASS")

-----------------------------------------------------------------------------
Kill(p) ==
  /\ pc[p] # "off" /\ kills < MaxKills
  /\ pc' = [pc EXCEPT ![p] = "off"]
  /\ kills' = kills + 1
  /\ cache' = [cache EXCEPT ![p] = Unread] /\ Forgets(p)
  /\ UNCHANGED <<table, config, byHand>>

\* Somebody puts back a copy of what the file held last.
Restore ==
  /\ emptied /\ \A p \in Process : pc[p] # "promote"
  /\ emptied' = FALSE
  /\ UNCHANGED <<table, final, pc, cache, job, kills, byHand>>

\* A tool decides at once, and the time limits of the stages end an update before the
\* next evening.
Pass ==
  /\ \A p \in Tool : pc[p] \notin {"idle", "blind"}
  /\ clock < MaxClock
  /\ (clock + 1) % DayLength = 0 => \A p \in Process : pc[p] \in {"off", "idle", "blind"}
  /\ clock' = clock + 1
  /\ UNCHANGED <<rows, config, pc, cache, job, kills, byHand>>

Step(p) ==
  \/ \E force, dryRun \in BOOLEAN : Decide(p, force, dryRun)
  \/ Rereads(p) \/ Declines(p) \/ Create(p) \/ Skips(p) \/ RunsDry(p) \/ FindsShut(p) \/ Starts(p)
  \/ Blocked(p) \/ Breaks(p) \/ Rewrites(p) \/ Opens(p) \/ Promoted(p) \/ Passes(p)

Next == (\E p \in Process : Launch(p) \/ Step(p) \/ Kill(p)) \/ Restore \/ Pass

Spec == Init /\ [][Next]_vars

\* systemd restarts the worker and the worker goes on; nothing else is promised.
FairSpec == Spec /\ WF_vars(Launch(Worker)) /\ WF_vars(Step(Worker))

-----------------------------------------------------------------------------
(***************************************************************************)
(* Properties.                                                             *)
(***************************************************************************)
\* Every variable keeps its type.
TypeOK ==
  /\ clock \in Nat /\ rows \in Seq(Row) /\ final \in Nat /\ emptied \in BOOLEAN
  /\ pc \in [Process -> {"off", "blind", "idle", "create"} \cup Running]
  /\ cache \in [Process -> Nat \cup {Unread}] /\ target \in [Process -> Nat] /\ dry \in [Process -> BOOLEAN]
  /\ row \in [Process -> 0 .. Len(rows)]
  /\ kills \in Nat /\ byHand \subseteq Nat

\* A row that says PASS is not ahead of the data set: its target has been promoted, and
\* no other process has taken it back since.
PassMeansPromoted ==
  \A i \in DOMAIN rows : rows[i].status = "PASS" => rows[i].target <= final

\* Whatever the processes do, and wherever they die, the job table and the end of
\* the data set behave as DatasetLedger promises.
Evenings == [i \in DOMAIN rows |-> rows[i].target]
Endings  == [i \in DOMAIN rows |-> rows[i].status]

Ledger == INSTANCE DatasetLedger WITH
  Job     <- 1 .. MaxRuns,
  Outcome <- Status \ {"RUNNING"},
  today   <- Today,
  target  <- Evenings,
  status  <- Endings,
  gate    <- final

LedgerSpec == Ledger!Spec

\* The worker alone runs the stages once per target: an update of a target that has
\* been promoted already has an operator's run of that target behind it.
RepeatNeedsOperator ==
  [][\A p \in Process : pc[p] = "begin" /\ pc'[p] = "stages" /\ target[p] <= final
       => target[p] \in byHand]_vars

\* A target whose last row was left RUNNING by a process that died is taken up again,
\* as long as its evening lasts and the restarted worker has a configuration.
Abandoned ==
  /\ InEvening /\ final < Today /\ RowsOf(Today) # {}
  /\ rows[LatestOf(Today)].status = "RUNNING"
  /\ \A p \in Process : pc[p] \in {"off", "idle", "blind"}
CatchesUp == Abandoned ~> (~Abandoned \/ pc[Worker] = "blind")
=============================================================================
