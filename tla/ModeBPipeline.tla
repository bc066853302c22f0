---------------------------- MODULE ModeBPipeline ----------------------------
(***************************************************************************)
(* The evening pipeline of Flephant: ModeBScheduler.run_pipeline and       *)
(* approve_operator_review (mode_b/scheduler.py) on the operational state  *)
(* machine they share with the hot path, with BacktestAgent.run            *)
(* (agents/mode_b/backtest.py), which stage 6 runs in a thread.            *)
(*                                                                         *)
(* A stage that exceeds its time limit is reported blocked, but its thread *)
(* cannot be stopped.  A backtest that outlives its run still writes the   *)
(* scheduler's four evidence fields, one after the other, in the middle of *)
(* a later run, whose stage 7 reads them one after the other.  The agent   *)
(* object, and the flag in it that forces a verdict to fail, may be shared *)
(* by all the backtests.                                                   *)
(*                                                                         *)
(* Run r issues bundle r.  An evidence field is the run whose backtest     *)
(* wrote it; what it says is in that run's report.                         *)
(***************************************************************************)
EXTENDS Naturals, OperationalState

CONSTANTS
  MaxRuns,      \* bound on the runs of the pipeline
  Reports,      \* the reports a completed backtest may return
  SharedAgent   \* one backtest agent was injected (else one agent per run)

Run   == 1 .. MaxRuns
NoRun == 0
Field == {"risk", "sanity", "quality", "policy"}

Report == [verdict: {"pass", "warn", "fail"},
           sanity: BOOLEAN,    \* the leakage check passed
           flagged: BOOLEAN,   \* regression_risk.flagged
           quality: BOOLEAN,   \* feature_quality is there and passes the deployer's gate
           policy: BOOLEAN]    \* the policy replay is there and verifies for its bundle

ASSUME PipelineAssumption ==
  /\ MaxRuns \in Nat
  /\ Reports \subseteq Report
  /\ SharedAgent \in BOOLEAN

VARIABLES
  machine,    \* state of the operational state machine
  phase,      \* where run_pipeline is
  run,        \* the current run, or the last one
  result,     \* how it ended ("running" before it does; "blocked": or failed)
  bundle,     \* _bundle_id: the run that issued it
  held,       \* the evidence fields: which run's backtest wrote each
  seen,       \* the evidence fields stage 7 has read so far
  worker,     \* where the stage 6 thread of each run is
  tested,     \* the bundle it validates
  report,     \* what it found
  fallback,   \* the runs whose backtest had a reduced universe or a synthetic artifact
  forced,     \* _force_verdict_fail of each agent
  operator,   \* approve_operator_review: "none", or "closing" between its two transitions
  reviews,    \* results waiting for the operator
  handed,     \* history: the evidence each deployed bundle was deployed with
  deployed,   \* history: the runs whose bundle was deployed
  disturbed   \* history: runs during whose stages 6 and 7 an older backtest took a step

threads  == <<worker, tested, report, fallback, forced>>
operated == <<operator, reviews>>
history  == <<handed, deployed, disturbed>>
vars     == <<machine, phase, run, result, bundle, held, seen, threads, operated, history>>

NoReport    == [verdict |-> "none", sanity |-> FALSE, flagged |-> TRUE, quality |-> FALSE,
                policy |-> FALSE]
FailReport  == [NoReport EXCEPT !.verdict = "fail"]
NothingHeld == [f \in Field |-> NoRun]

Agent    == {0} \cup Run
AgentOf(r) == IF SharedAgent THEN 0 ELSE r

NextStage == [stage_0 |-> "stage_1", stage_1 |-> "stage_2", stage_2 |-> "stage_3",
              stage_3 |-> "stage_4", stage_4 |-> "stage_5", stage_5 |-> "candidates"]
Evolving    == DOMAIN NextStage \ {"stage_0"}
DeploySteps == {"stage_7", "risk", "verify", "sanity", "quality", "policy", "deploy"}
Validating  == {"stage_6"} \cup DeploySteps

\* The order in which stage 6 assigns the fields.
NextField == [risk |-> "sanity", sanity |-> "quality", quality |-> "policy", policy |-> "done"]

\* The order in which stage 7 reads them; it verifies the policy after the risk.
NextRead == [risk |-> "verify", sanity |-> "quality", quality |-> "policy", policy |-> "deploy"]

\* critical_alert of stage 6.  (Severity "high", the configured limit, makes
\* the agent's verdict fail, so it adds nothing.)
Critical(p) == p.verdict = "fail" \/ ~p.sanity \/ p.flagged

VerifiesForAny(r, b) == r # NoRun /\ report[r].policy  \* mutant: bundle ids not compared

\* verify_service_policy_evidence
Verifies(r, b) == r # NoRun /\ report[r].policy /\ tested[r] = b

\* The gates of ModeBDeployer.deploy; a missing risk is an unflagged one.
GatePassed(e) ==
  /\ e["sanity"] # NoRun /\ report[e["sanity"]].sanity
  /\ e["risk"] # NoRun => ~report[e["risk"]].flagged
  /\ e["quality"] # NoRun /\ report[e["quality"]].quality
  /\ Verifies(e["policy"], bundle)

-----------------------------------------------------------------------------
Init ==
  /\ machine = "BOOTSTRAP" /\ phase = "idle" /\ run = 0 /\ result = "none"
  /\ bundle = NoRun /\ held = NothingHeld /\ seen = NothingHeld
  /\ worker   = [r \in Run |-> "none"]
  /\ tested   = [r \in Run |-> NoRun]
  /\ report   = [r \in Run |-> NoReport]
  /\ fallback = {} /\ forced = [a \in Agent |-> FALSE]
  /\ operator = "none" /\ reviews = 0
  /\ handed = [r \in Run |-> NothingHeld] /\ deployed = {} /\ disturbed = {}

\* The pipeline goes on; it asks for a last state and closes.
Continue(step) == phase' = step /\ UNCHANGED <<run, result>>
Close(res)     == phase' = "close" /\ result' = res /\ UNCHANGED run

Request(target) == machine' = Moved(machine, target)

-----------------------------------------------------------------------------
(***************************************************************************)
(* run_pipeline up to the backtest.                                        *)
(***************************************************************************)
RunPipeline ==
  /\ phase = "idle" /\ run < MaxRuns
  /\ Request("MODE_B_EVOLVING")
  /\ phase' = "stage_0" /\ run' = run + 1 /\ result' = "running"
  /\ bundle' = NoRun /\ held' = NothingHeld
  /\ UNCHANGED <<seen, threads, operated, history>>

\* A trading day without a critical alert, or a stage_0 that raised: the
\* error result of _run_stage carries no alert.
QualityPasses ==
  /\ phase = "stage_0"
  /\ Continue(NextStage["stage_0"])
  /\ UNCHANGED <<machine, bundle, held, seen, threads, operated, history>>

QualityBlocks ==
  /\ phase = "stage_0"
  /\ Request("MODE_B_BLOCKED") /\ Close("blocked")
  /\ UNCHANGED <<bundle, held, seen, threads, operated, history>>

NonTradingDay ==
  /\ phase = "stage_0"
  /\ Close("holiday")
  /\ UNCHANGED <<machine, bundle, held, seen, threads, operated, history>>

\* Stage 3 issues the bundle id, whether it ends well or not.
Issued == bundle' = IF phase = "stage_3" THEN run ELSE bundle

StagePasses ==
  /\ phase \in Evolving
  /\ Issued
  /\ Continue(NextStage[phase])
  /\ UNCHANGED <<machine, held, seen, threads, operated, history>>

\* _finish_blocked_pipeline, after an error or a time limit.
StageBlocks ==
  /\ phase \in Evolving
  /\ Issued
  /\ Request("MODE_B_BLOCKED") /\ Close("blocked")
  /\ UNCHANGED <<held, seen, threads, operated, history>>

NoCandidates ==
  /\ phase = "candidates"
  /\ Close("skipped")
  /\ UNCHANGED <<machine, bundle, held, seen, threads, operated, history>>

\* The stage 6 thread starts: it reads the bundle id; the agent clears its flag.
Enter(r) ==
  /\ worker' = [worker EXCEPT ![r] = "universe"]
  /\ tested' = [tested EXCEPT ![r] = bundle]
  /\ forced' = [forced EXCEPT ![AgentOf(r)] = FALSE]
  /\ UNCHANGED <<report, fallback>>

\* Outside the Mode B window agent.run raises at once; stage 6 then answers
\* "fail" without having assigned a field.
Refuse(r) ==
  /\ worker' = [worker EXCEPT ![r] = "done"]
  /\ report' = [report EXCEPT ![r] = FailReport]
  /\ UNCHANGED <<tested, fallback, forced>>

StartBacktest ==
  /\ phase = "candidates"
  /\ Request("MODE_B_BACKTEST")
  /\ Continue("stage_6")
  /\ Refuse(run) \/ Enter(run)
  /\ UNCHANGED <<bundle, held, seen, operated, history>>

-----------------------------------------------------------------------------
(***************************************************************************)
(* The stage 6 threads: that of the current run, and the ones left behind. *)
(***************************************************************************)
Disturbs(r) ==
  disturbed' = IF r < run /\ phase \in Validating THEN disturbed \cup {run} ELSE disturbed

\* What a step of a thread leaves alone.
Threaded(r) ==
  /\ Disturbs(r)
  /\ UNCHANGED <<machine, phase, run, result, bundle, seen, tested, operated, handed, deployed>>

ForcesNothing(r, doubtful) ==  \* mutant: the flag is not set
  /\ fallback' = IF doubtful THEN fallback \cup {r} ELSE fallback
  /\ forced' = forced

\* The flag is set, or left as it is.
Forces(r, doubtful) ==
  /\ fallback' = IF doubtful THEN fallback \cup {r} ELSE fallback
  /\ forced' = IF doubtful THEN [forced EXCEPT ![AgentOf(r)] = TRUE] ELSE forced

\* The active universe, or the fallback if it cannot be read; the engine runs.
ReadsUniverse(r) ==
  /\ worker[r] = "universe"
  /\ worker' = [worker EXCEPT ![r] = "engine"]
  /\ \E reduced \in BOOLEAN : Forces(r, reduced)
  /\ UNCHANGED <<report, held>> /\ Threaded(r)

\* The engine raises: the flag is cleared and the failure reported.
EngineRaises(r) ==
  /\ worker[r] \in {"universe", "engine"}
  /\ worker' = [worker EXCEPT ![r] = "risk"]
  /\ report' = [report EXCEPT ![r] = FailReport]
  /\ forced' = [forced EXCEPT ![AgentOf(r)] = FALSE]
  /\ UNCHANGED <<fallback, held>> /\ Threaded(r)

\* The engine is done; its artifact may be synthetic.
EngineReturns(r) ==
  /\ worker[r] = "engine"
  /\ worker' = [worker EXCEPT ![r] = "verdict"]
  /\ \E synthetic \in BOOLEAN : Forces(r, synthetic)
  /\ UNCHANGED <<report, held>> /\ Threaded(r)

\* The flag is read, and overrides the verdict ...
Concludes(r, p) ==
  LET force == forced[AgentOf(r)] IN
  /\ worker[r] = "verdict"
  /\ worker' = [worker EXCEPT ![r] = IF force THEN "clear" ELSE "risk"]
  /\ report' = [report EXCEPT ![r] =
                  IF force THEN [p EXCEPT !.verdict = "fail", !.flagged = TRUE] ELSE p]
  /\ UNCHANGED <<forced, fallback, held>> /\ Threaded(r)

\* ... and if it was set it is cleared.
ClearsFlag(r) ==
  /\ worker[r] = "clear"
  /\ worker' = [worker EXCEPT ![r] = "risk"]
  /\ forced' = [forced EXCEPT ![AgentOf(r)] = FALSE]
  /\ UNCHANGED <<report, fallback, held>> /\ Threaded(r)

\* agent.run raises outside of the except around the engine, before or after the
\* verdict: stage 6 answers "fail" without having assigned a field.
RunRaises(r) ==
  /\ worker[r] \in {"verdict", "risk"}
  /\ worker' = [worker EXCEPT ![r] = "done"]
  /\ report' = [report EXCEPT ![r] = FailReport]
  /\ UNCHANGED <<forced, fallback, held>> /\ Threaded(r)

AssignsNoRisk(r) ==  \* mutant: _current_regression_risk is not assigned
  /\ worker[r] \in Field
  /\ held' = IF worker[r] = "risk" THEN held ELSE [held EXCEPT ![worker[r]] = r]
  /\ worker' = [worker EXCEPT ![r] = NextField[worker[r]]]
  /\ UNCHANGED <<report, fallback, forced>> /\ Threaded(r)

\* The thread assigns one evidence field after the other.
Assigns(r) ==
  /\ worker[r] \in Field
  /\ held' = [held EXCEPT ![worker[r]] = r]
  /\ worker' = [worker EXCEPT ![r] = NextField[worker[r]]]
  /\ UNCHANGED <<report, fallback, forced>> /\ Threaded(r)

-----------------------------------------------------------------------------
(***************************************************************************)
(* The answer of stage 6, and the deployment.                              *)
(***************************************************************************)
NeverTimesOut ==  \* mutant: future.result() without a limit
  /\ FALSE
  /\ UNCHANGED vars

BacktestTimesOut ==
  /\ phase = "stage_6" /\ worker[run] # "done"
  /\ Request("MODE_B_BLOCKED") /\ Close("blocked")
  /\ UNCHANGED <<bundle, held, seen, threads, operated, history>>

Answered(verdict) == phase = "stage_6" /\ worker[run] = "done" /\ report[run].verdict = verdict

PassDespiteAlert ==  \* mutant: critical_alert is not looked at
  /\ Answered("pass")
  /\ Request("MODE_B_DEPLOY") /\ Continue("stage_7")
  /\ UNCHANGED <<bundle, held, seen, threads, operated, history>>

VerdictPass ==
  /\ Answered("pass") /\ ~Critical(report[run])
  /\ Request("MODE_B_DEPLOY") /\ Continue("stage_7")
  /\ UNCHANGED <<bundle, held, seen, threads, operated, history>>

VerdictFail ==
  /\ Answered("fail") \/ (Answered("pass") /\ Critical(report[run]))
  /\ Request("MODE_B_BLOCKED") /\ Close("blocked")
  /\ UNCHANGED <<bundle, held, seen, threads, operated, history>>

\* A warning is left to the operator: the run returns without going idle.
VerdictWarn ==
  /\ Answered("warn")
  /\ Request("MODE_B_OPERATOR_REVIEW")
  /\ phase' = "idle" /\ result' = "awaiting" /\ reviews' = reviews + 1
  /\ UNCHANGED <<run, bundle, held, seen, threads, operator, history>>

EvidencePresent ==
  /\ phase = "stage_7"
  /\ held["quality"] # NoRun /\ held["policy"] # NoRun
  /\ Continue("risk")
  /\ UNCHANGED <<machine, bundle, held, seen, threads, operated, history>>

\* Stage 7 reads the risk, and after the verification the arguments of deploy, the
\* policy evidence once more among them, one by one.
Reads ==
  /\ phase \in Field
  /\ seen' = [seen EXCEPT ![phase] = held[phase]]
  /\ Continue(NextRead[phase])
  /\ UNCHANGED <<machine, bundle, held, threads, operated, history>>

VerifyPolicy ==
  /\ phase = "verify" /\ Verifies(held["policy"], bundle)
  /\ Continue("sanity")
  /\ UNCHANGED <<machine, bundle, held, seen, threads, operated, history>>

Deploy ==
  /\ phase = "deploy" /\ GatePassed(seen)
  /\ Close("deployed")
  /\ handed' = [handed EXCEPT ![run] = seen]
  /\ deployed' = deployed \cup {run}
  /\ seen' = NothingHeld
  /\ UNCHANGED <<machine, bundle, held, threads, operated, disturbed>>

\* Evidence missing or refused, no deployer, an invalid candidate bundle, an
\* exception: stage 7 may end without a deployment at any of its steps.
DeployStops ==
  /\ phase \in DeploySteps
  /\ Close("blocked")
  /\ seen' = NothingHeld
  /\ UNCHANGED <<machine, bundle, held, threads, operated, history>>

ClosesOnlySuccess ==  \* mutant: a blocked run is not closed
  /\ phase = "close"
  /\ IF result = "blocked" THEN UNCHANGED machine ELSE Request("MODE_B_IDLE")
  /\ phase' = "idle"
  /\ UNCHANGED <<run, result, bundle, held, seen, threads, operated, history>>

Closes ==
  /\ phase = "close"
  /\ Request("MODE_B_IDLE")
  /\ phase' = "idle"
  /\ UNCHANGED <<run, result, bundle, held, seen, threads, operated, history>>

-----------------------------------------------------------------------------
(***************************************************************************)
(* The operator and the hot path.  approve_operator_review looks at        *)
(* neither the state nor the bundle id it is given; it may come when a     *)
(* later run is on.                                                        *)
(***************************************************************************)
Review(approved) ==
  /\ operator = "none" /\ reviews > 0
  /\ Request(IF approved THEN "MODE_B_DEPLOY" ELSE "MODE_B_BLOCKED")
  /\ operator' = "closing" /\ reviews' = reviews - 1
  /\ UNCHANGED <<phase, run, result, bundle, held, seen, threads, history>>

ReviewCloses ==
  /\ operator = "closing"
  /\ Request("MODE_B_IDLE")
  /\ operator' = "none"
  /\ UNCHANGED <<phase, run, result, bundle, held, seen, threads, reviews, history>>

\* HotRunner.start, stop_for_mode_b, shutdown, and the next morning's
\* BOOTSTRAP: outside the evening window, and an illegal one raises.
HotPath(target) ==
  /\ phase = "idle" /\ operator = "none"
  /\ target \in Allowed(machine)
  /\ Request(target)
  /\ UNCHANGED <<phase, run, result, bundle, held, seen, threads, operated, history>>

HotPathTargets == {"BOOTSTRAP", "HOT_RUNNING", "MODE_B_IDLE", "SHUTDOWN"}

-----------------------------------------------------------------------------
Evolve == RunPipeline \/ QualityPasses \/ QualityBlocks \/ NonTradingDay \/ StagePasses
          \/ StageBlocks \/ NoCandidates \/ StartBacktest

Decide == BacktestTimesOut \/ VerdictPass \/ VerdictFail \/ VerdictWarn \/ EvidencePresent
          \/ Reads \/ VerifyPolicy \/ Deploy \/ DeployStops \/ Closes

Thread(r) ==
  \/ ReadsUniverse(r) \/ EngineRaises(r) \/ EngineReturns(r)
  \/ \E p \in Reports \cup {FailReport} : Concludes(r, p)
  \/ ClearsFlag(r) \/ RunRaises(r) \/ Assigns(r)

Others == (\E approved \in BOOLEAN : Review(approved)) \/ ReviewCloses
          \/ \E target \in HotPathTargets : HotPath(target)

Next == Evolve \/ Decide \/ (\E r \in Run : Thread(r)) \/ Others

\* The thread that runs the pipeline keeps running; nothing is assumed of the
\* stage 6 threads, the operator and the hot path.
Fairness == WF_vars(phase # "idle" /\ (Evolve \/ Decide))

Spec     == Init /\ [][Next]_vars
FairSpec == Spec /\ Fairness

-----------------------------------------------------------------------------
(***************************************************************************)
(* Properties.                                                             *)
(***************************************************************************)
Phases == DOMAIN NextStage \cup {"idle", "candidates", "stage_6", "close"} \cup DeploySteps

\* Every variable keeps its type.
TypeOK ==
  /\ machine \in PipelineState
  /\ phase \in Phases
  /\ run \in 0 .. MaxRuns
  /\ result \in {"none", "running", "holiday", "skipped", "blocked", "awaiting", "deployed"}
  /\ bundle \in 0 .. MaxRuns
  /\ held \in [Field -> 0 .. MaxRuns] /\ seen \in [Field -> 0 .. MaxRuns]
  /\ worker \in [Run -> {"none", "universe", "engine", "verdict", "clear", "done"} \cup Field]
  /\ tested \in [Run -> 0 .. MaxRuns]
  /\ report \in [Run -> Report \cup {NoReport}]
  /\ fallback \subseteq Run
  /\ forced \in [Agent -> BOOLEAN]
  /\ operator \in {"none", "closing"}
  /\ reviews \in Nat
  /\ handed \in [Run -> [Field -> 0 .. MaxRuns]]
  /\ deployed \subseteq Run
  /\ disturbed \subseteq Run

\* A bundle goes live only when its own backtest answered in time with a pass
\* and no critical alert, whatever the backtests left over from earlier runs
\* write (scheduler.py: run_pipeline uses the answer, not the fields).
OnlyOwnPass ==
  \A r \in deployed : report[r].verdict = "pass" /\ ~Critical(report[r])

\* The service-policy evidence a bundle is deployed with was produced for that
\* bundle: a late thread that replaces it between the check and the call is
\* caught by the deployer's second verification.
OwnPolicyEvidence ==
  \A r \in deployed : tested[handed[r]["policy"]] = r

\* Unless an older backtest was still running in stages 6 and 7, all the
\* evidence handed to the deployer comes from the run's own backtest.
EvidenceOfOneRun ==
  \A r \in deployed \ disturbed : \A f \in Field : handed[r][f] = r

\* What was tested on the reduced universe, or with a synthetic artifact, is never
\* deployed (backtest.py: the verdict is forced to fail), unless the agent is shared
\* with an older backtest that was still running.
FallbackNeverDeployed ==
  \A r \in deployed \cap fallback : SharedAgent /\ r \in disturbed

\* When the pipeline has returned and no review is being closed, the machine
\* is not left in BACKTEST, DEPLOY or BLOCKED, whatever the operator did to it
\* meanwhile.
Closed ==
  phase = "idle" /\ operator = "none"
    => machine \notin {"MODE_B_BACKTEST", "MODE_B_DEPLOY", "MODE_B_BLOCKED"}

\* Every run of the pipeline returns, even when stage 6 hangs for ever.
EveningEnds == phase # "idle" ~> phase = "idle"

\* A run that is skipped goes directly back to MODE_B_IDLE (api_contracts.md
\* C14, backtest_skip_condition).
SkippedRunIsIdle ==
  phase = "idle" /\ result = "skipped" => machine # "MODE_B_EVOLVING"
=============================================================================
