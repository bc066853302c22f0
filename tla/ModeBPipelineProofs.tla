------------------------- MODULE ModeBPipelineProofs -------------------------
(***************************************************************************)
(* Proofs about ModeBPipeline, for any number of runs, any set of reports, *)
(* and an agent that is shared or not.                                     *)
(***************************************************************************)
EXTENDS ModeBPipeline, TLAPS

Issuing == {"stage_4", "stage_5", "candidates"} \cup Validating

(***************************************************************************)
(* Where a run is: its bundle is its own from stage 4 on, and no thread    *)
(* and no deployment exists of a run that has not reached stage 6.         *)
(***************************************************************************)
Placed ==
  /\ phase # "idle" => run \in Run
  /\ phase \in Issuing => bundle = run
  /\ \A r \in Run : r > run \/ (r = run /\ phase \in DOMAIN NextStage \cup {"candidates"})
                      => worker[r] = "none" /\ r \notin deployed /\ r \notin disturbed
  /\ \A r \in Run : worker[r] \in {"none", "universe"} => r \notin fallback
  /\ \A r \in Run : tested[r] \in {NoRun, r}
  /\ run \in Run /\ phase \in Validating => run \notin deployed

(***************************************************************************)
(* A run that is deploying, or that has deployed, passed.                  *)
(***************************************************************************)
PassedReport(r) ==
  worker[r] = "done" /\ report[r].verdict = "pass" /\ ~Critical(report[r])

Passed ==
  /\ phase \in DeploySteps => PassedReport(run)
  /\ \A r \in deployed : PassedReport(r) /\ handed[r]["policy"] = r /\ tested[r] = r

(***************************************************************************)
(* While no older backtest takes a step, the fields assigned so far, and   *)
(* those stage 7 has read so far, are the run's own.                       *)
(***************************************************************************)
AssignedOwn(r) ==
  /\ worker[r] \in {"sanity", "quality", "policy", "done"} => held["risk"] = r
  /\ worker[r] \in {"quality", "policy", "done"} => held["sanity"] = r
  /\ worker[r] \in {"policy", "done"} => held["quality"] = r
  /\ worker[r] = "done" => held["policy"] = r

SeenOwn ==
  /\ phase \in {"verify", "sanity", "quality", "policy", "deploy"} => seen["risk"] = run
  /\ phase \in {"quality", "policy", "deploy"} => seen["sanity"] = run
  /\ phase \in {"policy", "deploy"} => seen["quality"] = run
  /\ phase = "deploy" => seen["policy"] = run

OwnFields ==
  /\ phase \in Validating /\ run \notin disturbed /\ report[run].verdict # "fail"
       => AssignedOwn(run)
  /\ run \notin disturbed => SeenOwn
  /\ \A r \in deployed \ disturbed : \A f \in Field : handed[r][f] = r

(***************************************************************************)
(* The flag of a doubtful backtest stays up, and then its verdict is fail, *)
(* as long as nothing else uses its agent.                                 *)
(***************************************************************************)
Alone(r) == ~SharedAgent \/ (r = run /\ phase = "stage_6" /\ r \notin disturbed)

FlagUp(r) ==
  /\ worker[r] \in {"engine", "verdict"} => forced[AgentOf(r)] = TRUE
  /\ worker[r] \in {"clear", "done"} \cup Field => report[r].verdict = "fail"

FlagKept ==
  /\ \A r \in fallback : Alone(r) => FlagUp(r)
  /\ phase \in DeploySteps /\ run \in fallback => SharedAgent /\ run \in disturbed
  /\ \A r \in deployed \cap fallback : SharedAgent /\ r \in disturbed

(***************************************************************************)
(* Who must still take the machine out of a passing state.                 *)
(***************************************************************************)
Closing ==
  /\ machine = "MODE_B_BACKTEST" => phase = "stage_6"
  /\ machine \in {"MODE_B_DEPLOY", "MODE_B_BLOCKED"}
       => phase \in DeploySteps \cup {"close"} \/ operator = "closing"

IInv == TypeOK /\ Placed /\ Passed /\ OwnFields /\ FlagKept /\ Closing

-----------------------------------------------------------------------------
(***************************************************************************)
(* Types.                                                                  *)
(***************************************************************************)

\* A request moves the machine to a state of the graph, or nowhere.
LEMMA MovedType ==
  ASSUME NEW s \in PipelineState, NEW t \in PipelineState
  PROVE  Moved(s, t) \in PipelineState
BY DEF Moved

\* The agent of a run is an agent.
LEMMA AgentType == ASSUME NEW r \in Run PROVE AgentOf(r) \in Agent
BY PipelineAssumption DEF AgentOf, Agent

\* A forced report is a report.
LEMMA ForcedReport ==
  ASSUME NEW p \in Report
  PROVE  [p EXCEPT !.verdict = "fail", !.flagged = TRUE] \in Report
BY DEF Report

\* So is the report of a failure.
LEMMA FailReportType == FailReport \in Report /\ FailReport.verdict = "fail"
BY DEF FailReport, NoReport, Report

\* The stages before the backtest, and what comes after each.
LEMMA StageOrder ==
  /\ DOMAIN NextStage = {"stage_0", "stage_1", "stage_2", "stage_3", "stage_4", "stage_5"}
  /\ Evolving = {"stage_1", "stage_2", "stage_3", "stage_4", "stage_5"}
  /\ NextStage["stage_0"] = "stage_1" /\ NextStage["stage_1"] = "stage_2"
  /\ NextStage["stage_2"] = "stage_3" /\ NextStage["stage_3"] = "stage_4"
  /\ NextStage["stage_4"] = "stage_5" /\ NextStage["stage_5"] = "candidates"
BY DEF NextStage, Evolving

\* The fields, and the order of their assignment and of their reading.
LEMMA FieldOrder ==
  /\ NextField["risk"] = "sanity" /\ NextField["sanity"] = "quality"
  /\ NextField["quality"] = "policy" /\ NextField["policy"] = "done"
  /\ NextRead["risk"] = "verify" /\ NextRead["sanity"] = "quality"
  /\ NextRead["quality"] = "policy" /\ NextRead["policy"] = "deploy"
BY DEF NextField, NextRead

\* The first state is well typed.
LEMMA InitTypeOK == Init => TypeOK
<1> SUFFICES ASSUME Init PROVE TypeOK
  OBVIOUS
<1>1. forced \in [Agent -> BOOLEAN]
  BY DEF Init
<1>2. report \in [Run -> Report \cup {NoReport}]
  BY DEF Init
<1> QED
  BY <1>1, <1>2, PipelineAssumption
     DEF Init, TypeOK, PipelineState, ModeA, Phases, NothingHeld, NoRun, Run

\* What a step of a thread does, whichever it is.
Working == {"universe", "engine", "verdict", "clear"} \cup Field

LEMMA ThreadForms ==
  ASSUME TypeOK, NEW r \in Run, Thread(r)
  PROVE  /\ worker[r] \in Working
         /\ \E w \in {"engine", "verdict", "clear", "done"} \cup Field :
              worker' = [worker EXCEPT ![r] = w]
         /\ report' = report \/ \E q \in Report : report' = [report EXCEPT ![r] = q]
         /\ forced' = forced \/ \E b \in BOOLEAN : forced' = [forced EXCEPT ![AgentOf(r)] = b]
         /\ fallback' \in {fallback, fallback \cup {r}}
         /\ held' = held \/ \E f \in Field : held' = [held EXCEPT ![f] = r]
         /\ Threaded(r)
<1> USE FailReportType DEF Working, Forces, Field
<1>1. CASE ReadsUniverse(r) \/ EngineReturns(r)
  BY <1>1 DEF ReadsUniverse, EngineReturns
<1>2. CASE EngineRaises(r)
  BY <1>2 DEF EngineRaises
<1>3. ASSUME NEW p \in Reports \cup {FailReport}, Concludes(r, p)
      PROVE  /\ worker[r] = "verdict" /\ \E w \in {"clear", "risk"} : worker' = [worker EXCEPT ![r] = w]
             /\ \E q \in Report : report' = [report EXCEPT ![r] = q]
             /\ UNCHANGED <<forced, fallback, held>> /\ Threaded(r)
  <2>1. p \in Report
    BY PipelineAssumption
  <2>2. \E q \in Report : report' = [report EXCEPT ![r] = q]
    BY <1>3, <2>1, ForcedReport, Zenon DEF Concludes
  <2> QED
    BY <1>3, <2>2 DEF Concludes
<1>4. CASE ClearsFlag(r) \/ RunRaises(r)
  BY <1>4 DEF ClearsFlag, RunRaises
<1>5. CASE Assigns(r)
  <2>1. worker[r] \in Field /\ NextField[worker[r]] \in {"done"} \cup Field
    BY <1>5, FieldOrder DEF Assigns
  <2> QED
    BY <1>5, <2>1 DEF Assigns
<1> QED
  BY <1>1, <1>2, <1>3, <1>4, <1>5 DEF Thread

\* The flags and the reports keep their types.
LEMMA NextReports ==
  ASSUME TypeOK, [Next]_vars
  PROVE  forced' \in [Agent -> BOOLEAN] /\ report' \in [Run -> Report \cup {NoReport}]
<1> USE DEF TypeOK
<1>1. ASSUME NEW r \in Run, Thread(r)
      PROVE  forced' \in [Agent -> BOOLEAN] /\ report' \in [Run -> Report \cup {NoReport}]
  <2>1. /\ report' = report \/ \E q \in Report : report' = [report EXCEPT ![r] = q]
        /\ forced' = forced \/ \E b \in BOOLEAN : forced' = [forced EXCEPT ![AgentOf(r)] = b]
    BY <1>1, ThreadForms
  <2>2. report' \in [Run -> Report \cup {NoReport}]
    BY <2>1
  <2>3. forced' \in [Agent -> BOOLEAN]
    BY <2>1, AgentType, Zenon
  <2> QED
    BY <2>2, <2>3
<1>2. ASSUME StartBacktest
      PROVE  forced' \in [Agent -> BOOLEAN] /\ report' \in [Run -> Report \cup {NoReport}]
  <2>1. \/ forced' = forced
        \/ forced' = [forced EXCEPT ![AgentOf(run)] = FALSE]
    BY <1>2, Zenon DEF StartBacktest, Enter, Refuse
  <2>2. report' = report \/ report' = [report EXCEPT ![run] = FailReport]
    BY <1>2, Zenon DEF StartBacktest, Enter, Refuse
  <2>3. [forced EXCEPT ![AgentOf(run)] = FALSE] \in [Agent -> BOOLEAN]
    BY Zenon
  <2> QED
    BY <2>1, <2>2, <2>3, FailReportType
<1>3. ASSUME UNCHANGED vars \/ (Next /\ ~StartBacktest /\ ~(\E r \in Run : Thread(r)))
      PROVE  forced' = forced /\ report' = report
  BY <1>3, Zenon DEF Next, Evolve, Decide, Others, RunPipeline, QualityPasses, QualityBlocks,
     NonTradingDay, StagePasses, StageBlocks, NoCandidates, BacktestTimesOut, VerdictPass,
     VerdictFail, VerdictWarn, EvidencePresent, Reads, VerifyPolicy, Deploy, DeployStops,
     Closes, Review, ReviewCloses, HotPath, threads, vars
<1> QED
  BY <1>1, <1>2, <1>3, Zenon

\* Every step keeps the types.
LEMMA NextTypeOK == TypeOK /\ Placed /\ [Next]_vars => TypeOK'
<1> SUFFICES ASSUME TypeOK, Placed, [Next]_vars,
                    forced' \in [Agent -> BOOLEAN], report' \in [Run -> Report \cup {NoReport}]
             PROVE  TypeOK'
  BY NextReports
<1> USE PipelineAssumption, MovedType
        DEF TypeOK, Phases, DeploySteps, Run, NoRun, PipelineState, ModeA, ModeB,
            Request, Continue, Close, threads, operated, history
<1>1. CASE RunPipeline
  <2>1. run' \in 0 .. MaxRuns
    BY <1>1 DEF RunPipeline
  <2>2. held' \in [Field -> 0 .. MaxRuns]
    BY <1>1 DEF RunPipeline, NothingHeld
  <2>3. phase' \in Phases /\ machine' \in PipelineState
    BY <1>1, StageOrder DEF RunPipeline
  <2>4. /\ result' = "running" /\ bundle' = 0 /\ seen' = seen
        /\ UNCHANGED <<worker, tested, fallback, operator, reviews, handed, deployed, disturbed>>
    BY <1>1 DEF RunPipeline
  <2> QED
    <3> HIDE DEF Phases, PipelineState, DeploySteps, Field, Run
    <3> QED
      BY <2>1, <2>2, <2>3, <2>4
<1>2. CASE QualityPasses \/ QualityBlocks \/ NonTradingDay
  BY <1>2, StageOrder DEF QualityPasses, QualityBlocks, NonTradingDay
<1>3. CASE StagePasses
  <2>1. phase' \in Phases /\ run' = run /\ result' = result /\ machine' = machine
    BY <1>3, StageOrder DEF StagePasses
  <2>2. bundle' \in 0 .. MaxRuns
    BY <1>3 DEF StagePasses, Issued
  <2> QED
    BY <1>3, <2>1, <2>2 DEF StagePasses
<1>4. CASE StageBlocks
  <2>1. bundle' \in 0 .. MaxRuns
    BY <1>4 DEF StageBlocks, Issued
  <2> QED
    BY <1>4, <2>1 DEF StageBlocks
<1>5. CASE NoCandidates
  BY <1>5 DEF NoCandidates
<1>6. CASE StartBacktest
  <2>1. run \in Run /\ bundle \in 0 .. MaxRuns
    BY <1>6 DEF StartBacktest, Placed
  <2>2. worker' \in [Run -> {"none", "universe", "engine", "verdict", "clear", "done"} \cup Field]
    BY <1>6, <2>1 DEF StartBacktest, Enter, Refuse
  <2>3. tested' \in [Run -> 0 .. MaxRuns] /\ fallback' \subseteq Run
    BY <1>6, <2>1, ZenonT(40) DEF StartBacktest, Enter, Refuse
  <2> QED
    BY <1>6, <2>2, <2>3 DEF StartBacktest
<1>7. CASE BacktestTimesOut \/ VerdictPass \/ VerdictFail
  BY <1>7 DEF BacktestTimesOut, VerdictPass, VerdictFail
<1>8. CASE VerdictWarn
  BY <1>8, SMTT(30) DEF VerdictWarn
<1>9. CASE EvidencePresent \/ VerifyPolicy
  BY <1>9 DEF EvidencePresent, VerifyPolicy
<1>19. CASE DeployStops
  <2>1. seen' \in [Field -> 0 .. MaxRuns]
    BY <1>19 DEF DeployStops, NothingHeld
  <2>2. phase' = "close" /\ result' = "blocked" /\ UNCHANGED <<machine, run, bundle, held, threads, operated, history>>
    BY <1>19 DEF DeployStops
  <2> QED
    BY <2>1, <2>2
<1>10. CASE Deploy
  <2>1. run \in Run /\ phase' = "close" /\ result' = "deployed"
    BY <1>10 DEF Deploy, Placed
  <2>2. seen' \in [Field -> 0 .. MaxRuns]
    BY <1>10 DEF Deploy, NothingHeld
  <2>3. handed' \in [Run -> [Field -> 0 .. MaxRuns]] /\ deployed' \subseteq Run
    BY <1>10, <2>1 DEF Deploy
  <2> QED
    BY <1>10, <2>1, <2>2, <2>3 DEF Deploy
<1>18. CASE Reads
  <2>1. phase \in Field /\ phase' \in Phases
    BY <1>18, FieldOrder DEF Reads, Field
  <2>2. seen' \in [Field -> 0 .. MaxRuns]
    BY <1>18, <2>1 DEF Reads
  <2> QED
    BY <1>18, <2>1, <2>2 DEF Reads
<1>11. CASE Closes
  BY <1>11 DEF Closes
<1>12. ASSUME NEW r \in Run, Thread(r) PROVE TypeOK'
  <2>1. PICK w \in {"engine", "verdict", "clear", "done"} \cup Field :
          worker' = [worker EXCEPT ![r] = w]
    BY <1>12, ThreadForms
  <2>2. /\ fallback' \in {fallback, fallback \cup {r}}
        /\ held' = held \/ \E f \in Field : held' = [held EXCEPT ![f] = r]
        /\ Threaded(r)
    BY <1>12, ThreadForms
  <2>3. worker' \in [Run -> {"none", "universe", "engine", "verdict", "clear", "done"} \cup Field]
    BY <2>1
  <2>4. held' \in [Field -> 0 .. MaxRuns] /\ fallback' \subseteq Run
    <3>1. r \in 0 .. MaxRuns
      OBVIOUS
    <3>2. held' \in [Field -> 0 .. MaxRuns]
      BY <2>2, <3>1, Zenon
    <3> QED
      BY <2>2, <3>2
  <2>5. disturbed' \subseteq Run
    BY <2>2 DEF Threaded, Disturbs, Placed, Validating
  <2> QED
    <3> HIDE DEF Phases, PipelineState, DeploySteps, Field, Run
    <3> QED
      BY <2>2, <2>3, <2>4, <2>5 DEF Threaded
<1>14. ASSUME NEW approved \in BOOLEAN, Review(approved) PROVE TypeOK'
  BY <1>14 DEF Review
<1>15. CASE ReviewCloses
  BY <1>15 DEF ReviewCloses
<1>16. ASSUME NEW target \in HotPathTargets, HotPath(target) PROVE TypeOK'
  BY <1>16 DEF HotPath, HotPathTargets
<1>17. CASE UNCHANGED vars
  <2> HIDE DEF Phases, PipelineState, DeploySteps, Field, Run
  <2> QED
    BY <1>17 DEF vars
<1> QED
  BY <1>1, <1>2, <1>3, <1>4, <1>5, <1>6, <1>7, <1>8, <1>9, <1>10, <1>11, <1>12, <1>14,
     <1>15, <1>16, <1>17, <1>18, <1>19
     DEF Next, Evolve, Decide, Others

-----------------------------------------------------------------------------
(***************************************************************************)
(* Where the run is.                                                       *)
(***************************************************************************)

\* A thread that steps is no thread of a run that is done, and it leaves the
\* reports of those alone.
LEMMA ThreadSteps ==
  ASSUME TypeOK, Placed, NEW r \in Run, Thread(r)
  PROVE  /\ worker[r] # "done" /\ worker[r] # "none" /\ r <= run
         /\ worker'[r] \notin {"none", "universe"}
         /\ UNCHANGED <<machine, phase, run, bundle, seen, tested, operated, handed, deployed>>
         /\ fallback' \in {fallback, fallback \cup {r}}
         /\ disturbed' = IF r < run /\ phase \in Validating THEN disturbed \cup {run} ELSE disturbed
         /\ \A t \in Run : t # r => worker'[t] = worker[t] /\ report'[t] = report[t]
<1>1. worker[r] # "done" /\ worker[r] # "none"
  BY ThreadForms DEF Working, Field
<1>2. r <= run
  BY <1>1, PipelineAssumption DEF Placed, Run, TypeOK
<1>3. PICK w \in {"engine", "verdict", "clear", "done"} \cup Field :
        worker' = [worker EXCEPT ![r] = w]
  BY ThreadForms
<1>4. worker'[r] \notin {"none", "universe"}
  BY <1>3 DEF TypeOK, Field
<1>5. Threaded(r) /\ fallback' \in {fallback, fallback \cup {r}}
  BY ThreadForms
<1>6. report' = report \/ \E q \in Report : report' = [report EXCEPT ![r] = q]
  BY ThreadForms
<1>7. \A t \in Run : t # r => worker'[t] = worker[t] /\ report'[t] = report[t]
  BY <1>3, <1>6 DEF TypeOK
<1> QED
  BY <1>1, <1>2, <1>4, <1>5, <1>7 DEF Threaded, Disturbs

\* Initially there is no run.
LEMMA InitPlaced == Init => Placed
BY PipelineAssumption DEF Init, Placed, Issuing, Validating, DeploySteps, Run, NoRun

\* Every step keeps it.
LEMMA NextPlaced == TypeOK /\ Placed /\ [Next]_vars => Placed'
<1> SUFFICES ASSUME TypeOK, Placed, [Next]_vars PROVE Placed'
  OBVIOUS
<1> USE PipelineAssumption, StageOrder
        DEF TypeOK, Placed, Issuing, Validating, DeploySteps, Run, NoRun, Continue, Close,
            threads, operated, history
<1>1. CASE RunPipeline
  BY <1>1 DEF RunPipeline
<1>2. CASE QualityPasses \/ QualityBlocks \/ NonTradingDay
  BY <1>2 DEF QualityPasses, QualityBlocks, NonTradingDay
<1>3. CASE StagePasses
  BY <1>3 DEF StagePasses, Issued
<1>4. CASE StageBlocks
  BY <1>4 DEF StageBlocks, Issued
<1>5. CASE NoCandidates
  BY <1>5 DEF NoCandidates
<1>6. CASE StartBacktest
  <2>1. /\ phase = "candidates" /\ phase' = "stage_6" /\ run' = run /\ bundle' = bundle
        /\ deployed' = deployed /\ disturbed' = disturbed /\ run \in Run
    BY <1>6 DEF StartBacktest
  <2>2. \A r \in Run : r # run => worker'[r] = worker[r] /\ tested'[r] = tested[r]
    BY <1>6 DEF StartBacktest, Enter, Refuse
  <2>3. worker'[run] # "none" /\ tested'[run] \in {NoRun, run}
    BY <1>6 DEF StartBacktest, Enter, Refuse
  <2>4. fallback' = fallback /\ run \notin fallback
    BY <1>6, <2>1 DEF StartBacktest, Enter, Refuse
  <2>5. \A r \in Run : r > run => worker'[r] = "none" /\ r \notin deployed /\ r \notin disturbed
    BY <2>2
  <2>6. \A r \in Run : worker'[r] \in {"none", "universe"} => r \notin fallback'
    BY <2>2, <2>3, <2>4
  <2>7. \A r \in Run : tested'[r] \in {NoRun, r}
    BY <2>2, <2>3
  <2>8. bundle = run /\ run \notin deployed
    BY <2>1
  <2> QED
    BY <2>1, <2>5, <2>6, <2>7, <2>8
<1>7. CASE BacktestTimesOut \/ VerdictPass \/ VerdictFail \/ VerdictWarn
  BY <1>7 DEF BacktestTimesOut, VerdictPass, VerdictFail, VerdictWarn, Answered
<1>8. CASE EvidencePresent \/ VerifyPolicy \/ DeployStops
  BY <1>8 DEF EvidencePresent, VerifyPolicy, DeployStops
<1>14. CASE Reads
  BY <1>14, FieldOrder DEF Reads, Field
<1>9. CASE Deploy
  BY <1>9 DEF Deploy
<1>10. CASE Closes
  BY <1>10 DEF Closes
<1>11. ASSUME NEW r \in Run, Thread(r) PROVE Placed'
  <2>1. /\ worker[r] # "none" /\ worker'[r] \notin {"none", "universe"} /\ r <= run
        /\ UNCHANGED <<phase, run, bundle, tested, deployed>>
        /\ fallback' \in {fallback, fallback \cup {r}}
        /\ \A t \in Run : t # r => worker'[t] = worker[t]
    <3> HIDE DEF TypeOK, Placed, Validating, DeploySteps
    <3> QED
      BY <1>11, ThreadSteps
  <2>2. disturbed' \subseteq disturbed \cup {run} /\ (disturbed' # disturbed => phase \in Validating)
    BY <1>11, ThreadSteps
  <2>3. \A t \in Run : t > run \/ (t = run /\ phase \in DOMAIN NextStage \cup {"candidates"})
                       => worker'[t] = "none" /\ t \notin disturbed'
    BY <2>1, <2>2
  <2>4. \A t \in Run : worker'[t] \in {"none", "universe"} => t \notin fallback'
    BY <2>1
  <2> QED
    BY <2>1, <2>3, <2>4
<1>12. CASE Others
  BY <1>12 DEF Others, Review, ReviewCloses, HotPath
<1>13. CASE UNCHANGED vars
  BY <1>13 DEF vars
<1> QED
  BY <1>1, <1>2, <1>3, <1>4, <1>5, <1>6, <1>7, <1>8, <1>9, <1>10, <1>11, <1>12, <1>13,
     <1>14
     DEF Next, Evolve, Decide

-----------------------------------------------------------------------------
(***************************************************************************)
(* Who deploys.                                                            *)
(***************************************************************************)

\* Outside the threads and stage 6's start, threads keep their state; outside
\* Deploy, so do the deployments.
LEMMA ThreadsKept ==
  ASSUME [Next]_vars, ~(\E r \in Run : Thread(r)), ~StartBacktest
  PROVE  /\ UNCHANGED <<worker, tested, report, fallback, forced, disturbed>>
         /\ Deploy \/ UNCHANGED <<handed, deployed>>
         /\ RunPipeline \/ UNCHANGED <<run, held>>
BY Zenon DEF Next, Evolve, Decide, Others, RunPipeline, QualityPasses, QualityBlocks,
   NonTradingDay, StagePasses, StageBlocks, NoCandidates, BacktestTimesOut, VerdictPass,
   VerdictFail, VerdictWarn, EvidencePresent, Reads, VerifyPolicy, Deploy, DeployStops,
   Closes, Review, ReviewCloses, HotPath, Continue, Close, threads, operated, history, vars

\* Only StartBacktest enters stage 6.
LEMMA BacktestEntered ==
  ASSUME TypeOK, [Next]_vars, ~(\E r \in Run : Thread(r)), ~StartBacktest, phase' = "stage_6"
  PROVE  phase = "stage_6" /\ run' = run
<1> USE StageOrder DEF TypeOK, Phases, Continue, Close
<1>1. CASE Evolve
  BY <1>1 DEF Evolve, RunPipeline, QualityPasses, QualityBlocks, NonTradingDay, StagePasses,
     StageBlocks, NoCandidates
<1>2. CASE Decide
  BY <1>2, FieldOrder DEF Decide, BacktestTimesOut, VerdictPass, VerdictFail, VerdictWarn,
     EvidencePresent, Reads, VerifyPolicy, Deploy, DeployStops, Closes, Field
<1>3. CASE Others
  BY <1>3 DEF Others, Review, ReviewCloses, HotPath
<1>4. CASE UNCHANGED vars
  BY <1>4 DEF vars
<1> QED
  BY <1>1, <1>2, <1>3, <1>4 DEF Next

\* The pipeline enters its deployment only by a pass, and then goes through it
\* step by step.
LEMMA DeployEntered ==
  ASSUME TypeOK, [Next]_vars, phase' \in DeploySteps
  PROVE  \/ VerdictPass /\ phase' = "stage_7"
         \/ EvidencePresent /\ phase' = "risk"
         \/ Reads /\ phase \in DeploySteps /\ run' = run
         \/ VerifyPolicy /\ phase' = "sanity"
         \/ phase' = phase /\ run' = run /\ seen' = seen
<1> USE StageOrder DEF DeploySteps, Field, TypeOK, Phases, Continue, Close
<1>1. CASE Evolve
  BY <1>1 DEF Evolve, RunPipeline, QualityPasses, QualityBlocks, NonTradingDay, StagePasses,
     StageBlocks, NoCandidates, StartBacktest
<1>2. CASE Decide
  BY <1>2 DEF Decide, BacktestTimesOut, VerdictPass, VerdictFail, VerdictWarn, EvidencePresent,
     Reads, VerifyPolicy, Deploy, DeployStops, Closes
<1>3. CASE Others
  BY <1>3 DEF Others, Review, ReviewCloses, HotPath
<1>4. ASSUME NEW r \in Run, Thread(r) PROVE phase' = phase /\ run' = run /\ seen' = seen
  BY <1>4, ThreadForms DEF Threaded
<1>5. CASE UNCHANGED vars
  BY <1>5 DEF vars
<1> QED
  BY <1>1, <1>2, <1>3, <1>4, <1>5 DEF Next

\* Initially nothing is deployed.
LEMMA InitPassed == Init => Passed
BY DEF Init, Passed, DeploySteps

\* Every step keeps it.
LEMMA NextPassed == TypeOK /\ Placed /\ Passed /\ [Next]_vars => Passed'
<1> SUFFICES ASSUME TypeOK, Placed, Passed, [Next]_vars PROVE Passed'
  OBVIOUS
<1>1. ASSUME NEW r \in Run, Thread(r) PROVE Passed'
  <2>1. /\ worker[r] # "done" /\ UNCHANGED <<phase, run, tested, handed, deployed>>
        /\ \A t \in Run : t # r => worker'[t] = worker[t] /\ report'[t] = report[t]
    BY <1>1, ThreadSteps
  <2>2. ASSUME NEW t \in Run, PassedReport(t) PROVE PassedReport(t)'
    BY <2>1, <2>2 DEF PassedReport, Critical
  <2>3. phase \in DeploySteps => run \in Run
    BY DEF Placed, DeploySteps
  <2>4. phase' \in DeploySteps => PassedReport(run)'
    BY <2>1, <2>2, <2>3 DEF Passed, PassedReport
  <2> QED
    BY <2>1, <2>2, <2>4 DEF Passed, TypeOK
<1>2. CASE StartBacktest
  <2>1. /\ phase = "candidates" /\ phase' = "stage_6" /\ run' = run /\ UNCHANGED <<handed, deployed>>
        /\ run \in Run /\ run \notin deployed
    BY <1>2 DEF StartBacktest, Continue, history, Placed
  <2>2. \A t \in Run : t # run => /\ worker'[t] = worker[t] /\ report'[t] = report[t]
                                  /\ tested'[t] = tested[t]
    BY <1>2, <2>1 DEF StartBacktest, Enter, Refuse, TypeOK
  <2> QED
    BY <2>1, <2>2 DEF Passed, PassedReport, Critical, TypeOK, DeploySteps
<1>3. ASSUME ~(\E r \in Run : Thread(r)), ~StartBacktest PROVE Passed'
  <2>1. UNCHANGED <<worker, tested, report>> /\ (Deploy \/ UNCHANGED <<handed, deployed>>)
    BY <1>3, ThreadsKept
  <2>2. ASSUME phase' \in DeploySteps PROVE PassedReport(run)'
    <3>1. PassedReport(run) /\ run' = run
      BY <2>2, DeployEntered
         DEF Passed, VerdictPass, Answered, PassedReport, EvidencePresent, VerifyPolicy, Continue,
             DeploySteps
    <3> QED
      BY <3>1, <2>1 DEF PassedReport, Critical
  <2>3. ASSUME Deploy
        PROVE  \A r \in deployed' : /\ r \in deployed \/ r = run
                                    /\ PassedReport(r) /\ handed'[r]["policy"] = r /\ tested[r] = r
    <3>1. /\ phase = "deploy" /\ run \in Run /\ bundle = run
          /\ handed' = [handed EXCEPT ![run] = seen] /\ deployed' = deployed \cup {run}
      BY <2>3 DEF Deploy, Placed, Issuing, Validating, DeploySteps
    <3>2. seen["policy"] \in Run /\ tested[seen["policy"]] = run
      BY <2>3, <3>1, PipelineAssumption
         DEF Deploy, GatePassed, Verifies, TypeOK, Field, Run, NoRun
    <3>3. seen["policy"] = run
      BY <3>1, <3>2 DEF Placed, Run, NoRun
    <3>4. handed'[run]["policy"] = run
      BY <3>1, <3>3 DEF TypeOK, Field
    <3>5. \A r \in deployed : r # run => handed'[r] = handed[r]
      BY <3>1 DEF TypeOK
    <3>6. PassedReport(run)
      BY <3>1 DEF Passed, DeploySteps
    <3> QED
      BY <3>1, <3>2, <3>3, <3>4, <3>5, <3>6 DEF Passed
  <2> QED
    BY <2>1, <2>2, <2>3 DEF Passed, PassedReport, Critical
<1> QED
  BY <1>1, <1>2, <1>3

-----------------------------------------------------------------------------
(***************************************************************************)
(* Whose evidence it is.                                                   *)
(***************************************************************************)

\* Initially there is no evidence.
LEMMA InitOwnFields == Init => OwnFields
BY DEF Init, OwnFields, SeenOwn, Validating, DeploySteps

\* A run's own thread assigns one field after the other.
LEMMA AssignsOwn ==
  ASSUME TypeOK, NEW r \in Run, Assigns(r), AssignedOwn(r)
  PROVE  AssignedOwn(r)'
<1>1. worker[r] \in Field /\ worker'[r] = NextField[worker[r]]
  BY DEF Assigns, TypeOK
<1>2. held'[worker[r]] = r /\ \A f \in Field : f # worker[r] => held'[f] = held[f]
  BY <1>1 DEF Assigns, TypeOK
<1>3. "risk" \in Field /\ "sanity" \in Field /\ "quality" \in Field /\ "policy" \in Field
  BY DEF Field
<1>4. CASE worker[r] = "risk"
  BY <1>1, <1>2, <1>4, FieldOrder DEF AssignedOwn
<1>5. CASE worker[r] = "sanity"
  BY <1>1, <1>2, <1>3, <1>5, FieldOrder DEF AssignedOwn
<1>6. CASE worker[r] = "quality"
  BY <1>1, <1>2, <1>3, <1>6, FieldOrder DEF AssignedOwn
<1>7. CASE worker[r] = "policy"
  BY <1>1, <1>2, <1>3, <1>7, FieldOrder DEF AssignedOwn
<1> QED
  BY <1>1, <1>4, <1>5, <1>6, <1>7 DEF Field

\* A step of a thread keeps it: that of an older run leaves its mark in
\* disturbed.
LEMMA ThreadOwn ==
  ASSUME TypeOK, Placed, OwnFields, NEW r \in Run, Thread(r)
  PROVE  OwnFields'
<1>1. /\ r <= run /\ UNCHANGED <<phase, run, seen, handed, deployed>>
      /\ disturbed' = IF r < run /\ phase \in Validating THEN disturbed \cup {run} ELSE disturbed
  BY ThreadSteps
<1>2. ASSUME phase \in Validating, run \notin disturbed', report'[run].verdict # "fail"
      PROVE  AssignedOwn(run)'
  <2>1. r = run /\ run \notin disturbed /\ run \in Run
    BY <1>1, <1>2 DEF TypeOK, Run, Placed, Validating, DeploySteps
  <2>2. ASSUME ~Assigns(r) PROVE AssignedOwn(r)'
    <3>1. CASE ReadsUniverse(r) \/ EngineReturns(r) \/ EngineRaises(r) \/ ClearsFlag(r)
      BY <3>1 DEF ReadsUniverse, EngineReturns, EngineRaises, ClearsFlag, AssignedOwn, TypeOK
    <3>2. ASSUME NEW p, Concludes(r, p) PROVE AssignedOwn(r)'
      BY <3>2 DEF Concludes, AssignedOwn, TypeOK
    <3>3. ~RunRaises(r)
      BY <1>2, <2>1, FailReportType DEF RunRaises, TypeOK
    <3> QED
      BY <2>2, <3>1, <3>2, <3>3 DEF Thread
  <2>3. ASSUME Assigns(r) PROVE AssignedOwn(r)'
    <3>1. report' = report
      BY <2>3 DEF Assigns
    <3>2. AssignedOwn(r)
      BY <1>1, <1>2, <2>1, <3>1 DEF OwnFields, AssignedOwn
    <3> QED
      BY <2>3, <3>2, AssignsOwn
  <2>4. AssignedOwn(r)'
    BY <2>2, <2>3
  <2> QED
    BY <1>1, <2>1, <2>4 DEF AssignedOwn
<1>3. run' \notin disturbed' => SeenOwn'
  BY <1>1 DEF OwnFields, SeenOwn
<1>4. \A t \in deployed' \ disturbed' : \A f \in Field : handed'[t][f] = t
  BY <1>1 DEF OwnFields
<1> QED
  BY <1>1, <1>2, <1>3, <1>4 DEF OwnFields

\* Every step keeps it.
LEMMA NextOwnFields == TypeOK /\ Placed /\ Passed /\ OwnFields /\ [Next]_vars => OwnFields'
<1> SUFFICES ASSUME TypeOK, Placed, Passed, OwnFields, [Next]_vars PROVE OwnFields'
  OBVIOUS
<1>1. ASSUME NEW r \in Run, Thread(r) PROVE OwnFields'
  BY <1>1, ThreadOwn
<1>2. CASE StartBacktest
  <2>1. /\ phase' = "stage_6" /\ run' = run /\ run \in Run
        /\ UNCHANGED <<handed, deployed, disturbed>>
    BY <1>2 DEF StartBacktest, Continue, history, Placed
  <2>2. worker'[run] = "universe" \/ (worker'[run] = "done" /\ report'[run].verdict = "fail")
    BY <1>2, <2>1, FailReportType DEF StartBacktest, Enter, Refuse, TypeOK
  <2> QED
    BY <2>1, <2>2 DEF OwnFields, AssignedOwn, SeenOwn
<1>3. ASSUME ~(\E r \in Run : Thread(r)), ~StartBacktest PROVE OwnFields'
  <2>1. /\ UNCHANGED <<worker, report, disturbed>>
        /\ Deploy \/ UNCHANGED <<handed, deployed>>
        /\ RunPipeline \/ UNCHANGED <<run, held>>
    BY <1>3, ThreadsKept
  <2>2. ASSUME phase' \in Validating
        PROVE  phase \in Validating /\ UNCHANGED <<run, held>>
    <3>1. phase' # "stage_0"
      BY <2>2 DEF Validating, DeploySteps
    <3>2. UNCHANGED <<run, held>>
      BY <2>1, <3>1 DEF RunPipeline
    <3>3. CASE phase' = "stage_6"
      BY <1>3, <3>2, <3>3, BacktestEntered DEF Validating
    <3>4. CASE phase' \in DeploySteps
      BY <3>2, <3>4, DeployEntered
         DEF VerdictPass, Answered, EvidencePresent, VerifyPolicy, Validating, DeploySteps
    <3> QED
      BY <2>2, <3>2, <3>3, <3>4 DEF Validating
  <2>3. phase' \in Validating /\ run' \notin disturbed' /\ report'[run'].verdict # "fail"
          => AssignedOwn(run)'
    BY <2>1, <2>2 DEF OwnFields, AssignedOwn
  <2>4. ASSUME phase \in DeploySteps, run \notin disturbed PROVE AssignedOwn(run) /\ worker[run] = "done"
    BY <2>4 DEF Passed, PassedReport, OwnFields, Validating
  <2>5. ASSUME run' \notin disturbed' PROVE SeenOwn'
    <3> SUFFICES ASSUME phase' \in DeploySteps PROVE SeenOwn'
      BY DEF SeenOwn, DeploySteps
    <3>1. run' = run /\ run \notin disturbed /\ SeenOwn
      BY <2>1, <2>2, <2>5 DEF OwnFields, Validating
    <3>2. CASE VerdictPass \/ EvidencePresent
      BY <3>2 DEF VerdictPass, EvidencePresent, Continue, SeenOwn
    <3>3. CASE VerifyPolicy
      BY <3>1, <3>3 DEF VerifyPolicy, Continue, SeenOwn
    <3>4. CASE phase' = phase /\ seen' = seen
      BY <3>1, <3>4 DEF SeenOwn
    <3>5. CASE Reads
      <4>1. phase \in Field /\ phase' = NextRead[phase]
            /\ seen' = [seen EXCEPT ![phase] = held[phase]]
        BY <3>5 DEF Reads, Continue
      <4>2. \A f \in Field : held[f] = run
        BY <2>4, <3>1, <4>1 DEF AssignedOwn, DeploySteps, Field
      <4>3. seen'[phase] = run /\ \A f \in Field : f # phase => seen'[f] = seen[f]
        BY <4>1, <4>2 DEF TypeOK
      <4> QED
        BY <3>1, <4>1, <4>3, FieldOrder DEF SeenOwn, Field
    <3> QED
      BY <3>2, <3>3, <3>4, <3>5, DeployEntered
  <2>6. ASSUME Deploy
        PROVE  \A r \in deployed' \ disturbed' : \A f \in Field : handed'[r][f] = r
    <3>1. /\ phase = "deploy" /\ run \in Run
          /\ handed' = [handed EXCEPT ![run] = seen] /\ deployed' = deployed \cup {run}
      BY <2>6 DEF Deploy, Placed
    <3>2. \A r \in deployed : r # run => handed'[r] = handed[r]
      BY <3>1 DEF TypeOK
    <3>3. ASSUME run \notin disturbed, NEW f \in Field PROVE handed'[run][f] = run
      <4>1. \A g \in Field : seen[g] = run
        BY <3>1, <3>3 DEF OwnFields, SeenOwn, Field
      <4>2. handed'[run] = seen
        BY <3>1 DEF TypeOK
      <4> QED
        BY <4>1, <4>2
    <3> QED
      BY <2>1, <3>1, <3>2, <3>3 DEF OwnFields
  <2> QED
    BY <2>1, <2>3, <2>5, <2>6 DEF OwnFields
<1> QED
  BY <1>1, <1>2, <1>3

-----------------------------------------------------------------------------
(***************************************************************************)
(* The forced verdict.                                                     *)
(***************************************************************************)

\* Initially no backtest has fallen back.
LEMMA InitFlagKept == Init => FlagKept
BY DEF Init, FlagKept, DeploySteps

\* A doubtful backtest whose agent is its own raises its flag and finds it up;
\* the steps of other threads leave flag and verdict alone.
LEMMA ThreadFlag ==
  ASSUME TypeOK, Placed, FlagKept, NEW t \in Run, Thread(t),
         NEW r \in Run, r \in fallback', Alone(r)'
  PROVE  FlagUp(r)'
<1>1. /\ t <= run /\ UNCHANGED <<phase, run>> /\ fallback' \in {fallback, fallback \cup {t}}
      /\ disturbed' = IF t < run /\ phase \in Validating THEN disturbed \cup {run} ELSE disturbed
      /\ \A u \in Run : u # t => worker'[u] = worker[u] /\ report'[u] = report[u]
  BY ThreadSteps
<1>2. Alone(r)
  BY <1>1 DEF Alone
<1>3. r \in fallback => FlagUp(r)
  BY <1>2 DEF FlagKept
<1>4. CASE r # t
  <2>1. ~SharedAgent
    BY <1>1, <1>4 DEF Alone, Validating, Run, TypeOK
  <2>2. AgentOf(r) # AgentOf(t) /\ AgentOf(r) \in Agent
    BY <1>4, <2>1, AgentType DEF AgentOf
  <2>3. forced' = forced \/ \E b \in BOOLEAN : forced' = [forced EXCEPT ![AgentOf(t)] = b]
    BY ThreadForms
  <2>4. forced'[AgentOf(r)] = forced[AgentOf(r)]
    BY <2>2, <2>3, Zenon DEF TypeOK
  <2>5. FlagUp(r) /\ worker'[r] = worker[r] /\ report'[r] = report[r] /\ AgentOf(r)' = AgentOf(r)
    BY <1>1, <1>3, <1>4 DEF AgentOf
  <2> QED
    BY <2>4, <2>5, Zenon DEF FlagUp
<1>5. CASE r = t
  <2>1. AgentOf(r) \in Agent /\ AgentOf(r)' = AgentOf(r)
    BY AgentType DEF AgentOf
  <2>2. ASSUME ReadsUniverse(r) \/ EngineReturns(r) PROVE FlagUp(r)'
    <3>1. worker'[r] \in {"engine", "verdict"}
      BY <2>2 DEF ReadsUniverse, EngineReturns, TypeOK
    <3>2. PICK doubtful \in BOOLEAN : Forces(r, doubtful)
      BY <2>2 DEF ReadsUniverse, EngineReturns
    <3>3. worker[r] = "universe" => r \notin fallback
      BY DEF Placed
    <3>4. CASE doubtful
      <4>1. forced'[AgentOf(r)] = TRUE
        BY <2>1, <3>2, <3>4, Zenon DEF Forces, TypeOK
      <4> QED
        BY <2>1, <3>1, <4>1 DEF FlagUp, Field
    <3>5. CASE ~doubtful
      <4>1. r \in fallback /\ forced' = forced
        BY <3>2, <3>5 DEF Forces
      <4>2. worker[r] = "engine" /\ FlagUp(r)
        BY <1>3, <2>2, <3>3, <4>1 DEF ReadsUniverse, EngineReturns
      <4>3. forced'[AgentOf(r)] = TRUE
        BY <4>1, <4>2 DEF FlagUp
      <4> QED
        BY <2>1, <3>1, <4>3 DEF FlagUp, Field
    <3> QED
      BY <3>4, <3>5
  <2>3. ASSUME EngineRaises(r) \/ RunRaises(r) PROVE FlagUp(r)'
    BY <2>3, FailReportType DEF EngineRaises, RunRaises, FlagUp, TypeOK
  <2>4. ASSUME NEW p \in Reports \cup {FailReport}, Concludes(r, p) PROVE FlagUp(r)'
    <3>1. /\ worker[r] = "verdict" /\ fallback' = fallback
          /\ \E w \in {"clear", "risk"} : worker' = [worker EXCEPT ![r] = w]
      BY <2>4 DEF Concludes
    <3>2. forced[AgentOf(r)] = TRUE
      BY <1>3, <3>1 DEF FlagUp
    <3>3. report' = [report EXCEPT ![r] = [p EXCEPT !.verdict = "fail", !.flagged = TRUE]]
      BY <2>4, <3>2 DEF Concludes
    <3>4. p \in Report
      BY FailReportType, PipelineAssumption
    <3>5. report'[r].verdict = "fail"
      BY <3>3, <3>4 DEF TypeOK, Report
    <3>6. worker'[r] \notin {"engine", "verdict"}
      BY <3>1 DEF TypeOK
    <3> QED
      BY <3>5, <3>6 DEF FlagUp
  <2>5. ASSUME ClearsFlag(r) \/ Assigns(r) PROVE FlagUp(r)'
    <3>1. /\ worker[r] \in {"clear"} \cup Field /\ report' = report /\ fallback' = fallback
          /\ worker'[r] \in {"done"} \cup Field
      BY <2>5, FieldOrder DEF ClearsFlag, Assigns, TypeOK, Field
    <3>2. report[r].verdict = "fail"
      BY <1>3, <3>1 DEF FlagUp
    <3> QED
      BY <3>1, <3>2 DEF FlagUp, Field
  <2> QED
    BY <1>5, <2>2, <2>3, <2>4, <2>5 DEF Thread
<1> QED
  BY <1>4, <1>5

\* Every step keeps it.
LEMMA NextFlagKept == TypeOK /\ Placed /\ Passed /\ FlagKept /\ [Next]_vars => FlagKept'
<1> SUFFICES ASSUME TypeOK, Placed, Passed, FlagKept, [Next]_vars PROVE FlagKept'
  OBVIOUS
<1>1. ASSUME NEW t \in Run, Thread(t) PROVE FlagKept'
  <2>1. /\ UNCHANGED <<phase, run, deployed>> /\ worker[t] # "done"
        /\ fallback' \in {fallback, fallback \cup {t}} /\ disturbed \subseteq disturbed'
    BY <1>1, ThreadSteps
  <2>2. \A r \in fallback' : Alone(r)' => FlagUp(r)'
    BY <1>1, <2>1, ThreadFlag DEF TypeOK
  <2>3. (phase \in DeploySteps => t # run) /\ t \notin deployed
    BY <2>1 DEF Passed, PassedReport
  <2>4. phase' \in DeploySteps /\ run' \in fallback' => SharedAgent /\ run' \in disturbed'
    BY <2>1, <2>3 DEF FlagKept
  <2>5. \A r \in deployed' \cap fallback' : SharedAgent /\ r \in disturbed'
    BY <2>1, <2>3 DEF FlagKept
  <2> QED
    BY <2>2, <2>4, <2>5 DEF FlagKept
<1>2. CASE StartBacktest
  <2>1. /\ phase = "candidates" /\ phase' = "stage_6" /\ run' = run /\ run \in Run
        /\ UNCHANGED <<deployed, disturbed>>
        /\ run \notin deployed /\ run \notin fallback
    BY <1>2 DEF StartBacktest, Continue, history, Placed
  <2>2. ASSUME NEW r \in Run, r # run
        PROVE  /\ worker'[r] = worker[r] /\ report'[r] = report[r]
               /\ ~SharedAgent => forced'[AgentOf(r)] = forced[AgentOf(r)]
    <3>1. worker'[r] = worker[r] /\ report'[r] = report[r]
      BY <1>2, <2>1, <2>2 DEF StartBacktest, Enter, Refuse, TypeOK
    <3>2. forced' = forced \/ forced' = [forced EXCEPT ![AgentOf(run)] = FALSE]
      BY <1>2, Zenon DEF StartBacktest, Enter, Refuse
    <3>3. ASSUME ~SharedAgent
          PROVE  AgentOf(r) # AgentOf(run) /\ AgentOf(r) \in Agent
      BY <2>2, <3>3, AgentType DEF AgentOf
    <3>4. ASSUME ~SharedAgent PROVE forced'[AgentOf(r)] = forced[AgentOf(r)]
      BY <3>2, <3>3, <3>4, Zenon DEF TypeOK
    <3> QED
      BY <3>1, <3>4
  <2>3. fallback' = fallback
    BY <1>2 DEF StartBacktest, Enter, Refuse
  <2>4. ASSUME NEW r \in fallback, Alone(r)'
        PROVE  FlagUp(r)'
    <3>1. r # run /\ r \in Run
      BY <2>1 DEF TypeOK
    <3>2. ~SharedAgent
      BY <2>1, <2>4, <3>1 DEF Alone
    <3>3. Alone(r) /\ AgentOf(r)' = AgentOf(r)
      BY <3>2 DEF Alone, AgentOf
    <3>4. FlagUp(r)
      BY <3>3 DEF FlagKept
    <3> QED
      BY <2>2, <3>1, <3>2, <3>3, <3>4, Zenon DEF FlagUp
  <2>5. phase' \notin DeploySteps
    BY <2>1 DEF DeploySteps
  <2>6. \A r \in deployed' \cap fallback' : SharedAgent /\ r \in disturbed'
    BY <2>1, <2>3 DEF FlagKept
  <2> QED
    BY <2>3, <2>4, <2>5, <2>6 DEF FlagKept
<1>3. ASSUME ~(\E r \in Run : Thread(r)), ~StartBacktest PROVE FlagKept'
  <2>1. /\ UNCHANGED <<worker, report, fallback, forced, disturbed>>
        /\ Deploy \/ UNCHANGED <<handed, deployed>>
    BY <1>3, ThreadsKept
  <2>2. ASSUME NEW r \in Run, Alone(r)' PROVE Alone(r)
    BY <1>3, <2>1, <2>2, BacktestEntered DEF Alone
  <2>3. ASSUME phase' \in DeploySteps, run' \in fallback PROVE SharedAgent /\ run' \in disturbed
    <3>1. CASE VerdictPass
      <4>1. /\ phase = "stage_6" /\ worker[run] = "done" /\ report[run].verdict = "pass"
            /\ run' = run
        BY <3>1 DEF VerdictPass, Answered, Continue
      <4>2. run \in fallback /\ ~Alone(run)
        BY <2>1, <2>3, <4>1 DEF FlagKept, FlagUp
      <4> QED
        BY <4>1, <4>2 DEF Alone
    <3>2. CASE phase \in DeploySteps /\ run' = run
      BY <2>3, <3>2 DEF FlagKept
    <3> QED
      BY <2>3, <3>1, <3>2, DeployEntered
         DEF EvidencePresent, VerifyPolicy, Continue, DeploySteps
  <2>4. ASSUME NEW r \in deployed' \cap fallback PROVE SharedAgent /\ r \in disturbed
    BY <2>1, <2>4 DEF Deploy, DeploySteps, FlagKept
  <2>5. fallback \subseteq Run /\ \A r \in Run : AgentOf(r)' = AgentOf(r)
    BY DEF TypeOK, AgentOf
  <2> QED
    BY <2>1, <2>2, <2>3, <2>4, <2>5 DEF FlagKept, FlagUp
<1> QED
  BY <1>1, <1>2, <1>3

-----------------------------------------------------------------------------
(***************************************************************************)
(* The passing states.                                                     *)
(***************************************************************************)

\* Initially the machine boots.
LEMMA InitClosing == Init => Closing
BY DEF Init, Closing

\* What a request does to the passing states.
LEMMA MovedPassing ==
  /\ \A s, t : Moved(s, t) \in {s, t}
  /\ \A t \in {"MODE_B_DEPLOY", "MODE_B_OPERATOR_REVIEW", "MODE_B_BLOCKED"} :
       Moved("MODE_B_BACKTEST", t) = t
  /\ Moved("MODE_B_DEPLOY", "MODE_B_IDLE") = "MODE_B_IDLE"
  /\ Moved("MODE_B_BLOCKED", "MODE_B_IDLE") = "MODE_B_IDLE"
<1>1. \A s, t : Moved(s, t) \in {s, t}
  BY DEF Moved
<1>2. /\ Special["MODE_B_BACKTEST"] = {"MODE_B_DEPLOY", "MODE_B_OPERATOR_REVIEW", "MODE_B_BLOCKED"}
      /\ Special["MODE_B_DEPLOY"] = {"MODE_B_IDLE"} /\ Special["MODE_B_BLOCKED"] = {"MODE_B_IDLE"}
  BY DEF Special
<1> QED
  BY <1>1, <1>2 DEF Moved, Allowed

\* Every step keeps it.
LEMMA NextClosing == TypeOK /\ Placed /\ Closing /\ [Next]_vars => Closing'
<1> SUFFICES ASSUME TypeOK, Placed, Closing, [Next]_vars PROVE Closing'
  OBVIOUS
<1> USE MovedPassing, StageOrder DEF Closing, Request, Continue, Close, operated, DeploySteps
<1>1. CASE RunPipeline
  BY <1>1 DEF RunPipeline
<1>2. CASE QualityPasses \/ QualityBlocks \/ NonTradingDay
  BY <1>2 DEF QualityPasses, QualityBlocks, NonTradingDay
<1>3. CASE StagePasses \/ StageBlocks
  BY <1>3 DEF StagePasses, StageBlocks
<1>4. CASE NoCandidates \/ StartBacktest
  BY <1>4 DEF NoCandidates, StartBacktest
<1>5. CASE BacktestTimesOut \/ VerdictPass \/ VerdictFail \/ VerdictWarn
  BY <1>5 DEF BacktestTimesOut, VerdictPass, VerdictFail, VerdictWarn, Answered
<1>6. CASE EvidencePresent \/ VerifyPolicy \/ Deploy \/ DeployStops
  BY <1>6 DEF EvidencePresent, VerifyPolicy, Deploy, DeployStops
<1>11. CASE Reads
  BY <1>11, FieldOrder DEF Reads, Field
<1>7. CASE Closes
  BY <1>7 DEF Closes
<1>8. ASSUME NEW r \in Run, Thread(r) PROVE Closing'
  BY <1>8, ThreadSteps
<1>9. CASE Others
  <2>1. ASSUME NEW approved \in BOOLEAN, Review(approved) PROVE Closing'
    BY <2>1 DEF Review
  <2>2. CASE ReviewCloses
    BY <2>2 DEF ReviewCloses
  <2>3. ASSUME NEW target \in HotPathTargets, HotPath(target) PROVE Closing'
    BY <2>3 DEF HotPath, HotPathTargets
  <2> QED
    BY <1>9, <2>1, <2>2, <2>3 DEF Others
<1>10. CASE UNCHANGED vars
  BY <1>10 DEF vars
<1> QED
  BY <1>1, <1>2, <1>3, <1>4, <1>5, <1>6, <1>7, <1>8, <1>9, <1>10, <1>11
     DEF Next, Evolve, Decide

-----------------------------------------------------------------------------
(***************************************************************************)
(* The theorems.                                                           *)
(***************************************************************************)

\* The inductive invariant holds of every behaviour.
THEOREM Invariant == Spec => []IInv
<1>1. Init => IInv
  BY InitTypeOK, InitPlaced, InitPassed, InitOwnFields, InitFlagKept, InitClosing DEF IInv
<1>2. IInv /\ [Next]_vars => IInv'
  BY NextTypeOK, NextPlaced, NextPassed, NextOwnFields, NextFlagKept, NextClosing DEF IInv
<1> QED
  BY <1>1, <1>2, PTL DEF Spec

\* Every variable of the scheduler, its state machine and its backtest threads
\* keeps its type.
THEOREM TypeCorrect == Spec => []TypeOK
<1>1. IInv => TypeOK
  BY DEF IInv
<1> QED
  BY <1>1, Invariant, PTL

\* stage_7 deploys a bundle only when its own backtest passed without a
\* critical alert, and with policy evidence of that bundle.
THEOREM OwnPass == Spec => [](OnlyOwnPass /\ OwnPolicyEvidence)
<1>1. IInv => OnlyOwnPass /\ OwnPolicyEvidence
  BY DEF IInv, Passed, PassedReport, OnlyOwnPass, OwnPolicyEvidence
<1> QED
  BY <1>1, Invariant, PTL

\* The policy evidence of a deployed bundle is about that bundle.
THEOREM OwnEvidence == Spec => []OwnPolicyEvidence
BY OwnPass, PTL

\* The evidence fields handed to the deployer all come from the run's own
\* backtest, when no older one was at work.
THEOREM OneRun == Spec => []EvidenceOfOneRun
<1>1. IInv => EvidenceOfOneRun
  BY DEF IInv, OwnFields, EvidenceOfOneRun
<1> QED
  BY <1>1, Invariant, PTL

\* A backtest of a reduced universe or a synthetic artifact is deployed at most
\* with a shared agent and an older backtest at work.
THEOREM FallbackContained == Spec => []FallbackNeverDeployed
<1>1. IInv => FallbackNeverDeployed
  BY DEF IInv, FlagKept, FallbackNeverDeployed
<1> QED
  BY <1>1, Invariant, PTL

\* run_pipeline leaves no passing state of the machine behind.
THEOREM PipelineCloses == Spec => []Closed
<1>1. IInv => Closed
  BY DEF IInv, Closing, Closed, DeploySteps
<1> QED
  BY <1>1, Invariant, PTL
-----------------------------------------------------------------------------
(***************************************************************************)
(* What EveningEnds rests on besides fairness: a pipeline that has not     *)
(* returned always has a step to take, and each one brings it closer to    *)
(* its return.                                                             *)
(***************************************************************************)
PhaseRank ==
  [idle |-> 0, close |-> 1, deploy |-> 2, policy |-> 3, quality |-> 4, sanity |-> 5, verify |-> 6,
   risk |-> 7, stage_7 |-> 8, stage_6 |-> 9, candidates |-> 10, stage_5 |-> 11, stage_4 |-> 12,
   stage_3 |-> 13, stage_2 |-> 14, stage_1 |-> 15, stage_0 |-> 16]

\* Every step of the pipeline brings it closer to its return, and no backtest,
\* operator or hot path takes it back.
EveningAdvances ==
  [][phase # "idle" => IF Evolve \/ Decide THEN PhaseRank[phase'] < PhaseRank[phase]
                       ELSE phase' = phase]_vars

\* A backtest that is done has a verdict.
Verdicts == \A r \in Run : worker[r] \in {"clear", "done"} \cup Field => report[r].verdict # "none"

\* Stage 6 is waiting for its time limit, or for an answer that one of its four
\* branches takes.
AnswerTaken ==
  phase = "stage_6" =>
    \/ worker[run] # "done"
    \/ \E verdict \in {"pass", "warn", "fail"} : Answered(verdict)

\* The ranks.
LEMMA PhaseRanks ==
  /\ PhaseRank["idle"] = 0 /\ PhaseRank["close"] = 1 /\ PhaseRank["deploy"] = 2
  /\ PhaseRank["policy"] = 3 /\ PhaseRank["quality"] = 4 /\ PhaseRank["sanity"] = 5
  /\ PhaseRank["verify"] = 6 /\ PhaseRank["risk"] = 7 /\ PhaseRank["stage_7"] = 8
  /\ PhaseRank["stage_6"] = 9 /\ PhaseRank["candidates"] = 10 /\ PhaseRank["stage_5"] = 11
  /\ PhaseRank["stage_4"] = 12 /\ PhaseRank["stage_3"] = 13 /\ PhaseRank["stage_2"] = 14
  /\ PhaseRank["stage_1"] = 15 /\ PhaseRank["stage_0"] = 16
BY DEF PhaseRank

\* A pipeline that has begun returns after at most sixteen steps of its own,
\* one to each stage, whatever the threads it left behind do.
THEOREM EveningsAlwaysAdvance == Spec => EveningAdvances
<1>1. ASSUME Evolve \/ Decide, phase # "idle"
      PROVE  PhaseRank[phase'] < PhaseRank[phase]
  <2> USE PhaseRanks, StageOrder DEF Continue, Close
  <2>1. CASE Evolve
    BY <1>1, <2>1 DEF Evolve, RunPipeline, QualityPasses, QualityBlocks, NonTradingDay,
       StagePasses, StageBlocks, NoCandidates, StartBacktest
  <2>2. CASE BacktestTimesOut \/ VerdictPass \/ VerdictFail \/ VerdictWarn \/ EvidencePresent
    BY <2>2 DEF BacktestTimesOut, VerdictPass, VerdictFail, VerdictWarn, Answered, EvidencePresent
  <2>3. CASE Reads
    BY <2>3, FieldOrder DEF Reads, Field
  <2>4. CASE VerifyPolicy \/ Deploy \/ DeployStops \/ Closes
    BY <2>4 DEF VerifyPolicy, Deploy, DeployStops, DeploySteps, Closes
  <2> QED
    BY <1>1, <2>1, <2>2, <2>3, <2>4 DEF Decide
<1>2. ASSUME [Next]_vars, ~(Evolve \/ Decide)
      PROVE  phase' = phase
  <2>1. ASSUME NEW r \in Run, Thread(r) PROVE phase' = phase
    BY <2>1, Zenon DEF Thread, ReadsUniverse, EngineRaises, EngineReturns, Concludes, ClearsFlag,
       RunRaises, Assigns, Threaded
  <2> QED
    BY <1>2, <2>1, Zenon DEF Next, Others, Review, ReviewCloses, HotPath, vars
<1>3. [Next]_vars => [phase # "idle" => IF Evolve \/ Decide THEN PhaseRank[phase'] < PhaseRank[phase]
                                        ELSE phase' = phase]_vars
  BY <1>1, <1>2
<1> QED
  BY <1>3, PTL DEF Spec, EveningAdvances

\* Every step leaves the backtests that are done with their verdicts.
LEMMA NextVerdicts == TypeOK /\ Placed /\ Verdicts /\ [Next]_vars => Verdicts'
<1> SUFFICES ASSUME TypeOK, Placed, Verdicts, [Next]_vars PROVE Verdicts'
  OBVIOUS
<1> USE DEF Verdicts
<1>1. ASSUME NEW r \in Run, Thread(r)
      PROVE  Verdicts'
  <2>1. PICK w \in {"engine", "verdict", "clear", "done"} \cup Field :
          worker' = [worker EXCEPT ![r] = w]
    BY <1>1, ThreadForms
  <2>2. CASE \E q \in Report : report' = [report EXCEPT ![r] = q]
    <3>1. \A q \in Report : q.verdict # "none"
      BY DEF Report
    <3> QED
      BY <2>1, <2>2, <3>1 DEF TypeOK
  <2>3. CASE report' = report
    <3>1. CASE ReadsUniverse(r) \/ EngineReturns(r)
      BY <2>3, <3>1 DEF ReadsUniverse, EngineReturns, TypeOK, Field
    <3>2. CASE ClearsFlag(r) \/ Assigns(r)
      BY <2>3, <3>2 DEF ClearsFlag, Assigns, TypeOK
    <3>3. CASE EngineRaises(r) \/ RunRaises(r) \/ \E p \in Reports \cup {FailReport} : Concludes(r, p)
      <4>1. \E q \in Report : report' = [report EXCEPT ![r] = q]
        BY <3>3, FailReportType, ForcedReport, PipelineAssumption, Zenon
           DEF EngineRaises, RunRaises, Concludes
      <4> QED
        BY <2>2, <4>1
    <3> QED
      BY <1>1, <3>1, <3>2, <3>3 DEF Thread
  <2> QED
    BY <1>1, <2>2, <2>3, ThreadForms
<1>2. CASE StartBacktest
  <2>1. FailReport.verdict = "fail"
    BY FailReportType
  <2>2. CASE Refuse(run)
    BY <2>1, <2>2 DEF Refuse, TypeOK
  <2>3. CASE Enter(run)
    BY <2>3 DEF Enter, TypeOK, Field
  <2> QED
    BY <1>2, <2>2, <2>3 DEF StartBacktest
<1>3. CASE ~(\E r \in Run : Thread(r)) /\ ~StartBacktest
  BY <1>3, ThreadsKept
<1> QED
  BY <1>1, <1>2, <1>3

\* Stage 6 never waits for an answer that no branch takes: the pipeline has a
\* step to take in every state (in the other phases one whose guard is the
\* phase alone).
THEOREM StageSixAnswers == Spec => []AnswerTaken
<1>1. Init => Verdicts
  BY DEF Init, Verdicts, Field
<1>2. IInv /\ Verdicts /\ [Next]_vars => Verdicts'
  BY NextVerdicts DEF IInv
<1>3. IInv /\ Verdicts => AnswerTaken
  <2> SUFFICES ASSUME IInv, Verdicts, phase = "stage_6", worker[run] = "done"
               PROVE  \E verdict \in {"pass", "warn", "fail"} : Answered(verdict)
    BY DEF AnswerTaken
  <2>1. run \in Run
    BY DEF IInv, Placed
  <2>2. report[run] \in Report \cup {NoReport} /\ report[run].verdict # "none"
    BY <2>1 DEF IInv, TypeOK, Verdicts
  <2>3. report[run].verdict \in {"pass", "warn", "fail"}
    BY <2>2 DEF NoReport, Report
  <2> QED
    BY <2>3 DEF Answered
<1> QED
  BY <1>1, <1>2, <1>3, Invariant, PTL DEF Spec
=============================================================================
