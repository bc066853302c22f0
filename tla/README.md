# Verification of Flephant

Flephant is a KOSPI trading system in Python (`src/new`). By day a gRPC server
runs *paper auto-trading* sessions that read the market, decide, and send
orders through the KIS broker; by night a *Mode B* pipeline retrains models and
deploys the artifacts the next day trades with. This directory holds TLA+
models of its stateful core, the TLC configurations that check them, and proofs
checked by TLAPS. Every definition is translated from the code; `PROJECT.json`
maps each to its lines.

Contents: 1 inventory, 2 plan, 3 modules and code, 4 runs, 5 bounds,
6 fairness, 7 proofs, 8 findings, 9 what is not modelled.

## 1. Inventory

Paths are relative to `src/new/src`. "Hard" is what makes the part difficult to
test.

| Part | State it keeps | Operations | Hard | What makes it correct |
|---|---|---|---|---|
| **Mode B deployer** `mode_b/deployer.py` | live artifact files, `artifacts/bundles`, `artifacts/backup/<deploy>`, receipt | `deploy`, `rollback`, dead letter | about fifteen file operations with an exception or a kill between any two, undo in reverse, relative symlinks, empty `.bak` markers | only vetted bundles are served; success means all components of one bundle; rollback restores |
| **Model registry** `models/registry.py` | `<v>.pkl`, `<v>_metadata.json`, `registry.json`, `latest_model.pkl` | `save`, `activate_deployed_candidate`, `restore_active_version`, `load_latest` | three separate writes per activation, none of them atomic | index never names a missing file; listed pickles never change |
| **Nightly retrainer, staging** `mode_b/nightly_lgbm_retrainer.py`, `scripts/stage_lgbm_candidate_bundle.py` | candidate bundles | retrain, stage | version number derived from an index that may be stale | no version is reused |
| **KIS REST client** `connectors/kis_rest.py` | breaker counter, open time, probe flag under a lock | `_call`, `submit_order`, `_check_circuit`, `_record_call_*` | shared by threads, lock released during HTTP, lost answers, retries | probe flag never stuck; orders duplicated only after a lost answer; calls end |
| **gRPC paper session** `integration/grpc/server.py` | running, status, stop event, counters, session id, under a lock the worker only partly takes | `start`, `stop`, `shutdown`, `_run_loop` and the hooks of `_GrpcPaperAutoTrader` | handlers against the worker thread; exceptions out of `emit` at every step; terminal events | one worker; no order without a published decision; nothing after the terminal event |
| **Kafka producer** `integration/kafka/producer.py` | pending futures | `emit`, `flush`, `close` | delivery known only later; a failed future is met by a later flush | required publication is known before the broker is called |
| **Paper auto trader** `execution/paper_auto_trading.py` | cooldown and holding tables, read-error counter | `run`, `run_once`, runtime policy | state inferred from balances while fills are late | cooldown, minimum holding, caps hold |
| **Execution gateway, kill switch** `execution/execution_gateway.py`, `kill_switch.py` | kill switch, audit | `execute`, `trigger`, `reset`, `check_daily_pnl` | checked once before a loop of orders | no order while triggered, reports match the broker |
| **Operational state machine** `ops/state_machine.py`, `safety_guards.py` | one of 15 states, history | `transition` | any-state transitions in and out of the pipeline | no gate is skipped |
| **Mode B scheduler** `mode_b/scheduler.py`, `co_steer.py` | run record, stage results | `run_pipeline`, `_run_stage`, `approve_operator_review` | a stage that timed out keeps running | a failed stage is never followed by a deploy |
| **Message pool** `blackboard/message_pool.py`, `pubsub.py` | messages, indexes, dependency contexts | `publish`, `expire`, `register_dependency` | subscribers publish in turn; capacity | dependencies fire once, with live messages |
| **Event admission, gateway, hot runner** `data/event_admission.py`, `orchestration/event_gateway.py`, `hot_runner.py` | queue, seen ids, as-of time | `admit`, `pop_next`, `run_cycle` | late and repeated events | no event twice, the agents' load bounded |
| **LLM router** `orchestration/llm_router.py` | budget, breaker per provider | `call` | shared by threads, locks released during a request, midnight between reservation and refund | budget kept and handed back; breaker contract |
| **Auth, rate limiter** `utils/auth.py`, `utils/rate_limiter.py` | token and its expiry, token bucket | `get_token`, `wait_and_acquire` | refresh race, floats | budget holds over every window |
| **Post-close jobs, paper service scheduler** `ops/post_close_job_store.py`, `ops/paper_service_scheduler.py`, `../scripts/post_close_data_update*.py`, `utils/config_loader.py` | SQLite job rows, `expected_end_date` in `risk_config.yaml`, a copy of it in each process | `create_run`, `finish_run`, `run_update`, poll loop | killed between two writes, worker and operator at once, configuration cached for the life of a process | once per date, retried after a failure, PASS means promoted |
| **Dynamic universe** `dynamic_universe/*` | overlay tickers and their age | admit, exit | capacity, holdings | size bound, held tickers kept |
| **Buffers and caches**, **agents**, **portfolio manager, knowledge base**, **models and training**, **validation and backtest**, **alpha factor search**, **data ingestion**, **audit and monitoring**, **jobs and scripts** | windows of rows, tables, logs | numerical or append-only | - | see section 9 |

How they interact: the gRPC handlers and the worker thread share one
`_PaperAutoSession` object (lock, `threading.Event`) and one Kafka producer
(a lock around the list of futures; delivery happens in the client's threads).
The worker owns a `PaperAutoTrader`, which calls the hot runner for a
decision and `ExecutionGateway` for its orders; both reach the broker through
one `KISRestClient`, whose circuit breaker all threads share. News and
disclosures go through `EventGateway` to the agents, whose messages meet in the
`MessagePool`; a decision may wait there for the messages of several agents. In
the evening the post-close worker extends the data set and promotes its end date
in the configuration. At night the
scheduler calls the stages in turn; the last one hands a bundle to
`ModeBDeployer`, which calls `ModelRegistry`; the next day's agents read the
registry and the live paths. There is no lock between the deployer and the
readers, and no recovery at start-up.

The hazards, each at its line and with the properties that cover it, are in
`PROJECT.json`.

## 2. Plan

The order is that of the damage a mistake does: what is served, what reaches
the broker, what the outside is told.

| # | Module | Composes | State |
|---|---|---|---|
| 1 | `ModelRegistry` (abstract), `ModeBDeployer` | deployer, registry and retrainer on one file tree; implements `ModelRegistry` | done, proved |
| 2 | `CircuitBreaker` (abstract), `KisRest` | client threads, breaker, external server; implements `CircuitBreaker` | done, proved |
| 3 | `TradingSession` (abstract), `PaperSession` | session object, worker, trader loop, Kafka producer, broker; implements `TradingSession` | done, proved |
| 4 | `LLMRouter` | budget, two breakers, provider calls; implements `CircuitBreaker` twice | done, proved |
| 5 | `OperationalState`, `ModeBPipeline` | transition graph; scheduler stages, time limits, backtest threads, operator review | done, proved |
| 6 | `TradingAccount` (abstract), `PaperAutoTrader` | runtime policy, read errors, gateway, kill switch, broker with late fills, successive processes; implements `TradingAccount` | done, proved |
| 7 | `MessagePool` | pool, subscriptions, dependency contexts | done, proved within 8 |
| 8 | `EventGateway` | admission queue and event gateway on the pool | done, proved |
| 9 | `DatasetLedger` (abstract), `PostCloseUpdate` | worker and operator processes, job table, configuration file; implements `DatasetLedger` | done, proved |

Planned once and given up: the rate limiter and the token manager (one object
under one lock each, nothing that a model with integers could show), the dynamic
universe (no production caller). Left for later: two retrains on one file tree,
and `MessagePool.supersede` together with the readers of `get_active_messages`.

Abstract specifications: the circuit breaker's contract (`KisRest` and both
breakers of `LLMRouter` implement it), the registry of models as its readers see
it, a session as its backend and its subscribers see it, the account a trader
works on, and the ledger of nightly jobs and data set. Each has an implementation
relation that a run checks and a theorem proves. The registry's contract speaks of
the index while it can be read and not of the other live files, because of
findings 1 and 2 and of the writes that are not atomic; what is said of those files
are invariants of `ModeBDeployer`.

Theorems: every safety property the passing runs check is proved (section 7).

## 3. Modules and code

### ModeBDeployer

One step is one file operation of `deploy`, `rollback`, `save` or of the
registry calls they make; `pc` says which one comes next, `cur` holds the
arguments of the running command. Commands do not overlap: the pipeline and the
operator's script are the only callers, and the code takes no lock. (A retrain
that exceeds the time limit of its stage goes on in its thread and may overlap
with a command of a later run; that is a hazard no property covers.)

| State | Code |
|---|---|
| `live[c]` | the live path of a component (`_LIVE_PATHS`) |
| `staged[b]`, `bversion[b]` | files left in `artifacts/bundles/<b>` and the version in its metadata |
| `pkl`, `meta` | `<v>.pkl`, `<v>_metadata.json` |
| `readable`, `active`, `status` | `registry.json`: whether it parses, `active_version`, its entries |
| `backup[d]`, `receipt[d]` | `artifacts/backup/<d>/*.bak` and `metadata.json` |
| `swapped` | the local list of swapped components |

A file is a model value: absent, empty marker, torn, or the artifact of a
bundle; `latest_model.pkl` may also be a *version number*, which stands for the
relative symlink the registry makes, so that `exists()`, a move into the backup
directory and a restore behave as they do for a link. The readers of the model
go through the registry (`load_latest`, which needs the pickle and its metadata:
`Loads`), those of the other components through the live path; `Served` says what
they get. The undo removes a component that had none before in two steps, the live
file (`UndoUnlink`) and then the marker (`UndoMarker`).

`DeployRaises`, `RestoreFails` and `Raises` are the three ways an exception
leaves the code (caught and undone, swallowed or passed on by the undo,
uncaught); `Crash` is a kill. A write that is not a rename may leave its file
torn. The history variables `vetted`, `snapshot`, `tip` and `outcome` record
what the properties compare with.

`ModelRegistry` is what that tree promises: models that are stored for good once
listed, approved before they are activated, and one active version or none. In it
an index that cannot be read is one step (`Tear`), and the deployer implements it with
a set of models in place of files: a stored version is a pickle with metadata, an
approved one that of the base or of a vetted bundle.

### CircuitBreaker and KisRest

`CircuitBreaker` is the contract: who is admitted in which mode, and what a
settled call may change. `KisRest` is `KISRestClient` under threads:
`Call`/`CallRefused` are `_check_circuit` (atomic under the lock), `Send` is one
HTTP attempt (no lock), and `Succeeds`, `ClientError`, `Retries` and `Fails`
are the four ways `_call` goes on (the last of an attempt under the lock
again). The server is external: it answers, refuses for good, refuses for now,
or its answer is lost after it did or did not take the order. Time is the
cooldown counting down (`Tick`). `healthy` says that the server answers and refuses
no quote for good; while it does not, a quote may get any answer. Only `Recovers`
depends on it: a server that refuses every quote leaves the circuit open, in the code
too, since such a refusal is neither a failure nor a success. The failure counter is kept up to its
threshold, since the code only compares it with the threshold.

### PaperSession

The object of `_PaperAutoSession` (`running`, `current`, `stopEvent`,
`terminal`, counters) and one worker per session with a program counter. Each
step of the worker is a stretch of code between two points where a handler can
come in: the steps that the code runs under the lock are single actions and so
are reads of shared fields outside it (`WriteReport` reads the stop event,
`Settle` writes the status, `Announce` reads it again).

`Handed`, `Refused`, `Flushed` and `FlushRaises` are `emit` and `flush` of the
producer: an event handed over may never arrive, which leaves the producer
`doubtful` until a flush has asked; with `Required` a flush that meets a failed
future raises, without it nothing raises. The broker is external and may hold
an order whose answer was lost.

`TradingSession` is the session from outside: one at a time, a decision before its
orders, a counter that catches up before the next order, no cycle after a Stop but
the first, and one end, after which it orders nothing (a required topic may hear of
it twice, as stopped and then as failed). Its steps hide the worker's program
counter, the producer and the flushes.

### LLMRouter

One `LLMRouter` under threads. `circ`, `fails`, `wait`, `probing` are the two
`_CircuitBreaker` objects; `counts`, `total`, `resetDay` the `_BudgetTracker`.
Each operation of these objects is one action, because each runs under its own
lock; between them a thread holds none, so `Reserve`, `KananaAdmitted`, the
answer and `Refund` are separate steps and a midnight may fall between them.
`Counted` and `Total` are the counters after `_maybe_reset`. Both providers and
the calendar are external. A router without any allocation limits no caller, which is
the instance with a key per caller and allocations that cannot bind. `spent`, `used` and `late` are the ledger the
properties compare the counters with: reservations that stand, per day and per
key, and those that were handed back on a later day than their own.

### OperationalState and ModeBPipeline

`OperationalState` is the transition graph of `ops/state_machine.py`: `Special`
per state, `FromAnywhere` from all but `SHUTDOWN`. `Moved` is a request as
`ModeBScheduler._transition` makes it: an illegal one is logged and dropped.

`ModeBPipeline` is `run_pipeline` (`phase` says where it is), the threads in
which stage 6 runs `BacktestAgent.run`, the operator's `approve_operator_review`
and the hot path's requests in between.

| State | Code |
|---|---|
| `machine` | the shared `StateMachine._state` |
| `phase`, `run`, `result` | the control of `run_pipeline`, how often it was called, how it ended |
| `bundle` | `_bundle_id`; run *r* issues bundle *r* (in stage 3) |
| `held` | the four `_current_*` evidence fields, each by the run whose backtest wrote it |
| `seen` | what `stage_7_deploy` has read so far: the local `risk`, then the arguments of `deploy` |
| `worker[r]`, `tested[r]`, `report[r]` | the stage 6 thread of run *r*, the bundle it was given, its result |
| `forced[a]`, `fallback` | `_force_verdict_fail` of an agent; which runs used the reduced universe or a synthetic artifact |
| `operator`, `reviews` | a review between its two transitions; results left in review |

A stage that exceeds its limit is reported blocked and its thread stays:
`BacktestTimesOut` leaves `worker[run]` where it is, and the later steps of that
thread may happen in any later run. The assignments of the four fields are
separate steps, and so are the reads of stage 7 (`Reads`; the policy evidence is
read once for its verification and once more for the call). The flag is cleared
(`Enter`), set for the universe and for the artifact (`ReadsUniverse`,
`EngineReturns`), read (`Concludes`) and cleared again (`ClearsFlag`) in steps of
their own; `EngineRaises` and `RunRaises` are an exception inside and outside of
the agent's own `except`. The reset of all fields at the start of a run is one step,
since it only matters that it comes before stage 6, and so is a transition,
although the state machine takes no lock. With `SharedAgent` one
agent was injected and all backtests share its flag; otherwise each run makes
its own. Severity "high" already makes the verdict fail, so it is not a separate
alert. `result` merges "blocked" and "failed", which are closed alike. Stages 1
to 5 end well, badly or not in time; what they compute is left out, except that
stage 3 issues the bundle id. What stage 6 reports is any member of `Reports`,
or a failure.

### PaperAutoTrader

One run after the other on one account, each run a new process
(`scripts/paper_auto_trade.py`): `phase` says where `run_once` is, `cycle` is
`cycle_index`. `Read` takes the balance (`seen`) and synchronises the holding
table, `Decide` is everything from the hot runner to the order guard (at most one
order per ticker, capped at what the balance lets it sell; runtime policy; caps),
`GatePasses`/`GateRefuses` is the one look at the kill switch, `Sends` and
`Rejects` are the orders one by one, `Verified`/`NotVerified` the order history.

| State | Code |
|---|---|
| `account`, `open` | shares and open orders at the broker (external); `Fills` and `Lapses` are its doing |
| `seen` | `current_positions`: `qty` and `available_qty` of each ticker |
| `errors` | `_consecutive_read_errors` |
| `lastOrder`, `holdingSince` | the two tables of the runtime policy, lost with the process |
| `plan`, `left`, `rejected` | `order_deltas` of the decision, those still to be sent, the list of rejections |
| `killed` | `KillSwitch._active`; `Switch` is `trigger`, `check_daily_pnl` or `reset`, at any time |
| `result` | how the report of the run ends |

An order is an atomic submission whose answer may be lost (`Sends(o, FALSE)`);
what a retry in the client may add is the subject of `KisRest`. An interruption
is Ctrl-C (`Interrupt`, caught by `run`) or a kill (`Crash`). `sentAt`, `boughtAt`,
`readAt`, `unverified` and `sinceKill` record what the properties compare with.
Position pyramiding is off, as configured. Shadow mode submits nothing and is
left out.

`TradingAccount` is the account from outside: batches approved while the switch is
off, `MaxOrders` tickers each, one order of `MaxQty` shares at most for a ticker, and no
sell of shares that are not held or under another sell. `Due`, the tickers of the
orders that the gateway has let pass and not sent yet, is what is left of the trader's
control; cycles, tables, balances read and processes are hidden.

### MessagePool and EventGateway

`MessagePool` is the pool in the thread of its user: `stack` is the call stack of
nested `publish` calls, so that subscribers and callbacks publish in turn
(`Replies`) before the outer publication has looked at its dependencies (`Check`).
`contexts[d][e][c]` is `latest_message_ids`; `seen` of the code is its domain.
Messages are kept in the order of their ids, and all live equally long (`TTL`),
which is an assumption: the code takes a `ttl` or an `expires_at` of the message's
own, and if they differ TLC finds `NothingMissed` violated, because a later message
that expires first takes the place of the earlier one out of the context with it.
Time passes at any step, but only a full pool or a call of `expire` cleans up: an
activation may use a message that has expired and is still there, as in the code.
`Free` says where a handler may publish: unless `Reentrant`, on no channel whose
publication or activation it serves. The code registers no subscriber and no
dependency in production (only its tests do), so `Reentrant = FALSE` is an
assumption on future users; with `TRUE` TLC finds `UsedOnce` and `NothingMissed`
violated, because a callback that publishes on a required channel of its own
finds its context complete, and loses what it published when the outer call
removes the context.

`EventGateway` extends the pool by `EventAdmission` and `dispatch_next`. `Admit`
is `ingest` of an event that passes the filters; a refused one leaves a dead
letter only. `ingest` gives every event an id, an `expires_at` and an `asof` (the
clock, or what the caller passes: `AsOf`); `admit` alone would take an event without
an id, which it cannot recognise when it comes again, and which is therefore another
member of `Event` each time: `NoEarlyRepeat` says nothing about it. `Rank` stands for the comparator, ties are broken in any order.
`Dispatch` pops an event, `HandlerSilent` and `HandlerPublishes` are what a
handler's result may lead to (in any order, although the code calls them in the
order of registration), with the pool's steps in between.

### PostCloseUpdate

The worker that systemd keeps alive and the processes an operator starts run the
same `run_once`; `pc[p]` says where each is. They share `rows` (the job table) and
`risk_config.yaml`: `final` is its `expected_end_date`, `emptied` holds between
the opening of the file for writing and the end of the write. `cache[p]` is the
copy that `config_loader` keeps; a promotion drops it (`Unread`), and the next
tick of that process reads the file again (`Rereads`), whoever is writing it then.
`Due` is `evaluate_tick`, `Create` and `Finish` are the two writes to the table,
`Skips`, `RunsDry`, `FindsShut`, `Starts`, `Blocked`, `Breaks` the ways through
`run_update`. `Rewrites` (the text is read, rewritten and copied), `Opens` and
`Promoted` are the write of the configuration; two processes may both have read the
file before either opens it. The write is one piece: one that fails leaves the file
empty, and what comes after it (`config_reload`, a `dict.pop`) cannot fail.

A day is `DayLength` ticks from one run time to the next, its first `Evening` ticks
lie before midnight, in the first `OpenFor` the Mode B window is open. `Pass` lets
no update reach into the next evening: run time 18:30, six stages of at most an
hour each, retries only inside the window. A kill leaves the row RUNNING and, in
the middle of the write, the file empty; a process that reads it then has an empty
configuration (`"blind"`) and declines every tick. `Restore` is somebody who puts
back what the file held last; the copies `_promote_final_dataset_gate` makes may be
older, or empty, when two processes overlap. A blind tool that is forced files a row
for no date; it touches nothing else and is left out.

`DatasetLedger` is what the job table and the configuration say to a reader: rows
that are opened once and settled once, an end date that only grows and only to the
target of a job under way, and PASS for a target that was reached. Processes, caches,
retries and the clock are hidden; a file emptied by a kill still means the end date
it had.

## 4. Runs

| Run | Asks | Distinct states |
|---|---|---|
| `ModeBDeployer` | two bundles, two deploys, an exception or a kill in any operation: what is served, is on disk, is restored | about 310 thousand |
| `ModeBDeployerSwap` | finding 1 | |
| `ModeBDeployerRetry` | finding 2 | |
| `KisRest` | two threads and an order while the server fails: orders, reports, the abstract breaker, and under fairness that every call ends and the circuit closes again | about 174 thousand |
| `PaperSession` | two sessions with a required Kafka, Stop, shutdown and exit at any step; every session ends | about one million |
| `LLMRouter` | two threads, two days, missing keys, failing providers: budget, refunds, and the abstract breaker for each provider | about 495 thousand |
| `ModeBPipeline` | two evenings, the first backtest left running, one shared agent, an operator at any time: whose verdict and evidence a deployment has, what state is left, does each evening end | about 623 thousand |
| `ModeBPipelineSkip` | finding 3 | |
| `PaperAutoTrader` | two tickers, four cycles per run, runs one after the other: sales, cooldown, holding time, read errors, verification, kill switch | about 1.45 million |
| `PaperAutoTraderInterrupt` | finding 4 | |
| `EventGateway` | two events, two agents and a decision that waits for both, in a pool of three: activations, repeats, load | about 570 thousand |
| `PostCloseUpdate` | two evenings, worker and operator, a kill: PASS, repeats, recovery | about 1.3 million |

What the passing runs show:

* `OnlyVettedServed`, `ActiveVersionOnDisk`, `RegistrySpec`,
  `DeployedBundleServed`, `RollbackRestores`: in spite of findings 1 and 2 no
  interruption makes the service read an artifact that never passed the gate, no
  readable index names a missing pickle, no retrain writes over a listed
  version, success is success, and a rollback of the live deploy restores what
  it replaced.
* `DuplicateOnlyIfLost`, `ReportedRight`, `BreakerSpec`, `CallsEnd`, `Recovers`:
  the breaker never locks everyone out, and the only way to a duplicate order is
  a lost answer. `submit_order` does retry after a timeout, so duplicates *are*
  possible; the invariant says exactly when.
* `OneWorker`, `DecisionFirst`, `StopHonoured`, `CountersMatchBroker`,
  `SessionSpec`, `SessionEnds`: the session's events, counters and orders
  agree at every interleaving of handlers, worker, delivery and exceptions. A final
  flush that raises may announce FAILED after STOPPED, but never trades again.
* `BudgetKept`, `NothingLeaks`, `KananaSpec`, `GptSpec`: whatever the threads,
  the providers and the calendar do, no more calls are reserved than the limits
  allow except for late refunds, a call that is not made costs nothing, and each
  breaker keeps the contract of `CircuitBreaker`.
* `OnlyOwnPass`, `OwnPolicyEvidence`, `EvidenceOfOneRun`,
  `FallbackNeverDeployed`, `Closed`, `EveningEnds`: a backtest that outlives its
  evening can mix its evidence into a later deployment (risk, leakage check and
  feature quality: the exception in `EvidenceOfOneRun` is reachable), but it
  never lends it a verdict nor the policy evidence, because the verdict is the
  answer of the future and the policy evidence names its bundle. With a shared
  agent it can also take away the flag that forces a verdict to fail.
* `AccountSpec`, `CooldownKept`, `MinHoldingKept`, `SkipsBounded`,
  `PassMeansVerified`, `KillStopsNext`: a balance that is old when it is used
  neither leads to a sale of shares not held (the broker reserves shares under a
  sell order and reports what is left) nor shortens cooldown or holding time
  (the tables are written when an order is sent, not when it fills; a rejected
  cycle, which writes none, ends the run). A kill switch thrown after the
  gateway's look stops nothing of the decision under way, and everything after.
* `ContextsLive`, `UsedOnce`, `NothingMissed`, `NoEarlyRepeat`, `JobsBounded`: the
  pool's contexts survive overflow, expiry and nesting. The cap is on admissions:
  `MaxJobs` per window can be exceeded at the agents by what waits in the
  backlog, and the bound of `JobsBounded` is tight.
* `LedgerSpec`, `RepeatNeedsOperator`, `CatchesUp`: a row left RUNNING is
  taken up again (because RUNNING counts as due), and the worker repeats a
  finished target only after an operator's run of it. That exception is real: the
  worker does not see a promotion by another process until it restarts, and the
  latest row of the target, which would have told it, may be the operator's
  later SKIP or DRY_RUN.

The refinements (`BreakerSpec`, `KananaSpec`, `GptSpec`, `RegistrySpec`,
`SessionSpec`, `AccountSpec`, `LedgerSpec`) are the properties of these runs that say
most, and stand in for weaker ones that they contain: `IndexedBytesImmutable`,
`QuietAfterClose`, `NeverShort` and `PassMeansPromoted` are proved (section 7) and no
longer run on their own.

Each property has a mutant in `PROJECT.json`: a plausible bug in a definition
of the model under which TLC finds the property violated. The type invariants are
proved rather than checked by a run.

## 5. Bounds

* `ModeBDeployer`: `MaxVersion = 3` (the baseline and one number for each of
  the two bundles; imported bundles may carry a taken one), `MaxDeploys = 2`
  (a deploy over a deploy, a rollback of the older one),
  `MaxFaults = 1` exception or kill per behaviour (exceptions that the state
  forces are not counted, so a fault leads to further failures). The bundles are
  interchangeable, hence the symmetry. One optional component stands for both:
  they take the same path.
* `KisRest`: two threads are a late call and a probe; a cooldown of two ticks,
  two failures open the circuit, so that both counters have a value between;
  three attempts per call; one order among any number of quotes. No symmetry,
  because of liveness. The proofs cover any number of threads.
* `PaperSession`: two sessions one after the other, two cycles each, one order
  per cycle: the first session leaves a late event to the second, the first
  cycle leaves one to the second.
* `LLMRouter`: two threads are a request that was admitted early and a probe (or
  the last unit and who else wants it); two days are one midnight; a limit of 2
  below the sum of the allocations (1 and 2), so that either may be the one that
  refuses; two failures open a circuit. One caller has an allocation of its own,
  the other uses the buffer.

* `ModeBPipeline`: two runs are one thread left over and one run it disturbs; a
  shared agent is the harder case. Five reports, one for each way through the
  gates (clean, flagged, bad features, bad policy evidence, warning), besides
  the failure.
* `PaperAutoTrader`: two interchangeable tickers, of which one order per cycle
  survives the cap; four cycles, since `MinHolding = 3` and `Cooldown = 2` have to
  pass within a run; one tolerated read error; orders of two shares, capped at one,
  on positions of up to two, so that an order is left half filled. Runs follow each
  other without a bound.
* `EventGateway`: a pool of three for four messages, of which a life of two ticks
  expires some in time and some not; an urgent and a low event of which the second
  supersedes the first, a backlog and a cap of one each, so that eviction, cap and
  overflow all happen; nested publications up to depth two.
* `PostCloseUpdate`: days of three ticks with an evening of two, so that a run
  starts in the evening, ends in the night, and a retry (one tick) fits in between;
  the evening, night and next evening, three rows, one operator, one kill.

`CHECK_DEADLOCK FALSE` stands where the system stops: all deploy ids and
versions used, all sessions, evenings and days over, the clock and the message ids
used up. `KisRest`, `LLMRouter` and `PaperAutoTrader` never stop and are checked
for deadlock.

## 6. Fairness

* `KisRest.FairSpec`: a thread in a call goes on (every HTTP attempt has a
  timeout and the retries are counted), the clock runs, and quotes keep being
  asked for (hot runner and trader poll in a loop). Nothing is assumed of the
  server; `Recovers` has that it stays up as its premise.
* `PaperSession.FairSpec`: the worker goes on (KIS and Kafka calls have
  timeouts, sleeps end). Nothing is assumed of Stop, of delivery or of the
  broker.
* `LLMRouter` has no fairness: its properties are safety.
* `ModeBPipeline.FairSpec`: the thread of `run_pipeline` goes on
  (`future.result` has a time limit; stage 7 runs in the same thread and makes
  file operations only). Nothing is assumed of the stage 6 threads, which may
  hang for ever, of the operator or of the hot path.
* `PostCloseUpdate.FairSpec`: the worker is launched again when it is down
  (`Restart=always` in its unit) and goes on (the stages have time limits).
  Nothing is assumed of the operator, of the clock or of the repair of an emptied
  file.
* `PaperAutoTrader` and `EventGateway` have no fairness: their properties are
  safety.
* `ModeBDeployer` has no fairness: nobody is obliged to finish a command that
  was killed.

## 7. Proofs

`ModeBDeployerProofs`, `KisRestProofs`, `PaperSessionProofs`, `LLMRouterProofs`,
`ModeBPipelineProofs`, `PaperAutoTraderProofs`, `EventGatewayProofs` (which covers
`MessagePool`) and `PostCloseUpdateProofs` extend the checked modules, so the theorems are about
the definitions TLC runs, for all values of the constants under the assumption
each module names: model values are distinct from each other and from numbers,
bounds are natural numbers, reports are reports, the worker is no tool.
`MessagesUsedOnce` and `ActivationsNotMissed` assume besides that handlers are not
reentrant and that every dependency requires a channel.

| Theorem | States | Inductive invariant |
|---|---|---|
| `TypeCorrect` | `TypeOK` of the deployer | `TypeOK` |
| `ActiveOnDisk` | `ActiveVersionOnDisk` | with: every listed version is on disk, and the running command has written the files its next step names |
| `ServedVetted` | `OnlyVettedServed` | with: every pickle that an index may activate, every live file and every backup belongs to the base or to a vetted bundle, and the bundle being deployed is vetted |
| `IndexedImmutable` | `IndexedBytesImmutable` | with: the version a retrain writes is not listed, that of a deploy is absent or identical |
| `DeployServes`, `RollbackIsExact` | `DeployedBundleServed`, `RollbackRestores` | `Progress`: during a swap a swapped component is the bundle's and its backup what was served before, the others are untouched; the live deploy keeps that state, and its rollback undoes it one component at a time; the version it goes back to keeps its pickle and its metadata |
| `ImplementsRegistry` | `ModeBDeployer` implements `ModelRegistry` (`RegistrySpec`) | the invariants of `ActiveOnDisk`, `ServedVetted` and `IndexedImmutable` together |
| `ActiveAlwaysServable`, `ServesWholeModels` | in the abstract registry the active version is listed, stored and approved; so it is in the deployed tree | an invariant of `ModelRegistry`, carried over by `ImplementsRegistry` |
| `CircuitCorrect` | `ProbeHeld`, `OpenIffThreshold` and the types | with: the relation of counter, open flag and cooldown |
| `OrdersCorrect`, `ReportsRight` | `DuplicateOnlyIfLost`, `ReportedRight` | with: what each thread in flight knows of the order it carries |
| `ImplementsBreaker` | `KisRest` implements `CircuitBreaker` | `ProbeHeld` and the types; every action is an abstract step or a stutter |
| `NeverLockedOut` | with the circuit probing some call in flight holds the probe, and nobody else is admitted | `ProbeHeld`, through the contract |
| `SubmissionsBounded` | one order reaches the server at most `MaxRetries` times | what a call has submitted against the attempts it has made |
| `CallsAlwaysAdvance` | every step of a call lowers the steps it has left, no other step raises them | the types |
| `SessionCorrect` | `TypeOK`, `OneWorker` | `WorkerInv`, with `Progress`: cycle numbers against the program counter |
| `DecisionsFirst` | `DecisionFirst` | `DecisionInv`, with `Decided`: past the flush the cycle is decided |
| `QuietAfterTheEnd` | `QuietAfterClose` | a session with a terminal event is in the steps that wrap it up |
| `StopIsHonoured` | `StopHonoured` | the cycle at the Stop against the program counter |
| `CountersCorrect` | `CountersMatchBroker` | `CounterInv`: before the tally the counter lags by the fills of the cycle |
| `ImplementsContract` | `PaperSession` implements `TradingSession` (`SessionSpec`) | the invariants above and below: `WorkerInv`, `DecisionInv`, `CounterInv`, the cycle at the Stop, and that a session with a terminal event is wrapping up |
| `EndIsAnnounced` | where Kafka is not required, the current session, once it no longer runs, has a terminal event | `Said`: from the last flush on it is published |
| `WorkersAlwaysAdvance` | every step of a worker lowers a bound on the steps it has left, no handler raises it | `WorkerInv` |
| `CircuitsCorrect` | `TypeOK`, `ProbeHeld` of the router | inductive once the types are added |
| `KananaImplements`, `GptImplements` | each breaker of the router implements `CircuitBreaker` | the same; `BreakerStep` states once for both what a step may do to a breaker |
| `BudgetCorrect` | `BudgetKept` | `BudgetInv`: today's ledger is at most today's counters plus the late refunds, later days owe nothing, counters are within the limits |
| `CallsNotMadeAreFree` | `NothingLeaks` | `LeakInv`: a day's ledger covers the calls that still hold a reservation of that day, and the counters are at most the ledger |
| `NeverLockedOut` | the same as for `KisRest`, for both providers | `ProbeHeld` of each breaker |
| `TypeCorrect` | `TypeOK` of the pipeline | with `Placed`: no thread and no deployment of a run that has not reached stage 6 |
| `OwnPass`, `OwnEvidence` | `OnlyOwnPass`, `OwnPolicyEvidence` | `Passed`: a run in stage 7 has an answer that passed, and keeps it |
| `OneRun` | `EvidenceOfOneRun` | `OwnFields`: while undisturbed, the fields assigned so far, and with `SeenOwn` those read so far, are the run's own |
| `FallbackContained` | `FallbackNeverDeployed` | `FlagKept`: from the engine's return to the verdict the flag is up, then the verdict is fail, while nothing else uses the agent |
| `PipelineCloses` | `Closed` | `Closing`: who must still take the machine out of a passing state |
| `EveningsAlwaysAdvance` | every step of `run_pipeline` lowers what is left of the evening; backtests, operator and hot path leave it | the types and `Placed` |
| `StageSixAnswers` | whatever a backtest has reported, one of the branches of stage 6 takes it | the answers that can be there |
| `TypeCorrect` | `TypeOK` of the trader | `TypeOK` |
| `SkipsAreBounded` | `SkipsBounded` | `ErrorsCounted`: the errors counted are those since the last balance that was read |
| `PassVerified` | `PassMeansVerified` | `VerifiedInv`: nothing is unverified but while orders are sent, and a run has no result before it ends |
| `NoShortPosition` | `NeverShort` | `ShortInv`: what the cycle has read as sellable, and what it has still to sell, is not more than the account holds beside its open sell orders; one order per ticker |
| `CooldownIsKept` | `CooldownKept` | `PolicyInv`: the table agrees with what was sent, except for the tickers of the decision under way; what is left to send is not cooling |
| `MinHoldingIsKept` | `MinHoldingKept` | `HoldingInv`: the holding time is counted from the last buy or later; what is bought has no entry in the table yet |
| `KillSwitchStops` | `KillStopsNext` | `KillInv`: orders out since the trigger plus those left are at most `MaxOrders` |
| `ImplementsAccount` | `PaperAutoTrader` implements `TradingAccount` (`AccountSpec`) | `ShortInv`, `KillInv` and `SizesCapped`: only a decision makes orders, and it caps them |
| `TypeCorrect` | `TypeOK` of pool and gateway | `TypeOK` |
| `ContextsAreLive` | `ContextsLive` | `PoolInv`, with `Ordered`: later messages expire later, so that what expires is the oldest |
| `RepeatsAreLate` | `NoEarlyRepeat` | `GatewayInv`: admissions still remembered (`Remembered`), others far `Apart` |
| `MessagesUsedOnce`, `ActivationsNotMissed` | `UsedOnce`, `NothingMissed` | `OrderInv`: per channel one publication under way, whose message is the last one; a context that is complete or holds a used message is in its callback; a message since the last activation is in its context or its publication has still to look (`Latest`) |
| `JobsAreBounded` | `JobsBounded` | `Accounted`: since any time, what was admitted before it and dispatched after, with what of it still waits, is no more than the backlog holds |
| `TypeCorrect` | `TypeOK` of the update | `TypeOK` |
| `PassIsPromoted`, `FinalNeverBack` | `PassMeansPromoted`; the end date never goes back | `UpdateInv`: an update under way has a row of its own target, which is that evening's; the end date in the file is at most today's; a process about to report PASS has its target in the file |
| `RepeatByHandOnly` | `RepeatNeedsOperator` | with `WorkerKnows`: what the worker has read differs from the file only if an operator has run the target in the file, and a run of the worker has read the file |
| `ImplementsLedger` | `PostCloseUpdate` implements `DatasetLedger` (`LedgerSpec`) | `UpdateInv` with `OwnRows` (an update under way owns its row, which is RUNNING) and `CachesBehind` (no copy of the configuration is ahead of the file) |
| `LedgerHolds`, `UpdatesAccounted` | in the abstract ledger every PASS is covered by the end date, every end date by a job, and neither goes back; so it is in the table and the file | an invariant of `DatasetLedger`, carried over by `ImplementsLedger` |
| `AbandonedIsDue` | a row left RUNNING by a dead worker is due for the restarted one, in every state in which `CatchesUp` asks for it | `LedgerInv` |

The invariants on the right add to the property what the interrupted command, the
worker or the thread will do next.
TLC checked them before they were proved.

Only model-checked: liveness (`CallsEnd`, `Recovers`, `SessionEnds`,
`EveningEnds`, `CatchesUp`), since fairness and `ENABLED` are out of reach of TLAPS
with these backends, as are recursive operators and induction over data; no module
uses recursion. What of these properties is safety is proved: the measures that
every step lowers (`CallsAlwaysAdvance`, `WorkersAlwaysAdvance`,
`EveningsAlwaysAdvance`) and the guards that are open where something has to go on
(`NeverLockedOut`, `StageSixAnswers`, `AbandonedIsDue`). What is left to TLC is that a
fair step is taken while it is enabled. Every invariant, action property and
refinement of a passing run is a theorem.

## 8. Findings

1. `ModeBDeployerSwap`, `mode_b/deployer.py:308`: an exception in the middle of
   the swap restores nothing, because the list of swapped components is
   assigned from the return value of the call that raised; a comment and a test
   say the opposite.
2. `ModeBDeployerRetry`, `mode_b/deployer.py:759`: a rollback repeated for the
   same deploy deletes the files the first one restored, because a missing
   backup is treated as "there was no file".
3. `ModeBPipelineSkip`, `mode_b/scheduler.py:293`: a run without candidates
   asks for `MODE_B_IDLE` from `MODE_B_EVOLVING`, which the state machine refuses
   and the scheduler ignores; the machine stays in `MODE_B_EVOLVING`, from where
   the next morning's `BOOTSTRAP` is refused too. The interface contract promises
   the direct way to `MODE_B_IDLE`. A holiday and a block of stages 0 to 5 have
   the same effect.
4. `PaperAutoTraderInterrupt`, `execution/paper_auto_trading.py:302`: Ctrl-C while
   the gateway is sending ends the run with a report that says that no order was
   submitted and that its status is PASS; orders at the broker appear nowhere. A
   test asserts the absence of orders, but only interrupts the sleep.

Each of the four has a run. Further facts that came up while modelling, for which
no run is kept:

* `connectors/kis_rest.py:986`: a call admitted before the circuit opened clears
  the probe flag when it settles, so that two probes may be out at once (a comment
  at line 970 promises one). The flag never sticks; the effect is an extra
  request.
* `integration/grpc/server.py:267`: a session that failed by itself is announced
  as `AUTO_TRADING_STOPPED` if a Stop came in meanwhile.
* `orchestration/llm_router.py:189`: a reservation handed back after midnight
  lowers the new day's counter, so that the new day may see one request above the
  limit per such refund (the exception in `BudgetKept`).
* `../scripts/post_close_data_update_scheduler.py:157`: the wait before a retry is
  measured from the start of the failed run, so a run longer than the wait is
  retried at once.
* `../scripts/post_close_data_update.py:579`: the configuration is written in place;
  a kill in between leaves it empty, and a restarted worker declines every tick
  until somebody restores it.
* `utils/config_loader.py:35`: a process that reads the file while another one has
  it open keeps the empty configuration, although the file is whole again a moment
  later; a worker that promoted a date may read it so at its next tick and then
  finds nothing due until it is restarted (the `"blind"` worker `CatchesUp`
  excuses).
* `models/registry.py:390`: the metadata of a version is rewritten in place after
  the index names it active; a kill there leaves an active version that
  `load_version` cannot load. `ServedModel` is then absent; `ActiveVersionOnDisk`
  and `ActiveServable` speak of the files and the pickle only.
* `utils/config_loader.py:9`: a worker does not see another process's promotion
  until it restarts (section 4).

## 9. What is not modelled

* Numerical code: agents' scores, portfolio arithmetic, training, walk-forward
  validation, backtests. Their results enter as arbitrary values (the gate's
  verdict, the decision of a cycle, the stages of an update).
* LLM prompts and alpha-factor evaluation; data ingestion; report generation and
  append-only logs: no protocol state.
* Rate limiter and token manager: one lock each, one step per operation; only float
  arithmetic is left, which a model with integers cannot judge. Dynamic universe:
  gated off and without a production caller. `paper_service_scheduler.py`: stateless.
* Within the modelled parts: the bodies of events, argument validation, the
  deployer's dead-letter log, `ModelRegistry.rollback(version)`,
  `save(is_latest=True)` and the pruning above 20 versions, the token bucket in
  front of the KIS calls, what stages 1 to 5 of the pipeline compute, its audit
  log, the permission checks of `safety_guards.py`, shadow mode of the trader,
  mock and live mode of the gateway, acknowledgements and supersede of the pool,
  the JSON state file of the post-close scheduler.

Most of the repository's 76 thousand lines are of the first two kinds: feature
engineering, replay, readiness and evidence reports, dataset scripts. They hold no
state that two actors share and nothing that a step could leave half done, so a
model of them would only restate their arithmetic. What has such state is
modelled above; that is why the modelled share of the lines is small.
