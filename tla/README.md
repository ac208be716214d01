# FileAutomation: TLA+ specifications

This directory holds TLA+ specifications of FileAutomation (`automation_file/`), the TLC
configurations that check them on small instances, and TLAPS proofs of the properties that
matter most for instances of every size.  The specifications are written from the code;
`PROJECT.json` maps every definition to the lines it stands for, and lists the runs, the
mutations each property was tested against, the known hazards and the theorems.

## 1. The system

FileAutomation runs file work for a user: single actions, action lists, and pipelines of
tasks with dependencies, started by hand, by a schedule, by file changes, by events or by a
remote client.

| Part | State it keeps | Operations | Talks to | What makes it hard | What makes it correct |
|---|---|---|---|---|---|
| Pipeline engine (`pipeline/runner.py`, `worker.py`, `reporting.py`, `model.py`) | ready/waiting queues, dependency counts, flights, records of tasks and run | execute, cancel, settle, land, time out, abort | run store, event bus, user callables | one coordinator and a thread per task race on every outcome; timeouts abandon threads; the store fails; Ctrl-C | each outcome decided once, counts exact, nothing recorded after the close, a run always ends |
| Runs and resume (`pipeline/pipeline.py`, `store.py`) | stored runs and tasks, idempotency keys | run, start, resume, list | engine | a crash between effect and checkpoint | a resume repeats only what has not succeeded |
| Definitions and graph (`definition.py`, `graph.py`, `substitution.py`) | none | load, validate, order | engine | cycles, levels, unknown names | levels respect dependencies, cycles are found |
| Scheduler dispatch (`scheduler/dispatch.py`, `runs.py`, `job.py`) | flights, `running`/`active` per job object, run records | fire, admit, land, expire, cancel | bus, pipeline runs | run thread, ticking thread and callers close the same record; events fire further jobs | overlap protection, one report per failure, bounded chains of runs |
| Scheduler registration (`scheduler/manager.py`, `triggers.py`) | `_jobs`, `_armed`, `_thread` | add, start, remove, shutdown | watchers, bus | arming happens outside the lock | what can fire belongs to a registered job |
| Clock and targets (`scheduler/cron.py`, `triggers.py`, tick, `targets.py`) | `_last_minute`, adopted run ids | tick, fire, execute | dispatch, pipeline runs | two ticking threads, clocks set back, events of other runs | a due minute fires once; a record has the id and the outcome of its own run |
| Event bus (`events/`) | subscriptions | subscribe, publish | everything | handlers that subscribe or fail while an event is delivered | every live subscriber hears each event once |
| Notifications (`notify/`) | dedup and rate windows, sinks | handle, send | bus, network | a failing sink reports through the bus it listens to | no loop, no loss of the first message |
| Audit trail (`audit/`) | records, store | record, query | bus | store failures | the order of records |
| Integrity (`integrity/`) | baseline, violations reported so far | scan, accept, remediate | storage, watcher, bus | a watcher and a scan at once | a pass over a tree that stands still reports exactly what differs, and no drift it finds stays untold |
| File watching (`trigger/`, `integrity/watcher.py`, `local_watcher.py`) | observers, pending paths, loops | start, stop, note, deliver | watchdog | stop while starting, a stream of changes, slow callbacks | one loop, no lost change, every observer can be stopped |
| Core (`core/`) | queue rows, leases, breaker and bucket counters, DAG futures, configuration | enqueue/dequeue/ack, acquire/release, call, execute, reload | SQLite, threads | crash with rows in flight, expired leases, half-open races | at-least-once, mutual exclusion while leases last, guards that hold under threads |
| Authoring (`app/`, `ui/pages/`, `ui/tabs/`) | drafts, forms, canvas, tracked runs | edit, apply, save, run, follow, resume | pipelines, executor | forms that are older than the draft, answers that are older than the page | what is shown, saved and run is what was edited |
| Storage (`storage/`, `remote/`) | mounts, sessions, partial downloads | read, write, copy, move, list, sync, download | third-party clients | services without atomic replace, lost sessions, partial trees, two clients on one path | a content that is replaced or moved is never nowhere, an answer is true |
| Servers and MCP (`server/`, `client/`) | policy, access list, running calls | serve, write, copy, run, read in parts | storage, pipelines, executor | checks before the act, lost answers, texts cut at a limit | only what the policy allows happens, and the answer says what did |
| Local operations and utilities (`local/`, `utils/`) | files | edit, patch, search, rename, archive, trash, version | file system | other processes, partial failure | nothing lost, inverse operations agree |

The parts meet in three places.  The scheduler fires pipelines and action lists on threads of
its own and cancels them through tokens.  Engine, scheduler, storage and integrity monitor
publish on one synchronous event bus, whose handlers (event triggers, notifications, audit) run
on the publishing thread and may start further runs.  Engine and audit write through stores that
may fail and that later runs read.

## 2. Plan

The modules were written in this order, the most important behaviour first: the pipeline engine and
its contract; scheduler dispatch and arming; runs over a store; DAG executor, lock and queue; clock
and targets; reporting (bus, notifications, audit); the executor and its guards, configuration;
watching and integrity; authoring (drafts, editor, page, action lists, inputs); servers and tools;
storage backends, trees, names, downloads, remote operations, local stores, text edits.

What is left:

* proofs of the safety properties that are still only model-checked: those of `Reporting`,
  `StorageBackend` and of the screens;
* the composition of scheduler and engine over one bus: `SchedulerDispatch` has the threads on which a
  run's events may be published, an abandoned task thread included, but not the engine behind them;
* the parts listed in section 7.

## 3. Modules

| Module | Kind | Models |
|---|---|---|
| `PipelineModel` | vocabulary | statuses, reasons and conditions of `pipeline/model.py` |
| `PipelineRunContract` | abstract specification | what a pipeline run promises its callers |
| `PipelineEngine`, `PipelineEngine_proofs` | component, proofs | `Engine` and `Worker` |
| `PipelineRuns`, `PipelineRuns_proofs` | component, proofs | `Pipeline.run`, `start` and `resume` over `SQLiteRunStore` or `MemoryRunStore` |
| `PipelineInputs` | component | planning, dry run and the substitution of parameters and results |
| `PipelineDraft` | component | definitions, their validation and graph, the draft and its edits |
| `PipelineEditor` | component | the service that starts, resumes, tracks and cancels runs, and the page that follows one |
| `PipelinePage` | component | canvas, task form and draft on one page |
| `ActionListEditor` | component | the JSON action editor |
| `SchedulerDispatch`, `SchedulerDispatch_proofs` | component, proofs | `Dispatcher` and the firing side of `Scheduler` |
| `SchedulerArming` | component | registration, arming and shutdown of `Scheduler` |
| `SchedulerClock` | component | cron expressions, job definitions, `tick` |
| `SchedulerTargets` | component | what a run's thread does with its target |
| `Scheduler_proofs` | proofs | about `SchedulerArming`, `SchedulerClock` and `SchedulerTargets` |
| `DagExecutor` | component | `execute_action_dag` |
| `SQLiteLock` | component with its proofs | `SQLiteLock` on one name |
| `ActionQueue` | component | `ActionQueue` |
| `ActionExecution` | component | `ActionExecutor` with quota, rate limiter, circuit breaker and retry |
| `Configuration` | component | `AutomationConfig`, `ConfigWatcher`, secrets |
| `FileWatching` | component | `Debouncer`, `LocalWatcher`, `TriggerManager` |
| `Coordination_proofs` | proofs | about `DagExecutor` and `FileWatching` |
| `NotifyRouter` | operators | the state of the bus and of the router |
| `Reporting` | composition | publishers, bus, router, sinks, trail, audit stores and storage observers |
| `ActionServer` | component | HTTP action server, access list, client, progress frames, metrics |
| `ToolServer` | component | MCP protocol, policy, writing tools, guarded pipelines, and tools that answer in pieces |
| `Execution_proofs` | proofs | about `ActionQueue`, `ActionExecution`, `Configuration`, `ToolServer` and `ActionServer` |
| `StorageBackend` | component | the template methods of `StorageBackend` over each kind of service |
| `StorageNames` | component | URIs, mounts and the file service |
| `TreeOperations` | component | copies and mirrors of trees, manifests, duplicates, rotation |
| `IntegrityMonitor` | component | snapshots, baselines, passes, alerts, remediation |
| `HttpDownload` | component | `download_file` and its progress handle |
| `RemoteOperations` | component | upload, download, delete and list of each vendor |
| `LocalStores` | component | trash, versions, content store, lock file |
| `Storage_proofs` | proofs | about `HttpDownload`, `LocalStores` and `IntegrityMonitor` |
| `LocalFiles` | component | searches, bulk renames, archives |
| `TextEdits` | component | diffs and patches, JSON edits, tables, lines, split and merge |
| `MCPipelineEngine`, `MCSchedulerDispatch`, `MCScheduler`, `MCPipelineRuns`, `MCCoordination`, `MCExecution`, `MCStorage` | models | the instances TLC checks |

Definitions marked `Bug:` are mutated forms of the definition that follows them.  No
specification uses them; they document against which mistakes a property was tested.

`MCScheduler`, `MCPipelineRuns`, `MCCoordination`, `MCExecution` and `MCStorage` hold several small
instances each: the variable `component` says which one a behaviour is about, and the others do not
move.  Each property of such a run speaks of one component, or is a conjunction of properties of
several.  Modules with proofs name their parts (`ArmInit`, `ClockNext`, `dagVars`, `toolVars`) so that
these models can extend them beside another component: what the run checks is then the definition the
theorem is about.

### PipelineEngine

State: the records of tasks (`status`, `reason`, `attempts`) and run (`runStatus`); the
coordinator's books (`blocked`, `ready`, `waiting`, `flights`, the `inbox` of landings); what
each flight holds (`wpc`, `token`, `deadline`, `settled`, `abandoned`); the run store (`stored`,
`storedRun`, `recorded`) and the last event said about each task and the run (`said`,
`runSaid`).  `returned` and `carried` are history: whose callable really returned a result, and
what a resume brought along.

The coordinator is a program counter over the sections of `Engine._loop`.  Every section that the
code runs without a lock another thread could want is one step per task, so that task threads,
cancellation, the clock and an interrupt come between any two.  A task thread is the sequence of
`Worker.__call__`: begin, call, finish or try again, settle under the flight's lock, land.
`Settle` carries everything `_settle` does under that lock: status, checkpoint and event.

Left abstract: results and their values, parameters, durations (a deadline passes at some
moment), backoff delays, log lines, the wording of errors.

`PipelineRunContract` knows only task statuses, the run status and whether waiters were released.
`ImplementsContract` says that every step of the engine is a step of the contract or leaves it
alone, under the mapping that reads `over` as `pc = "done"`.

### SchedulerDispatch

State: `jobs` (the job object under each name), per object `active` and `running`, `flights`,
and per run its record (`state`, `settled`, `errors`), its depth in a chain and the event that
caused it.  A registration makes a new object: overlap accounting belongs to objects, not names.
A run goes new, (heard, found,) decided, admitted, takeoff, flying, landing, concluded, telling, gone;
`expire` and `cancel` close records from outside in any of these steps.  A firing by an event takes the
lock three times: `Hear` is `is_own`, `LookUp` finds the job, and `Measure` is `depth_after`; the publisher
may land between any two.  Handlers run on the publishing thread, so an event blocks its publisher until
the firing it caused has been dispatched; whose flights an event belongs to is computed as in
`_publishers`.  A task thread of a pipeline may publish as long as the process lives, also after its run
has timed out or landed (`begun` are the runs that had such threads).  `chain` is history, how many runs
led to a firing, and so is `cut`: the runs led to by one that was off the books when its event was counted.

### SchedulerArming

State: `jobOf`, `armed` (which slot is registered under a name), and for every call of `_arm` how
far it is and how many triggers it has made live.  A slot is known by the arming it was made for.
`_arm` starts triggers one at a time outside the lock and then either fills its slot or, when the
slot is no longer the registered one, stops what it started.  A trigger may refuse to be armed; the
properties that a refused arming can break say so in `Unrefused`.  Whether the scheduler starts
itself (`autostart`) is chosen in the initial state.  Disarming is one step per slot; a
disarm that fails is logged by the code and is not modelled.

### PipelineRuns

Where `PipelineEngine` follows one run in every detail, `PipelineRuns` follows several runs, and the engines
that resume them, over one store.  State: what the store says (`storedRun`, `stored`, and for the memory
store the `order` in which runs are dropped), what the engine of each run has in memory (`phase`, `task`,
`stage`), which store it is (`durable`, chosen in the initial state), and as history which runs have done
the work of a keyed task and whether anything has happened that excuses doing it twice.  A crash loses every
engine and, with the memory store, the store; each write to the store may fail.  `resume` is
`_carried_over`: tasks that are stored as succeeded keep their record, and everything else starts anew.
Every task has `when="on_success"`, and cancellation and timeouts are left to `PipelineEngine`.

### DagExecutor

State: `_DagRun` (`indegree`, `results`, `ready`, `in_flight`) and the pool (`working`, `future`).
The coordinator submits all that is ready, waits for one or more futures and completes them one by
one; pool threads work meanwhile.  `ready` and the batch are sets: the order inside them is any.
Values are abstracted to "value" or "error".  `failFast` is the parameter of the call.  Without it
the code does not count down the dependents of a node that has no action list; `Uncounted` names
that exception, and `DagInv` and `EveryNodeHasAResult` hold with it.

### SQLiteLock

State: the row (`owner`, `expires`), and for each instance `_held`, what goes on under its lock
(`step`) and the time it has read.  Each operation is split where it has read the clock of its
host and not yet reached the database.  Clocks of hosts are ahead by a constant `Skew`, and do not
step back.  A new process makes a new instance with an owner id of its own, so an owner that died
does not return.  `until` is history: the expiry of the last lease an owner was really given.

### ActionQueue

State: the table (`status`, `priority`, `runAt`, `attempts`) and the row each worker has claimed.
Every operation is one transaction, and the time it passes to SQLite was read before: the model
lets it be any earlier time.  Payloads are left out; a row whose payload cannot be parsed, which
`enqueue` never writes, is too.

### PipelineInputs

State: the pipeline (`book`), the parameters of the run (`given`), how far it has got (`stage`), and of
each task its state, its result and the arguments its action was called with.  A text is a sequence of
pieces, plain or placeholders; values are nested.  `Problems`, `InputProblems` and `Render` follow the
code, and `InputsAgree` relates them: what was accepted can be filled in, with the results the run has.

### PipelineDraft, PipelinePage, PipelineEditor, ActionListEditor

A draft is its document with undo and redo; validation, levels and upstream sets are operators with
the code's order of checks, compared with reference definitions.  The page has the draft, the canvas's
selection and the form's fields, which are older than the draft between a change and the next refresh.
The editor's calls run on a thread pool: a click asks, the answer comes later, and executors run
meanwhile.  The action list has the list, the form of one row, the raw text and the list object a
worker is executing.  A value is its JSON type and its text, since forms convert both ways.

### SchedulerClock and SchedulerTargets

Time is a sequence of instants, each with its wall-clock reading in every zone; one reading comes twice
where the clocks are set back.  A tick reads the clock, takes the lock and compares the minute with
`lastMinute`, lists the jobs under the lock again (`registered`, then `todo[k]`) and fires them job by
job, so that two ticks and a removal may come between any two of these.  `fired` and `returns` are
history: how often a job was fired at a minute, and how often a minute was handled right after a later
one, which only a clock set back or a slow second ticker can cause.  A cron field is a set of chunks
(`*`, one value, a span, each with a step); `CronAgrees` compares the parsed set with what the chunks
name.  `JobProblem` is what `add`, `add_job` and `add_pipeline` refuse; the model lists definitions with
one mistake each and TLC evaluates that these and no others are refused (`MistakesAreRefused`).

A target is an action list, with the token read before each action, or a pipeline run whose id is
adopted from the first event its own thread publishes.  `record` is what the run's record says, closed
by the thread that lands the run or from outside by a timeout or a cancellation.  `TargetInv` is the
inductive invariant of its proof: how far a thread is decides what the record may say.

### ActionExecution, Configuration, FileWatching

A batch runs in order or on a pool; every action passes quota, bucket, breaker and retry in the order of the
wrappers, and each of these reads and writes its counters under its own lock, so calls that began in one
state of the breaker end in another (`trials` are the calls let through since the circuit turned half open).
`ConfigWatcher.start` loads and returns the document; fingerprint, thread and the caller's `apply_to` are
steps of their own (`Arm`, `ApplyInitial`), between which the file may change. The thread then notices a
fingerprint, reloads and hands on, while files and secrets change.  A document may be fine, no TOML, no text
at all, or declare sinks that cannot be built; `Escapes` are the errors that are no
`FileAutomationException`, of which the thread dies (`ReloadEscapes`, `OnChange`).

Two things watch files.  A debouncer loop waits for quiet or for the longest wait and delivers; stopping
gives up after a timeout.  The registry of named watchers starts observers under its lock and stops them
outside it, so a client that restarts a name holds the old observer while others already see the new one.
`WatchInv` says where a loop and an observer may be.

### Reporting

`publish` delivers on the publisher's thread, so a thread is a stack of publications and handlers.
Routes, sinks, stores and subscriptions are changed by an administrator between any two steps.  The
router's memory of keys and its rate windows, the failure reports it publishes itself and the trail
that hears of the same failure twice are followed in full; what a network answers is a choice.

### ToolServer, ActionServer

A tool call is a message that was parsed, checked against the policy and then acts in the steps its
code takes, between which another client of the storage acts.  A check is the name of the problem it
finds, and `p ?? q` is the first problem of two, so that a chain of checks keeps the code's order.
Pipelines run task by task through the guarded actions, in the background too, beside the next message.
`call.touched` is history: what anybody else, such a pipeline included, has changed since the message in
hand was received.  Reads in parts are a client that continues where the last answer said; a text is the
set of offsets at which one of its characters may begin, which is all that a page can cut wrongly, and a
search looks at one candidate per step.

A request to the action server has a body: garbage, a list, a dict with its list under `auto_control`, or
anything else.  Its handler checks and executes it entry by entry (`RunEntry`), and may die in between;
the client hears of it or gives up before or after that.  What the access list looks at and what the
executor runs are two different readings of the body.  A frame is its header, bytes as numbers, and the
length of its payload; a reader gets the length back from the header alone.

### StorageBackend, StorageNames, TreeOperations, IntegrityMonitor

A backend is a record of what its service offers (directories, atomic rename, overwriting rename,
twins), of what its code looks up and of how it translates errors, and an operation, streams that are
written included, is the sequence of requests the backend's code makes; a request may be refused, or its
answer lost before or after it took effect, and the caller tries again what was transient.
A missing parent is looked up and made in two requests (`MakeParents`, `Mkdir`), so that two clients of
Google Drive may each make one.  `StorageBackend` covers all twelve backends this way, each with one client
and failures, or with two clients whose requests are all answered.

Trees are functions from paths to contents; the operators of `TreeOperations` are compared with what they
promise, failures of single files included.  `SyncDir` goes through the entries of `os.walk` in their order,
each on the tree the earlier ones have left, because a copy through a link of the target changes another
file (`led` are these).

The monitor's passes take one step per file read, beside edits of the tree: what a listing said, what was
hashed later and what the baseline holds are three snapshots of different moments.  A quick pass trusts
the checksum of a baseline whose size and stamp match.  `verdict` is history: what the latest pass found,
what there was to find and whether it told again what was told last; `told` the signatures published since
the baseline was approved; `reports` what an administrator may accept, earlier reports included.

### HttpDownload, RemoteOperations, LocalStores, LocalFiles, TextEdits

Downloads are calls on one name, one after the other, that fail, are cancelled, die and are repeated, over
a server that may ignore ranges or leave out content-length and a resource that may be replaced.  A stream
that is cut raises if its length was announced and otherwise ends like a whole one (`CutShort`); the rename
and the checksum may raise (`LandingRaises`).  A call remembers what it found in the partial file, what
the URL served and whether that was cut.  Remote operations are records of how each vendor's
code treats errors, over one session.  Local stores split each call at its file system calls, for
several clients of which each may die in between: a put that fails removes the temporary file whoever
writes it, and a put that died leaves one behind that the next put writes over.  The properties exclude
what the code does not promise, by history: `overlapped` savers, `surprised` restores, `disturbed`
digests (two live puts of one content, or a source that changed under one).  Text edits are operators, each
compared with its inverse or with a reference over bounded documents, and two callers that rewrite one file
step by step.  Files read and written in text mode lose the kind of their line ends, also outside the edit
(`ReadText`).

## 4. Runs

| Run | Instance | Shows |
|---|---|---|
| `pipeline_flow` | four tasks, two workers, a retry, two timeouts, an `on_failure` task, Ctrl-C | exact counts, a complete and consistent end, the contract (final outcomes, silence after the close), termination |
| `pipeline_join` | three tasks, one worker, a user condition, an idempotency key, a failing store, resumed runs | the flight invariant, justified starts, true checkpoints, one closing event |
| `scheduler` | three firings of a name registered twice; three firings of two jobs that listen to each other, with a limit of two; two jobs with two triggers and three armings; two tickers over three minutes; two runs at their targets; every cron chunk at the edges of a field | exact accounting, no overlap; the firing at the end of a chain is skipped; triggers belong to jobs and shutdown stops them; a minute fires once; targets are told |
| `scheduler_events` | two jobs that listen to each other's failures, both with timeouts | one report per failure, every firing settles |
| `scheduler_collision` | a job registered again during a run | **violated**: see findings |
| `arming_leak` | a refused registration, a start and a removal at once | **violated**: see findings |
| `runs` | two runs with one key over either store, two crashes, two failures, a lost write; seven definitions and three edits; an editor with two runs and three calls; a page with two drafts; five action lists; a chain of three tasks with parameters | runs are never repeated, skipped or completed wrongly and in the end succeed; drafts and validation; screens, steps and list edits are exact |
| `editor` | the same editor with a user who presses Resume again at once | **violated**: see findings |
| `coordination` | three instances on a lease, one fast clock, one death; eight nodes in two diamonds; two debouncer loops, three observers | leases, DAG, watchers, and the two liveness properties of lock and watcher |
| `execution` | three rows and two workers; batches of three and four actions; documents of every kind of mistake; every kind of request body; nine policies and a foreign writer; texts of up to four characters; bounded documents; a bus with two publishers | queue, executor, configuration, tools, servers, edits, reporting |
| `action_list` | the action lists of `runs` | **violated**: see findings |
| `storage` | every backend with one client and two failures, or two clients that race for one path; two files under the monitor; small trees; two downloads, three faults; every vendor with two files; two or three clients of the stores; two levels of mounts | backends, monitor, trees, remote work and local work |

Each property of a passing run has a mutant in `PROJECT.json`: a plausible mistake in a mapped
definition that makes TLC refute it.

### Bounds

Plans have at most four tasks.  Two dependencies that end at the same time, one of them late, and a
dependent of a dependent are what the release logic can get wrong; the two plans have them, and one worker
as well as two.  Runs in `SchedulerDispatch` are firings: two suffice for an overlap, three for a firing
that meets one run that has left its record and one that is at work.  A run that gets no thread
(`ThreadsRunOut`) is in `scheduler_events`, and in the proofs of accounting and overlap.  `MAX_CHAIN` is 16
in the code; it is a constant of the model, 2 in the runs, and the component `chains` has the three runs it
takes to reach it.  Three armings let one of two jobs be armed again while the first arming is under way,
which is also what the leak needs.  Three minutes hold a repeated wall-clock reading and the one after it.
In `PipelineRuns` two crashes let a run be resumed after a resume.  Graphs of the DAG executor join two
branches that share an ancestor, so that a node is counted down by a result and by a skip.  Leases of two
seconds over a clock of three values let one be valid, be refreshed late, expire and be taken over; that
leases are exclusive over any time is proved.  Three rows and two attempts let a row be given back behind
another.  Batches of three actions on two threads let a call that began with the breaker closed end with it
open, and with it half open; a batch of four lets two be on trial together.  The router's limits (keys
remembered, share of a flood) are 1, so that each is reached by the second event.  A draft is edited three
times, a page five, a list four: an edit, a rename and another edit, or an edit under an open form.  Tools
make two calls with one foreign write between any two steps.  Two requests of a storage call fail, so that a
call fails and its clean-up fails too.  Downloads have two versions of the resource of different lengths,
shorter and longer than the partial file.  Documents have depth two, key paths three segments, edit scripts
four steps, tables two rows.

Deadlock is not checked where the system may stop because its firings, armings, rows, runs or time are
used up; the pipeline engine checks it, and for the DAG executor `NeverStuck` says it.  Symmetry is used
for run and arming identities, in runs that check no liveness property.

### Fairness

The coordinator and the runtime's part of a task thread are weakly fair: the operating system
schedules threads, and no step waits for anything but another of these.  Deadlines pass.  A
user's callable must return by itself only when its task has no timeout.  Interrupts, cancels and
store failures are never forced.  In the scheduler a target ends some day; a target that
never ends keeps its job running, as documented.  `RunsSucceed` assumes a user who resumes what has
not succeeded, since nothing in the code does so by itself, and callables, lookups and writes that fail
finitely often.  `OrphansAreFreed` needs strong fairness of a claim: the database is not busy every
time.  `ChangesAreDelivered` assumes that every debouncer loop is scheduled and that time passes.

## 5. Findings

* `scheduler_collision`: removing a job and registering it again, the documented way to change it,
  starts a second run beside the first, which `job.py` says overlap protection never lets happen.
* `arming_leak`: a `start` between the two locked sections that undo a refused registration arms
  the job again; after a `remove`, its triggers survive `shutdown`.
* `editor`: `resume_run` asks whether the run is executing and starts its thread later; two requests at
  once both pass, and two threads execute one run.
* `action_list`: text typed into the raw editor is overwritten in the list by the form that is still
  open, while the text goes on showing it.

Other deviations are not findings of a run; the properties are stated around them.

* Scheduler: a run that got no thread is taken off the books before its failure is published, and a task
  thread its pipeline has abandoned may publish after its run has landed.  What such an event fires counts
  from 0, against `dispatch.py:15-16`, so a chain through it is not bounded (`cut` in `ChainsCounted`).  After
  a step back of the clock a minute fires again (`FiredOnce` counts these as `returns`).
* Executor: the circuit breaker's "one" trial call (`circuit_breaker.py:3-5`) is one only when calls come one
  after the other.  With threads every call that comes before the first outcome is let through, and a call
  let through before the circuit opened counts as if it were the trial.
* Configuration: the watcher survives errors (`config_watcher.py:6-8`) as far as they are
  `FileAutomationException`s; a file that is no UTF-8, or a sink without its `url`, ends the thread.  `start`
  returns what it has loaded for its caller to apply: an edit between the load and the fingerprint is not
  noticed, and one that the thread applies before the caller does is undone, until the next edit
  (`outdated`).
* Core: with `fail_fast=False` the dependents of a node without an action list neither run nor appear in
  the result.  A `refresh` after the lease has been taken over returns as if it had extended it, and
  `is_held` stays true.  A queue row whose worker died stays in flight and nothing lists it.
* Integrity: watchers and passes share one memory of what was announced last, so passes over two drifted
  paths in turn announce each other's drift again and again, against `monitor.py:362-364`
  (`KnownStaysQuiet` speaks of two passes after one another that find the same).
* Watching: a debouncer whose `stop` gave up on a slow callback may have two loops after the next start
  (`gaveUp`).
* Pipelines: the name of an action is rendered when it is called but its placeholders are not
  validated (`PlainName`), and tuples are validated but not rendered.  Saving a YAML definition
  and saving the action list truncate the file before they write it.
* Page and list: numbers beyond the digits of their fields and conditions the form does not know are
  changed by an Apply of something else (`Fits`); a row moved with its form open is committed over the row
  that took its place.
* Text: a hunk without context is applied one line early, and a changed line that starts with `--` or
  `++` reads as a header.  `sed_replace` and `apply_text_patch` read files in text mode: when they write, the
  CRLF line ends of the file are not what they were, outside the change too.  Two replacements in one file at
  once lose one.
* Servers: a tree copy counts its collisions, then copies with what the caller wished: a file whose source
  or target appears in between is replaced although the policy forbids it (`LateCollision`).  The access list
  of the HTTP server looks at lists only; a body `{"auto_control": [...]}` passes it and is executed, so
  `action_acl.py:3-6` ("every incoming payload") holds for lists.  The metrics bound the labels of events,
  notifications and storage, not those of the actions (`metrics.py:29-31` says "each label").
* Trees: `sync_dir` walks file names, so links to directories are neither copied nor reported, against
  `sync_ops.py:19-21`; a copy over a link of the target writes through it (`led`).
* Storage: `overwrite=False` looks first and writes later, so the second of two clients may replace what the
  first has written.  SMB, WebDAV and fsspec write in place: an upload that breaks off has lost the old file
  (`BrokenInPlace`).  A server that refuses to replace a file and
  then does it without an answer gets the file that was moved aside put back over the new one
  (`PutBackOver`).  On Google Drive two clients may make twins of one file or folder; of folders nobody is
  told.
* Downloads: without a checksum a download answers True for a wrong file when the server ignored the range
  of a continued call, when the partial file was of a resource since replaced, or when an answer without
  content-length was cut.  When the rename or the checksum raises, the call's reporter goes on running in the
  registry (`raised`).  A download that died between its last chunk and the rename asks for a range past
  the end ever after.
* Local stores: two savers of a version at once may take one number; their time stamps keep the files apart,
  and `restore` finds the first of the two.  A crash between a move into the trash and its note leaves a file
  without an origin.

## 6. Proofs

The theorems hold for every plan, every number of jobs, firings, armings, tickers, workers, rows, leases,
runs and graph nodes.  What they assume of the constants is named: `PlanAssumption`, `DispatchAssumption`,
`LockAssumption`, `QueueAssumption`, `RunsAssumption`, `ExecutionAssumption`, `ToolAssumption`,
`ServerAssumption`, `HttpAssumption`, `StoreAssumption` and `IntegrityAssumption` are assumptions of their
modules; `GraphOK` (what `_build_graph` has checked), `ConstantsOK` (arming), `ClockOK` (a zone shows a
reading once; cron chunks have integers), `TargetsOK` and `WatchOK` (nobody is not somebody) are hypotheses
of the theorems.  `ToolAssumption` types the messages and policies, and says that links do not cut a tree: a
file below a directory is, with its links followed, below where the directory leads, and that a text has an
end; `ServerAssumption` that payloads are below 2^24 bytes.  TLC evaluates all of them in the runs.  Every
inductive invariant below was checked with TLC on the run's instance before it was proved.

`PipelineEngine_proofs`.  `TypeCorrect` is inductive by itself.  None of the safety properties is:
that a late thread cannot rewrite an outcome depends on which threads may still settle, which
depends on the books and on how far `_abort` has swept.  `FlightInv` is the strengthening: pending
tasks are untouched, queues hold unblocked pending tasks, a flight is settled or abandoned and
never both, a thread that may still record belongs to a running task on the books, the sweeps of
`_expire` and `_abort` stay on the books and miss none, and outcomes, records and events tell one
story.  `FlightInvariant` proves it action by action; `StoredSuccess` follows from it, and
`OutcomesAreFinal`, `ClosingEventsAreLast` and `ClosedRunsStay` are steps taken from a state in it.

`RunInv` builds on `FlightInv` and is about the run as a whole: the sections of the coordinator come in
their order (`PhasesInOrder`), a running task is on the books, the dependency counts are exact
(`BlockedExact`), no pending task is lost between the queues (`NothingForgotten`), whatever was admitted
was justified, and the verdict is the one the records support.  The step that needs an argument of its
own is the end of the loop: empty queues and no flights mean that every task is over, because a pending
task of the lowest level would have all its dependencies over and so a count of zero
(`EmptyQueuesMeanOver`, with `WFMin` for the lowest level).  `CountsAreExact`, `StartsJustified` and
`EndsAreConsistent` follow.  `EngineImplementsContract` is the refinement: under `FlightInv` and `RunInv`
every step of coordinator, thread or environment is a step of `PipelineRunContract` or leaves its state
alone (`StepImplements`).

`PipelineRuns_proofs`.  That a keyed task is executed once is not inductive: it holds because an
execution is in the store or about to be, and because a task that was let in still has no execution under
its key (`ExecutionsAreKept`).  That a stored success is complete needs that an engine knows every success
the store has, that a skip in a running run has a failure as its cause, and that a run stored as
succeeded has no engine left.  `RunsInv` is the conjunction; each lemma takes one kind of step
(launch or resume, start or end of a task, close of a run, crash) over a store that may lose the write or
drop other runs (`RunIsSaved`, `TaskIsSaved`).  `RunsAreSound` follows.

`SchedulerDispatch_proofs`.  `DispatchInv` says that the books hold exactly the runs that are
aboard, that counts equal cardinalities of flights per object, and that two flights of one object
mean it allows overlap; it is proved together with the types, since the count of an object is only
defined for runs that have one.  `AccountsAreExact` and `NoOverlap` follow.  `RecordInv` adds, for
every place a run can be in, what its record may say and who has reported it; `ReportsAreUnique`,
`WaitersSeeTheJobFree` and `RecordsStayClosed` follow.  `ChainInv` says that a run is at least as deep as
the chain that led to it unless the chain was cut, and that a run that came as far as a thread is below the
limit: the depth an event gives is above that of every flight it belongs to, and its publisher is one of
these or the run is recorded in `cut`.  `ChainsAreBounded` follows.

`Scheduler_proofs`, arming.  `ArmInv` adds to the types who knows an arming: slots and jobs are known under
the name of their arming, a kept slot has the full set of triggers, a trigger that can fire is being
armed, about to be disarmed, or kept.  Unless an arming was refused, what is kept is on the books or
about to be disarmed and a slot has its job (`BooksAreComplete`); this is the part a refused
registration and a `start` at once can break (`arming_leak`), so it and what follows from it are stated
under `Unrefused`.  `StartGives` treats the locked section of `start`, which may give any number of
jobs their armings at once.  `ArmingIsSound` follows.

`Scheduler_proofs`, clock.  `FiringsArePaid`: for each job and minute, the firings done and the ticks that
may still fire it are together at most one for the first handling of the minute and one for each return.
The tickers that may still fire are a set that each step changes by at most one (`TickersFewer`,
`TickersMore`).  The hour that is repeated adds that what was fired was due and that the second pass is due only
where every hour is named.  The other half is cron: a field is a set, so no induction is needed;
`Multiples` turns the remainder in `_expand_range` into a multiple, `ChunkExpands` and `ChunkRefused`
give what each form of chunk expands to, `SundayIsNamed` accounts for 7, and `FieldAgrees` is
`CronAgrees` for every field and chunks with any integers.  `ClockIsSound` is both halves.

`Scheduler_proofs`, targets.  That a record tells what its run did is not inductive: a timeout or a
cancellation closes the record from outside while the thread goes on, so `TargetInv` says for every place
the thread can be in what the record may say by then (`RecordsFollow`), how far an action list has got
(`ListsFollow`) and whose pipeline run the record may name (`NamesFollow`).  `RecordsAreTrue` follows.

`Coordination_proofs`, DAG.  `GraphInv` says that a node is ready, in flight or has its result, one at a time,
that counts are what is still open, that futures and calls are in step, and that with `fail_fast` exactly
what is below a failure was skipped.  `SkippedFacts` relates the set `_mark_skipped` reaches, which the
model defines as the least closed one, to the graph.  That every node has a result in the end uses
acyclicity in the form that each set of nodes has one without a dependency in it.  `DagIsSound` follows.

`Coordination_proofs`, watching.  `WatchInv` adds to the property that a live loop is the current one
unless a stop gave up, that a loop that waits for quiet has something to hand over (`LoopHasWork`), and
that an observer is in one place only: under its name, in the hands of the one client that stops it, or
stopped (`OnePlace`).  `WatchesAreSound` follows.

`SQLiteLock` (its proofs end the module).  That a valid lease is respected is not inductive: a claim is
harmless only because the time it compares has passed on its host, so `LeaseInv` adds that no time that
was read lies ahead, and that the row expires no later than its owner's last reading allows.  With clocks
that differ by at most `MaxSkew`, `LeasesAreRespected` gives `Exclusion`, and `LeasesGrow` follows
from the second addition.

`Execution_proofs`, queue.  `NoOvertaking` depends on rows being as they were enqueued until they are
claimed and on ids being given out in order; `RowsInOrder` says so, and in turn needs that only the
worker that has claimed a row changes it (`ClaimsAreExclusive`).  `QueueInv` is their conjunction.
`RowsStayFinished` is a step from a state in it.

`Execution_proofs`, executor.  `ExecInv` adds to the limits and totals the stage of every action, that the
circuit's count is below its threshold exactly when closed, that the trials of a half-open circuit are under
way, and that nothing is before, after or in a rehearsal.  That there is one trial when actions come one
after the other needs that one action at most is under way (`OneByOneStep`).  The totals are cardinalities
of sets that a step changes by at most one element (`RecordCounts`).  `GuardsAndAccounts` follows.

`Execution_proofs`, configuration.  `ConfigCatchesUp` speaks of a thread with nothing left to notice;
`SeenInv` says that what is about to be applied is on disk or older than the stamp, that what a quiet
thread has seen has been applied once the caller of `start` is through, and what a dead thread died of.
`ApplyToApplies` shows that `apply_to` leaves its document applied, or refused with the routes it had.
`ConfigIsCaughtUp` follows.

`Execution_proofs`, MCP tools.  The policy is checked in one step and obeyed in later ones.  `CallVetted`
carries what the checks of a message found to the moment it acts, `RunVetted` does so for the task a
pipeline is about to execute and `PlanVetted` for the definition `pipeline_run` has checked and not yet
read; `PhaseInv` says that a verified transfer has written and removed nothing, and `CollisionsCounted`
that a collision of a tree copy the policy would refuse involves a file somebody else touched since.
`VettedTools` and `VettedTasks` read off the chains of checks what they ask for; `CopiedFacts` and
`TaskEffects` say what a tree copy and a task change; `BelowFacts` takes the permission for a directory to
the files below it.  One lemma per action then shows both that `ToolInv` is kept and that the step obeys
the policy: `ToolsAreTruthful` and `PolicyIsObeyed`.  The proof corrected the model: an
earlier form of the property excused only a target that had appeared, and failed for trees of two files
and for a tree copy beside a pipeline of the server's own; `LateCollision` now names the source as well
and whoever changed it.

`Execution_proofs`, reads in parts.  `ReaderInv` says that a reader has exactly what is before its offset and
that the offset of a text is never within a character; that a page leaves it so is
`FileReadStep`.  `SearchInv` says that among the candidates passed the matches are the hits,
unless a file was skipped.  They complete `ToolsAreTruthful`.

`Execution_proofs`, action server.  `AnswerFits` says what may have run for each state of an exchange, so
that neither a lost reply nor a refusal after the access check can make the client's news false
(`Refusing`).  `LabelStep` bounds a label through the cardinality of what it knows.  `HeadersReadBack` is about
the operators alone: for every length below 2^24, in each of the three forms of a header, `ReadFrame` gives
back what `Header` was given; the value of a field of two or eight bytes is a recursive function
that is unfolded (`ValueOfTwo`, `ValueOfEight`).  `AnswersAreTrue` follows.

`Storage_proofs`, downloads.  What a call has written and what is still to come make up what it found
followed by what it was sent (`TransferInv`), or, once the stream was cut, a beginning of that; a partial
file lies between the two (`PartInv`).  No step assumes that the server continues what was found: that the
whole is then the resource is a fact about the two sequences (`WholeOfAll`).  `HandleInv` says which
reporters are running: that of the call in hand and those of calls that raised.  `DownloadsAreSound` follows.

`Storage_proofs`, local stores.  Four small protocols.  Trash: a content lies in one place, and whoever is
about to restore over a file has had it put there since the look.  Versions: until two savers overlap, the
number and the save under way are ahead of all others, and a prune leaves the highest number (`NextIsHighest`,
`PruneStep`).  Contents: no inode serves two digests (`InodesInv`), although a dead put's temporary file is
opened again by the next one; as long as a digest is undisturbed its one put has the temporary file and
there is no blob before it is renamed (`PutsInv`).  Lock: the instances that believe and the files that
hold are the same, and one at most.  `StoresAreKept` is all four.

`Storage_proofs`, integrity.  What a snapshot knows of a file is about a moment that has passed, unless the
stamp is still the file's, and then so is the checksum (`Known`); no write gives an old stamp back, so
this lasts (`KnowledgeLasts`), and it is why a quick pass may trust the baseline, even one whose
snapshot was taken while files were written.  `HashInv` says that an undisturbed pass sees what it has
listed, `RepairInv` that what it does not announce is known.  `MentionedExactly` is the operator lemma:
`DetectChanges`, with its pairing of renames, mentions exactly the files that differ, for any two
snapshots.  `MonitorsAreSound` follows.

`StoredSuccessIsReal`, `FinalIsFinal`, `NothingAfterTheEnd`, `WaitMeansReleased`, `RecordsAreFinal`,
`MutualExclusion` and `LeaseNeverShortens` are proved and need no run of their own: the runs check the
invariants they follow from.

Only model-checked: liveness (`RunEnds`, `FiringsSettle`, `RunsSucceed`, `OrphansAreFreed`,
`ChangesAreDelivered`), which is out of the prover's reach; what recursive operators and folds compute
(validation and graphs, text edits, trees, the order of repairs behind `RepairIsComplete`), which would need
induction over data; and the properties of the modules without proofs: `AuthoringSound`, `ScreensAreTrue`,
`EditsAgree`, `ReportingSound`, `BackendSound` and `FilesSound`.  The router that `ReportingSound` speaks of
is rebuilt by folds (`Sync`) and searched through sorted sets, and what a draft or a list is worth
(`AuthoringSound`, `ScreensAreTrue`) is decided by recursive validation, so these need the same induction.

## 7. Not modelled

See the components with status `not_modelled` in `PROJECT.json`.  The command line, the main window,
dashboards, the TCP server, the web pages and the registered wrappers are presentation around the parts
above.  Hashing, encryption, templates and the parsing of single fields are data conversions without a
protocol.  `app/masking.py`, `core/plugins.py` and `core/package_loader.py` keep no state of their own.
Within modelled parts, by component:

* threads: one that dies by itself, a disarm that raises, a run thread killed by the interpreter's exit; a
  ticker for which no thread can be started (`scheduler/manager.py:188-191, 382`: `add` raises and the job
  stays registered and armed); an observer stopped from its own thread (`trigger/manager.py:152-153,
  205-213`: the join raises, and `stop_all` leaves the rest running);
* clocks that are set back, for leases and due times;
* configuration: a `stop` whose join times out, an `apply_to` that another thread sees half done, a second
  `start` of a running watcher;
* the queue: an ack or nack by somebody who has not claimed the row;
* storage: WebDAV redirects, the splitting of URIs across backends, staged reads and time stamps, trees more
  than two levels deep, a folder deleted while another client writes into it;
* downloads: two calls of one name at once; answers of 3xx, which `raise_for_status` lets pass and whose body
  is saved as the file; a body shorter than its content-length is taken to raise, as urllib3 does;
* layout, geometry and wording; the history that the bus and the scheduler keep for dashboards; payloads of
  frames of 2^24 bytes or more; writes that leave the time stamp and size of a file unchanged, which the
  monitor is documented to miss.
