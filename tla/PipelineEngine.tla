--------------------------- MODULE PipelineEngine ---------------------------
(* One run of a pipeline: the coordinator of automation_file/pipeline/        *)
(* runner.py (class Engine), the task threads of worker.py (class Worker),    *)
(* and what they write through reporting.py to the run store and the bus.     *)
(*                                                                            *)
(* The coordinator is one thread and its steps are the bodies of its loops.   *)
(* A task thread is cut where it takes or gives up its flight's lock, which   *)
(* is the only synchronisation the two sides share.  The look at the token    *)
(* just before a locked section is part of that section's step: a cancel that *)
(* falls between the two only sets the token, which commutes with the         *)
(* section.  ready, waiting and the inbox are sets: the code serves them      *)
(* first in, first out, and the model serves them in any order.               *)
EXTENDS PipelineModel

CONSTANTS
    Tasks,        \* the task ids of the plan
    Deps,         \* Deps[t]: Task.depends_on
    Level,        \* Level[t]: Plan.levels, larger than the level of any dependency
    When,         \* When[t]: Task.when
    Keyed,        \* the tasks with an idempotency_key
    Timed,        \* the tasks with a timeout
    MaxAttempts,  \* MaxAttempts[t]: RetryPolicy.max_attempts
    MaxWorkers,   \* Plan.max_workers
    CarriedSets,  \* what an earlier run may have left succeeded ({{}}: a fresh run)
    StoreFails,   \* whether the run store may raise
    MayInterrupt  \* whether an exception may hit the coordinator (Ctrl-C, no thread)

ASSUME PlanAssumption ==
    /\ IsFiniteSet(Tasks)
    /\ Deps \in [Tasks -> SUBSET Tasks]
    /\ Level \in [Tasks -> Nat]
    /\ \A t \in Tasks : \A d \in Deps[t] : Level[d] < Level[t]
    /\ When \in [Tasks -> WhenKind]
    /\ Keyed \subseteq Tasks
    /\ Timed \subseteq Tasks
    /\ MaxAttempts \in [Tasks -> Nat \ {0}]
    /\ MaxWorkers \in Nat \ {0}
    /\ CarriedSets \subseteq SUBSET Tasks
    /\ StoreFails \in BOOLEAN
    /\ MayInterrupt \in BOOLEAN

VARIABLES
    \* the run as memory holds it
    status,       \* status[t]: TaskRun.status
    reason,       \* reason[t]: TaskRun.reason
    attempts,     \* attempts[t]: TaskRun.attempts
    runStatus,    \* PipelineRun.status
    \* the coordinator
    pc,           \* where Engine.execute stands
    blocked,      \* Engine._blocked
    ready,        \* Engine._ready
    waiting,      \* Engine._waiting
    flights,      \* the keys of Engine._flights
    inbox,        \* Engine._inbox
    sweep,        \* the flights _expire or _abort has still to look at
    cancelSeen,   \* Engine._cancel_seen
    \* what the coordinator shares with each task thread
    wpc,          \* where the task thread stands
    token,        \* Flight.token is cancelled
    deadline,     \* Flight.deadline: not set, set, or past
    settled,      \* Flight.settled
    abandoned,    \* Flight.abandoned
    \* the outside
    cancelAsked,  \* PipelineRun.cancel_token is cancelled
    interrupted,  \* an exception has left the coordinator's loop
    storedRun,    \* RunRecord.status in the store ("absent": no record)
    stored,       \* the status of every task in the store
    recorded,     \* the latest save_run reached the store
    runSaid,      \* the latest pipeline.* event
    said,         \* said[t]: the latest task.* event
    returned,     \* history: the task's callable has returned a result
    carried       \* history: the tasks that were kept from an earlier run

run == <<status, reason, attempts, runStatus>>
queues == <<blocked, ready, waiting>>
flightVars == <<wpc, token, deadline, settled, abandoned>>
store == <<storedRun, stored, recorded>>
history == <<returned, carried>>
books == <<flights, inbox, sweep, cancelSeen>>
engine == <<pc, queues, books>>
outside == <<cancelAsked, interrupted>>
events == <<runSaid, said>>
vars == <<run, engine, flightVars, outside, store, events, history>>

WorkerPc == {"none", "begin", "call", "returned", "raised", "refused", "stopped",
             "landing", "gone"}
EnginePc == {"start", "loop", "admit", "launch", "await", "expire", "conclude",
             "tell", "ending", "abort", "done"}

-----------------------------------------------------------------------------
(* Engine._prepare, on a run that Pipeline._blank_run or Pipeline.resume built *)

Init ==
    /\ carried \in CarriedSets
    /\ status = [t \in Tasks |-> IF t \in carried THEN "succeeded" ELSE "pending"]
    /\ reason = [t \in Tasks |-> "none"]
    /\ attempts = [t \in Tasks |-> IF t \in carried THEN 1 ELSE 0]
    /\ runStatus = "running"
    /\ pc = "start"
    /\ blocked = [t \in Tasks |-> Cardinality(Deps[t] \ carried)]
    /\ ready = {t \in Tasks \ carried : Deps[t] \subseteq carried}
    /\ waiting = {}
    /\ flights = {}
    /\ inbox = {}
    /\ sweep = {}
    /\ cancelSeen = FALSE
    /\ wpc = [t \in Tasks |-> "none"]
    /\ token = [t \in Tasks |-> FALSE]
    /\ deadline = [t \in Tasks |-> "none"]
    /\ settled = [t \in Tasks |-> FALSE]
    /\ abandoned = [t \in Tasks |-> FALSE]
    /\ cancelAsked = FALSE
    /\ interrupted = FALSE
    /\ storedRun = IF carried = {} THEN "absent" ELSE "running"
    /\ stored = status
    /\ recorded = FALSE
    /\ runSaid = "none"
    /\ said = [t \in Tasks |-> "none"]
    /\ returned = [t \in Tasks |-> FALSE]

-----------------------------------------------------------------------------
(* Reporter and RunStore: a PipelineException from the store is logged and the *)
(* write is lost; save_task of a run the store does not hold always raises it. *)

SaveTasks(S, s) ==
    /\ \E W \in SUBSET S :
          /\ W = S \/ StoreFails \/ storedRun = "absent"
          /\ W = {} \/ storedRun # "absent"
          /\ stored' = [t \in Tasks |-> IF t \in W THEN s ELSE stored[t]]
    /\ UNCHANGED <<storedRun, recorded>>

SaveTask(t, s) == SaveTasks({t}, s)

\* Bug: the run's own row without the rows of its tasks.
SaveRunRow(sts, rs) ==
    storedRun' = rs /\ recorded' = TRUE /\ stored' = stored

SaveRun(sts, rs) ==
    \/ storedRun' = rs /\ stored' = sts /\ recorded' = TRUE
    \/ StoreFails /\ recorded' = FALSE /\ UNCHANGED <<storedRun, stored>>

-----------------------------------------------------------------------------
(* The coordinator: execute and _loop *)

Start ==
    /\ pc = "start"
    /\ SaveRun(status, "running")
    /\ runSaid' = "started"
    /\ pc' = "loop"
    /\ UNCHANGED <<run, queues, books, flightVars, outside, said, history>>

\* A step of execute that only moves on
Goto(p) ==
    /\ pc' = p
    /\ UNCHANGED <<run, queues, books, flightVars, outside, store, events, history>>

\* The condition of _loop
Busy == ready \union waiting \union flights # {}

LoopEnds ==
    /\ pc = "loop" /\ ~Busy
    /\ Goto("conclude")

LoopTurns ==
    /\ pc = "loop" /\ Busy
    /\ cancelSeen \/ ~cancelAsked
    /\ Goto("admit")

\* _observe_cancel: what has not started ends here, what is in the air is told.
Pending == {t \in Tasks : status[t] = "pending"}

ObserveCancel ==
    /\ pc = "loop" /\ Busy
    /\ ~cancelSeen /\ cancelAsked
    /\ cancelSeen' = TRUE
    /\ ready' = {} /\ waiting' = {}
    /\ token' = [t \in Tasks |-> token[t] \/ t \in flights]
    /\ status' = [t \in Tasks |-> IF t \in Pending THEN "cancelled" ELSE status[t]]
    /\ SaveTasks(Pending, "cancelled")
    /\ pc' = "admit"
    /\ UNCHANGED <<reason, attempts, runStatus, blocked, flights, inbox, sweep, wpc,
                   deadline, settled, abandoned, outside, events, history>>

-----------------------------------------------------------------------------
(* Admission *)

Dependents(t) == {u \in Tasks : t \in Deps[u]}
BlockedAfter(t) == [u \in Tasks |-> IF t \in Deps[u] THEN blocked[u] - 1 ELSE blocked[u]]

\* The dependents of t that its end makes ready
\* Bug: the first dependency that ends makes a dependent ready.
AnyDependent(t) == {u \in Dependents(t) : status[u] = "pending"}
Unblocked(t) == {u \in Dependents(t) : BlockedAfter(t)[u] = 0 /\ status[u] = "pending"}

\* _release: the dependents of t wait for one dependency less.
Release(t) ==
    /\ blocked' = BlockedAfter(t)
    /\ ready' = (ready \ {t}) \union Unblocked(t)

DepFailed(t) == \E d \in Deps[t] : IsFailure(status[d])
\* Bug: a dependency skipped for whatever reason counts as satisfied.
NoDepFailed(t) == ~DepFailed(t)
DepsSatisfied(t) == \A d \in Deps[t] : Satisfied(status[d], reason[d])

\* A _Verdict, or Admitted (None): the task is to run.
Verdict(s, r) == [status |-> s, reason |-> r]
Admitted == Verdict("running", "none")

\* _condition and _ask: a user callable says yes, says no, or raises.
ConditionVerdicts(t) ==
    CASE When[t] = "callable" ->
            {Admitted, Verdict("skipped", "condition"), Verdict("failed", "none")}
      [] When[t] = "always" -> {Admitted}
      [] When[t] = "on_failure" ->
            {IF DepFailed(t) THEN Admitted ELSE Verdict("skipped", "condition")}
      [] When[t] = "on_success" ->
            {IF DepsSatisfied(t) THEN Admitted
             ELSE Verdict("skipped",
                          IF DepFailed(t) THEN "upstream_failed" ELSE "upstream_skipped")}

\* _seen_before: the store knows of an earlier success, knows of none, or raises.
SeenBefore ==
    {Admitted, Verdict("skipped", "idempotent")} \union
    (IF StoreFails THEN {Verdict("failed", "none")} ELSE {})

\* _gate: the store is asked only when the condition lets the task run.
Gate(t) ==
    LET verdicts == ConditionVerdicts(t)
    IN  IF t \in Keyed /\ Admitted \in verdicts
        THEN (verdicts \ {Admitted}) \union SeenBefore
        ELSE verdicts

AdmitToRun(t) ==
    /\ pc = "admit" /\ t \in ready
    /\ Admitted \in Gate(t)
    /\ ready' = ready \ {t}
    /\ waiting' = waiting \union {t}
    /\ UNCHANGED <<run, pc, blocked, books, flightVars, outside, store, events, history>>

\* _end_unstarted and _release
AdmitToEnd(t) ==
    /\ pc = "admit" /\ t \in ready
    /\ \E v \in Gate(t) \ {Admitted} :
          /\ status' = [status EXCEPT ![t] = v.status]
          /\ reason' = [reason EXCEPT ![t] = v.reason]
          /\ SaveTask(t, v.status)
          /\ said' = IF v.status = "failed" THEN [said EXCEPT ![t] = "failed"] ELSE said
    /\ Release(t)
    /\ UNCHANGED <<attempts, runStatus, pc, waiting, books, flightVars, outside, runSaid,
                   history>>

AdmitDone ==
    /\ pc = "admit" /\ ready = {}
    /\ Goto("launch")

-----------------------------------------------------------------------------
(* Flights *)

\* _launch fills the air up to Plan.max_workers.
Room == Cardinality(flights) < MaxWorkers

\* _launch: the thread starts with the task marked running, not yet recorded so.
LaunchTask(t) ==
    /\ pc = "launch" /\ t \in waiting
    /\ Room
    /\ waiting' = waiting \ {t}
    /\ status' = [status EXCEPT ![t] = "running"]
    /\ flights' = flights \union {t}
    /\ wpc' = [wpc EXCEPT ![t] = "begin"]
    /\ UNCHANGED <<reason, attempts, runStatus, pc, blocked, ready, inbox, sweep,
                   cancelSeen, token, deadline, settled, abandoned, outside, store, events,
                   history>>

\* Thread.start raises: the flight is on the books and has no thread.
LaunchFails(t) ==
    /\ pc = "launch" /\ t \in waiting
    /\ Room
    /\ MayInterrupt /\ ~interrupted
    /\ waiting' = waiting \ {t}
    /\ status' = [status EXCEPT ![t] = "running"]
    /\ flights' = flights \union {t}
    /\ interrupted' = TRUE
    /\ sweep' = flights'
    /\ pc' = "abort"
    /\ UNCHANGED <<reason, attempts, runStatus, blocked, ready, inbox, cancelSeen,
                   flightVars, cancelAsked, store, events, history>>

LaunchDone ==
    /\ pc = "launch"
    /\ waiting = {} \/ ~Room
    /\ Goto(IF flights = {} THEN "loop" ELSE "await")

\* The flights whose deadline has passed when _expire reads the clock.
\* Bug: nobody looks at the deadlines.
NeverLate(F) == {}
Late(F) == {t \in F : deadline[t] = "past"}

\* A landing of a flight that is off the books comes after the task timed out.
\* Bug: every landing releases dependents.
AnyLanding(t) == TRUE
OnTheBooks(t) == t \in flights

\* _await takes a landing.
AwaitLanding(t) ==
    /\ pc = "await" /\ t \in inbox
    /\ inbox' = inbox \ {t}
    /\ flights' = flights \ {t}
    /\ IF OnTheBooks(t) THEN Release(t) ELSE UNCHANGED <<blocked, ready>>
    /\ sweep' = Late(flights')
    /\ pc' = "expire"
    /\ UNCHANGED <<run, waiting, cancelSeen, flightVars, outside, store, events, history>>

\* _await gives up after _patience() seconds.
AwaitNothing ==
    /\ pc = "await" /\ inbox = {}
    /\ sweep' = Late(flights)
    /\ pc' = "expire"
    /\ UNCHANGED <<run, queues, flights, inbox, cancelSeen, flightVars, outside, store,
                   events, history>>

\* _expire under the flight's lock: it finished in time, its landing is on the way.
ExpireSettled(t) ==
    /\ pc = "expire" /\ t \in sweep
    /\ \A u \in sweep : ~abandoned[u]
    /\ settled[t]
    /\ sweep' = sweep \ {t}
    /\ UNCHANGED <<run, pc, queues, flights, inbox, cancelSeen, flightVars, outside, store,
                   events, history>>

\* _expire under the flight's lock: from here on the thread records nothing.
ExpireAbandon(t) ==
    /\ pc = "expire" /\ t \in sweep
    /\ \A u \in sweep : ~abandoned[u]
    /\ ~settled[t]
    /\ abandoned' = [abandoned EXCEPT ![t] = TRUE]
    /\ UNCHANGED <<run, engine, wpc, token, deadline, settled, outside, store, events,
                   history>>

\* The rest of _expire for that flight: its token, _time_out and _release
TimeOut(t) ==
    /\ pc = "expire" /\ t \in sweep
    /\ abandoned[t]
    /\ token' = [token EXCEPT ![t] = TRUE]
    /\ sweep' = sweep \ {t}
    /\ flights' = flights \ {t}
    /\ status' = [status EXCEPT ![t] = "timeout"]
    /\ SaveTask(t, "timeout")
    /\ said' = [said EXCEPT ![t] = "timeout"]
    /\ Release(t)
    /\ UNCHANGED <<reason, attempts, runStatus, pc, waiting, inbox, cancelSeen, wpc,
                   deadline, settled, abandoned, outside, runSaid, history>>

ExpireDone ==
    /\ pc = "expire" /\ sweep = {}
    /\ Goto("loop")

-----------------------------------------------------------------------------
(* The end of the run *)

\* _conclude
RunVerdict(sts, seen) ==
    IF seen /\ \E t \in Tasks : sts[t] = "cancelled" THEN "cancelled"
    ELSE IF \E t \in Tasks : IsFailure(sts[t]) THEN "failed"
    ELSE "succeeded"

\* _conclude and _close up to the checkpoint
Conclude ==
    /\ pc = "conclude"
    /\ runStatus' = RunVerdict(status, cancelSeen)
    /\ SaveRun(status, runStatus')
    /\ pc' = "tell"
    /\ UNCHANGED <<status, reason, attempts, queues, books, flightVars, outside, events,
                   history>>

\* _close: PipelineCompleted or PipelineFailed
Tell ==
    /\ pc = "tell"
    /\ runSaid' = runStatus
    /\ pc' = "ending"
    /\ UNCHANGED <<run, queues, books, flightVars, outside, store, said, history>>

\* execute's finally: PipelineRun.mark_done
MarkDone ==
    /\ pc = "ending"
    /\ Goto("done")

\* Any exception out of execute's try block, Ctrl-C included.  One per run: a second
\* one inside _abort itself would leave the handler half done.
Interrupt ==
    /\ MayInterrupt /\ ~interrupted
    /\ pc \notin {"abort", "done"}
    /\ interrupted' = TRUE
    /\ sweep' = flights
    /\ pc' = "abort"
    /\ UNCHANGED <<run, queues, flights, inbox, cancelSeen, flightVars, cancelAsked, store,
                   events, history>>

\* _abort for one flight: its lock, then its token
AbortFlight(t) ==
    /\ pc = "abort" /\ t \in sweep
    /\ abandoned' = [abandoned EXCEPT ![t] = ~settled[t]]
    /\ token' = [token EXCEPT ![t] = TRUE]
    /\ sweep' = sweep \ {t}
    /\ UNCHANGED <<run, pc, queues, flights, inbox, cancelSeen, wpc, deadline, settled,
                   outside, store, events, history>>

\* The rest of _abort, and _close up to the checkpoint
AbortClose ==
    /\ pc = "abort" /\ sweep = {}
    /\ status' = [t \in Tasks |-> IF IsFinal(status[t]) THEN status[t] ELSE "cancelled"]
    /\ runStatus' = "failed"
    /\ SaveRun(status', "failed")
    /\ pc' = "tell"
    /\ UNCHANGED <<reason, attempts, queues, books, flightVars, outside, events, history>>

-----------------------------------------------------------------------------
(* The task thread *)

\* _settle leaves a flight alone that is settled or abandoned.
\* Bug: an abandoned thread may still settle.
UnlessSettled(t) == ~settled[t]
MaySettle(t) == ~settled[t] /\ ~abandoned[t]

\* _settle under the flight's lock.  A store that raises something else than
\* PipelineException cuts the section short: outcome kept, no record, no event.
Settle(t, s, event) ==
    IF MaySettle(t)
    THEN /\ settled' = [settled EXCEPT ![t] = TRUE]
         /\ status' = [status EXCEPT ![t] = s]
         /\ \/ SaveTask(t, s) /\ said' = [said EXCEPT ![t] = event]
            \/ StoreFails /\ UNCHANGED <<store, said>>
    ELSE UNCHANGED <<status, settled, store, said>>

\* _begin when the token is cancelled: a quiet _settle, no task event
BeginCancelled(t) ==
    /\ wpc[t] = "begin" /\ token[t]
    /\ Settle(t, "cancelled", said[t])
    /\ wpc' = [wpc EXCEPT ![t] = "landing"]
    /\ UNCHANGED <<reason, attempts, runStatus, engine, token, deadline, abandoned, outside,
                   runSaid, history>>

\* _begin under the lock, on a flight that timed out meanwhile
BeginAbandoned(t) ==
    /\ wpc[t] = "begin" /\ ~token[t]
    /\ abandoned[t]
    /\ wpc' = [wpc EXCEPT ![t] = "landing"]
    /\ UNCHANGED <<run, engine, token, deadline, settled, abandoned, outside, store, events,
                   history>>

\* _begin under the lock: the first attempt starts the clock.
Begin(t) ==
    /\ wpc[t] = "begin" /\ ~token[t]
    /\ ~abandoned[t]
    /\ deadline' = [deadline EXCEPT ![t] = IF @ = "none" /\ t \in Timed THEN "set" ELSE @]
    /\ attempts' = [attempts EXCEPT ![t] = @ + 1]
    /\ \/ /\ SaveTask(t, status[t])
          /\ said' = [said EXCEPT ![t] = "started"]
          /\ wpc' = [wpc EXCEPT ![t] = "call"]
       \/ \* the store raised something else: _fly fails the task
          /\ StoreFails
          /\ wpc' = [wpc EXCEPT ![t] = "refused"]
          /\ UNCHANGED <<store, said>>
    /\ UNCHANGED <<status, reason, runStatus, engine, token, settled, abandoned, outside,
                   runSaid, history>>

\* _invoke: the callable or the action returns, raises an error its policy retries,
\* raises one it does not (or calls sys.exit), or raises CancelledException.
Invoke(t) ==
    /\ wpc[t] = "call"
    /\ \E outcome \in {"returned", "raised", "refused", "stopped"} :
          /\ wpc' = [wpc EXCEPT ![t] = outcome]
          /\ returned' = IF outcome = "returned" THEN [returned EXCEPT ![t] = TRUE] ELSE returned
    /\ UNCHANGED <<run, engine, token, deadline, settled, abandoned, outside, store, events,
                   carried>>

\* The outcome each way out of the callable is settled with.
Outcome(exit) ==
    CASE exit = "returned" -> "succeeded"
      [] exit = "refused" -> "failed"
      [] exit = "stopped" -> "cancelled"

Finish(t) ==
    /\ wpc[t] \in {"returned", "refused", "stopped"}
    /\ Settle(t, Outcome(wpc[t]), Outcome(wpc[t]))
    /\ wpc' = [wpc EXCEPT ![t] = "landing"]
    /\ UNCHANGED <<reason, attempts, runStatus, engine, token, deadline, abandoned, outside,
                   runSaid, history>>

\* _try_again without another attempt: none is left, or the task was cancelled.
GiveUp(t) ==
    /\ wpc[t] = "raised"
    /\ \/ attempts[t] >= MaxAttempts[t] /\ Settle(t, "failed", "failed")
       \/ attempts[t] < MaxAttempts[t] /\ token[t] /\ Settle(t, "cancelled", "cancelled")
    /\ wpc' = [wpc EXCEPT ![t] = "landing"]
    /\ UNCHANGED <<reason, attempts, runStatus, engine, token, deadline, abandoned, outside,
                   runSaid, history>>

\* _try_again under the lock; the pause that follows ends whenever it ends.
TryAgain(t) ==
    /\ wpc[t] = "raised"
    /\ attempts[t] < MaxAttempts[t] /\ ~token[t]
    /\ \/ /\ abandoned[t]
          /\ wpc' = [wpc EXCEPT ![t] = "landing"]
          /\ UNCHANGED <<store, said>>
       \/ /\ ~abandoned[t]
          /\ SaveTask(t, status[t])
          /\ said' = [said EXCEPT ![t] = "retrying"]
          /\ wpc' = [wpc EXCEPT ![t] = "begin"]
       \/ \* the store raised something else
          /\ ~abandoned[t] /\ StoreFails
          /\ wpc' = [wpc EXCEPT ![t] = "refused"]
          /\ UNCHANGED <<store, said>>
    /\ UNCHANGED <<run, engine, token, deadline, settled, abandoned, outside, runSaid,
                   history>>

\* Worker.__call__'s finally
Land(t) ==
    /\ wpc[t] = "landing"
    /\ inbox' = inbox \union {t}
    /\ wpc' = [wpc EXCEPT ![t] = "gone"]
    /\ UNCHANGED <<run, pc, queues, flights, sweep, cancelSeen, token, deadline, settled,
                   abandoned, outside, store, events, history>>

-----------------------------------------------------------------------------
(* The outside: PipelineRun.cancel, and time *)

Cancel ==
    /\ ~cancelAsked /\ pc # "done"
    /\ cancelAsked' = TRUE
    /\ UNCHANGED <<run, engine, flightVars, interrupted, store, events, history>>

\* Only a flight on the books is ever looked at again.
DeadlinePasses(t) ==
    /\ deadline[t] = "set" /\ t \in flights
    /\ deadline' = [deadline EXCEPT ![t] = "past"]
    /\ UNCHANGED <<run, engine, wpc, token, settled, abandoned, outside, store, events,
                   history>>

-----------------------------------------------------------------------------

CoordinatorTask(t) ==
    \/ AdmitToRun(t) \/ AdmitToEnd(t)
    \/ LaunchTask(t)
    \/ AwaitLanding(t)
    \/ ExpireSettled(t) \/ ExpireAbandon(t) \/ TimeOut(t)
    \/ AbortFlight(t)

Coordinator ==
    \/ Start \/ LoopEnds \/ LoopTurns \/ ObserveCancel \/ AdmitDone \/ LaunchDone
    \/ AwaitNothing \/ ExpireDone \/ Conclude \/ Tell \/ MarkDone \/ AbortClose
    \/ \E t \in Tasks : CoordinatorTask(t)

\* The runtime's own part of a task thread, and the part the user's callable plays.
Runtime(t) ==
    \/ BeginCancelled(t) \/ BeginAbandoned(t) \/ Begin(t)
    \/ Finish(t) \/ GiveUp(t) \/ TryAgain(t) \/ Land(t)

Thread(t) == Runtime(t) \/ Invoke(t)

\* A run that is over stays over.
Over == pc = "done" /\ (\A t \in Tasks : wpc[t] \in {"none", "gone"}) /\ UNCHANGED vars

Next ==
    \/ Coordinator
    \/ Interrupt \/ \E t \in Tasks : LaunchFails(t)
    \/ \E t \in Tasks : Thread(t) \/ DeadlinePasses(t)
    \/ Cancel
    \/ Over

Spec == Init /\ [][Next]_vars

\* The operating system keeps scheduling the coordinator and the task threads, and time
\* passes.  A callable has to return by itself only when its task has no timeout.
Fairness ==
    /\ WF_vars(Coordinator)
    /\ \A t \in Tasks : WF_vars(Runtime(t)) /\ WF_vars(DeadlinePasses(t))
    /\ \A t \in Tasks \ Timed : WF_vars(Invoke(t))

FairSpec == Spec /\ Fairness

-----------------------------------------------------------------------------
(* What the engine promises *)

TypeOK ==
    /\ status \in [Tasks -> TaskStatus]
    /\ reason \in [Tasks -> Reason]
    /\ attempts \in [Tasks -> Nat]
    /\ runStatus \in RunStatus
    /\ pc \in EnginePc
    /\ blocked \in [Tasks -> Int]
    /\ ready \subseteq Tasks
    /\ waiting \subseteq Tasks
    /\ flights \subseteq Tasks
    /\ inbox \subseteq Tasks
    /\ sweep \subseteq Tasks
    /\ cancelSeen \in BOOLEAN
    /\ wpc \in [Tasks -> WorkerPc]
    /\ token \in [Tasks -> BOOLEAN]
    /\ deadline \in [Tasks -> {"none", "set", "past"}]
    /\ settled \in [Tasks -> BOOLEAN]
    /\ abandoned \in [Tasks -> BOOLEAN]
    /\ cancelAsked \in BOOLEAN
    /\ interrupted \in BOOLEAN
    /\ storedRun \in RunStatus \union {"absent"}
    /\ stored \in [Tasks -> TaskStatus]
    /\ recorded \in BOOLEAN
    /\ runSaid \in RunStatus \union {"none", "started"}
    /\ said \in [Tasks -> TaskStatus \union {"none", "started", "retrying"}]
    /\ returned \in [Tasks -> BOOLEAN]
    /\ carried \subseteq Tasks

\* TaskStatus.is_final, "the task will not change any more in this run": neither a late
\* thread of a timed-out task, nor a cancellation, nor _abort rewrites an outcome.
FinalIsFinal ==
    [][\A t \in Tasks : IsFinal(status[t]) => status'[t] = status[t]]_vars

\* Once the run has closed (_close has written it), no straggling task thread changes a
\* task, writes to the store or publishes a task event; the run itself only moves on from
\* there when an exception interrupts the closing.
StaysClosed ==
    /\ pc \in {"tell", "ending", "done"} => UNCHANGED <<status, attempts, stored, said>>
    /\ pc = "done" => UNCHANGED <<runStatus, storedRun, runSaid>>
NothingAfterTheEnd == [][StaysClosed]_vars

\* Engine._blocked counts, for every task, the dependencies that have not been released:
\* each end of a task releases its dependents exactly once, however the thread's landing
\* and the coordinator's timeout race.  Cancellation and _abort stop the counting.
Released(d) == IsFinal(status[d]) /\ d \notin flights
BlockedExact ==
    ~cancelSeen /\ ~interrupted =>
        \A t \in Tasks : blocked[t] = Cardinality({d \in Deps[t] : ~Released(d)})

\* A task that has run its first attempt did so with every dependency over, and an
\* on_success task only on dependencies whose callable really returned a result in this
\* run, whose success an earlier run left, or which the store knew as done.
StartsAreJustified ==
    \A t \in Tasks \ carried : attempts[t] > 0 =>
        \A d \in Deps[t] :
            /\ IsFinal(status[d])
            /\ When[t] = "on_success" => returned[d] \/ d \in carried \/ reason[d] = "idempotent"

\* When PipelineRun.wait returns no task is left behind, as a pending one whose count never
\* reached zero would be; status and closing event agree with the tasks as they are, and so
\* does the store unless the last checkpoint was lost.
EndIsConsistent ==
    pc = "done" =>
        /\ \A t \in Tasks : IsFinal(status[t])
        /\ runSaid = runStatus
        /\ runStatus = "succeeded" => \A t \in Tasks : ~IsFailure(status[t])
        /\ runStatus = "cancelled" => cancelAsked /\ \E t \in Tasks : status[t] = "cancelled"
        /\ runStatus = "failed" => interrupted \/ \E t \in Tasks : IsFailure(status[t])
        /\ recorded => storedRun = runStatus /\ stored = status

\* What resume relies on: a task the store has as succeeded returned its result, in this
\* run or in the one it was carried over from, at every moment a crash might come.
StoredSuccessIsReal ==
    \A t \in Tasks : stored[t] = "succeeded" =>
        status[t] = "succeeded" /\ (returned[t] \/ t \in carried)

\* A subscriber that saw the end of a task (TaskCompleted, or TaskFailed not marked
\* retrying) sees no other event of that task, and the end it saw is the recorded one.
ClosingEvent == TaskStatus \ OpenStatus
EndOfTaskToldOnce ==
    [][\A t \in Tasks : said[t] \in ClosingEvent => said'[t] = said[t] /\ status'[t] = said[t]]_vars

\* The engine is an implementation of what PipelineRunContract promises: every step it
\* takes, with all its threads, is a step of that contract or changes nothing there.
Contract == INSTANCE PipelineRunContract WITH over <- pc = "done"
ImplementsContract == Contract!Spec

-----------------------------------------------------------------------------
(* How queues, flights and threads hang together: the inductive invariant behind  *)
(* FinalIsFinal, NothingAfterTheEnd, EndOfTaskToldOnce and StoredSuccessIsReal    *)

Working == {"start", "loop", "admit", "launch", "await", "expire"}
Closing == {"tell", "ending", "done"}

\* A pending task has no thread and no flight.
PendingIsUntouched ==
    \A t \in Tasks : status[t] = "pending" =>
        wpc[t] = "none" /\ ~settled[t] /\ ~abandoned[t] /\ t \notin flights

\* The queues hold unblocked pending tasks, each in one queue.
QueuesArePending ==
    pc \in Working =>
        /\ \A t \in ready \union waiting : status[t] = "pending" /\ blocked[t] <= 0
        /\ ready \intersect waiting = {}

\* A flight is settled or abandoned, never both; a settled thread only has to land, and a
\* thread lands only from a flight that is the one or the other.
SettledOrAbandoned ==
    \A t \in Tasks :
        /\ settled[t] => ~abandoned[t] /\ IsFinal(status[t]) /\ wpc[t] \in {"landing", "gone"}
        /\ wpc[t] \in {"landing", "gone"} => settled[t] \/ abandoned[t]
        /\ t \in inbox => wpc[t] = "gone"

\* A thread that may still record something belongs to a running task on the books.
OpenThreadsAreRunning ==
    \A t \in Tasks : wpc[t] # "none" /\ ~settled[t] /\ ~abandoned[t] =>
        status[t] = "running" /\ t \in flights

\* On the books, unsettled means running, until the run is given up.
UnsettledIsRunning ==
    pc \in Working => \A t \in flights : ~settled[t] => status[t] = "running"

\* _expire and _abort go through flights on the books, and _abort misses none.
SweepOnTheBooks ==
    /\ pc \in {"expire", "abort"} => sweep \subseteq flights
    /\ pc = "abort" => \A t \in flights \ sweep : settled[t] \/ abandoned[t]
    /\ pc = "conclude" => flights = {}
    /\ pc \in Closing => \A t \in flights : settled[t] \/ abandoned[t]

\* Outcomes, closing events and records tell one story.
OneStory ==
    \A t \in Tasks :
        /\ said[t] \in ClosingEvent => status[t] = said[t]
        /\ wpc[t] = "returned" => returned[t]
        /\ status[t] = "succeeded" => returned[t] \/ t \in carried
        /\ stored[t] = "succeeded" => status[t] = "succeeded"

FlightInv ==
    /\ PendingIsUntouched /\ QueuesArePending /\ SettledOrAbandoned
    /\ OpenThreadsAreRunning /\ UnsettledIsRunning /\ SweepOnTheBooks
    /\ OneStory

(* How counts, queues and the end of the run hang together: the invariant behind  *)
(* BlockedExact, StartsAreJustified, EndIsConsistent and ImplementsContract       *)

Turning == Working \union {"conclude"}

\* A run that has not closed is neither interrupted nor judged, and a judged run has no
\* flight that may still record something.
PhasesInOrder ==
    /\ pc \in Turning => ~interrupted /\ runStatus = "running"
    /\ pc = "abort" => interrupted
    /\ pc \in Closing => runStatus # "running"
    /\ runStatus # "running" => \A t \in flights : settled[t] \/ abandoned[t]
    /\ cancelSeen => cancelAsked /\ Pending = {}

\* A running task is on the books, and one that is given up is about to be timed out.
RunningOnTheBooks ==
    /\ pc \in Turning => \A t \in Tasks : status[t] = "running" => t \in flights
    /\ pc \in Working => \A t \in flights : abandoned[t] => pc = "expire" /\ t \in sweep

\* A task whose dependencies are all released is in a queue, so none is left when the queues
\* are empty.
NothingForgotten ==
    /\ pc \in Working /\ ~cancelSeen => \A t \in Pending : blocked[t] = 0 => t \in ready \union waiting
    /\ pc \in {"conclude"} \union Closing => \A t \in Tasks : IsFinal(status[t])

\* What StartsAreJustified says of a task holds from its admission on.
Justified(t) ==
    \A d \in Deps[t] :
        /\ IsFinal(status[d])
        /\ When[t] = "on_success" => returned[d] \/ d \in carried \/ reason[d] = "idempotent"
AdmissionsAreJustified ==
    \A t \in Tasks \ carried : t \in waiting \/ wpc[t] # "none" \/ attempts[t] > 0 => Justified(t)

\* What EndIsConsistent says of the run holds from its closing on.
VerdictStands ==
    /\ pc \in Closing =>
          /\ runStatus = "succeeded" => \A t \in Tasks : ~IsFailure(status[t])
          /\ runStatus = "cancelled" => cancelAsked /\ \E t \in Tasks : status[t] = "cancelled"
          /\ runStatus = "failed" => interrupted \/ \E t \in Tasks : IsFailure(status[t])
          /\ recorded => storedRun = runStatus /\ stored = status
    /\ pc \in {"ending", "done"} => runSaid = runStatus

RunInv ==
    /\ PhasesInOrder /\ RunningOnTheBooks /\ BlockedExact /\ NothingForgotten
    /\ AdmissionsAreJustified /\ VerdictStands

\* Every run ends, with its waiters released: with hanging callables too when they have a
\* timeout, and after every cancellation, store failure and interrupt.
RunEnds == <>(pc = "done")
=============================================================================
