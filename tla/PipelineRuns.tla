---------------------------- MODULE PipelineRuns ----------------------------
(* Runs of one pipeline over one run store: Pipeline.run, start and resume    *)
(* (pipeline/pipeline.py), MemoryRunStore and SQLiteRunStore                  *)
(* (pipeline/store.py), idempotency keys, and a process that may die.         *)
(*                                                                            *)
(* The engine of a run is what PipelineEngine shows it to be: here a task is  *)
(* admitted (its key is looked up), called, and recorded, and the run closes  *)
(* when all tasks are over.  What matters is where a crash may fall.          *)
EXTENDS PipelineModel, Sequences

CONSTANTS
    Runs,        \* run ids
    Tasks,
    Deps,        \* Deps[t]: Task.depends_on; every task has when="on_success"
    Keyed,       \* the tasks with an idempotency_key
    KeyOf,       \* KeyOf[r]: what the key renders to with the parameters of r
    MaxRuns,     \* MemoryRunStore.max_runs
    MaxLost,     \* bounds how often a write to the store raises PipelineException
    MaxCrashes,  \* bounds how often the process dies
    MaxFailures  \* bounds how often a task's callable, or the lookup of its key, raises

ASSUME RunsAssumption ==
    /\ Deps \in [Tasks -> SUBSET Tasks]
    /\ Keyed \subseteq Tasks
    /\ MaxRuns \in Nat \ {0} /\ MaxLost \in Nat /\ MaxCrashes \in Nat /\ MaxFailures \in Nat

VARIABLES
    durable,    \* the store is a SQLiteRunStore, not a MemoryRunStore
    phase,      \* phase[r]: what the process knows of the run
    task,       \* task[r][t]: status and reason in PipelineRun.tasks
    stage,      \* stage[r][t]: how far a task that is not over has got
    storedRun,  \* storedRun[r]: the status of the run in the store ("absent": no row)
    stored,     \* stored[r][t]: the task in the store
    order,      \* the runs in the store, oldest insertion first
    lost,       \* writes that failed so far
    crashes,    \* deaths of the process so far
    failures,   \* raised callables and lookups so far
    excused,    \* history: a write was lost, a run dropped, a result died with the process,
                \* or two runs were active at once
    executed    \* executed[r]: history: the keyed tasks that did their work in r

memory == <<phase, task, stage>>
store == <<storedRun, stored, order>>
budget == <<crashes, failures>>
history == <<excused, executed>>
vars == <<durable, memory, store, lost, budget, history>>

Blank == [status |-> "pending", reason |-> "none"]
State(s, why) == [status |-> s, reason |-> why]
TaskState == [status : TaskStatus, reason : Reason]
Active == {r \in Runs : phase[r] = "running"}

Init ==
    /\ durable \in BOOLEAN
    /\ phase = [r \in Runs |-> "new"]
    /\ task = [r \in Runs |-> [t \in Tasks |-> Blank]]
    /\ stage = [r \in Runs |-> [t \in Tasks |-> "none"]]
    /\ storedRun = [r \in Runs |-> "absent"]
    /\ stored = [r \in Runs |-> [t \in Tasks |-> Blank]]
    /\ order = <<>>
    /\ lost = 0
    /\ crashes = 0
    /\ failures = 0
    /\ excused = FALSE
    /\ executed = [r \in Runs |-> {}]

-----------------------------------------------------------------------------
(* The stores *)

\* The run goes to the end of the book unless it is in it.
Appended(r) == IF storedRun[r] = "absent" THEN Append(order, r) ELSE order

\* MemoryRunStore.save_run drops the oldest runs; a SQLite file keeps them all.
Dropped(q) == IF durable \/ Len(q) <= MaxRuns THEN {} ELSE {q[i] : i \in 1 .. (Len(q) - MaxRuns)}

\* save_run: replaces the row and the tasks
SaveRun(r, s, tasks) ==
    LET gone == Dropped(Appended(r)) IN
    /\ order' = SelectSeq(Appended(r), LAMBDA x : x \notin gone)
    /\ storedRun' = [x \in Runs |-> IF x \in gone THEN "absent" ELSE IF x = r THEN s ELSE storedRun[x]]
    /\ stored' = [x \in Runs |->
                     IF x \in gone THEN [t \in Tasks |-> Blank] ELSE IF x = r THEN tasks ELSE stored[x]]

\* save_task: of a stored run only
SaveTask(r, t, state) ==
    IF storedRun[r] = "absent" THEN UNCHANGED store
    ELSE /\ stored' = [stored EXCEPT ![r][t] = state]
         /\ UNCHANGED <<storedRun, order>>

\* find_idempotent: some stored run succeeded with this task under this key
FindIdempotent(t, key) ==
    \E r \in Runs : storedRun[r] # "absent" /\ KeyOf[r] = key /\ stored[r][t].status = "succeeded"

\* Reporter.save_run and save_task: a store that fails is logged, and the run goes on
Checkpoint(save) ==
    \/ save /\ UNCHANGED lost
    \/ lost < MaxLost /\ lost' = lost + 1 /\ UNCHANGED store

-----------------------------------------------------------------------------
(* run, start, resume *)

\* An engine takes the run over and writes it down before anything else.
Launch(r, tasks) ==
    /\ phase' = [phase EXCEPT ![r] = "running"]
    /\ task' = [task EXCEPT ![r] = tasks]
    /\ stage' = [stage EXCEPT ![r] = [t \in Tasks |-> "none"]]
    /\ Checkpoint(SaveRun(r, "running", tasks))
    /\ excused' = (excused \/ Active # {} \/ storedRun'[r] # "running" \/ Dropped(Appended(r)) # {})
    /\ UNCHANGED <<durable, budget, executed>>

\* run and start: a fresh run
Run(r) ==
    /\ phase[r] = "new"
    /\ Launch(r, [t \in Tasks |-> Blank])

\* Bug: failures are kept, too.
AllCarriedOver(r, t) == IF IsFinal(stored[r][t].status) THEN stored[r][t] ELSE Blank

\* _carried_over: what succeeded is kept, the rest starts afresh.
CarriedOver(r, t) == IF stored[r][t].status = "succeeded" THEN stored[r][t] ELSE Blank

\* resume, of a run that no one executes; one that has succeeded is returned as stored.
Resume(r) ==
    /\ phase[r] \in {"ended", "lost"}
    /\ storedRun[r] \notin {"absent", "succeeded"}
    /\ Launch(r, [t \in Tasks |-> CarriedOver(r, t)])

-----------------------------------------------------------------------------
(* What the engine does with a task *)

Unblocked(r, t) ==
    /\ r \in Active /\ task[r][t].status = "pending" /\ stage[r][t] = "none"
    /\ \A d \in Deps[t] : IsFinal(task[r][d].status)

Wanted(r, t) == \A d \in Deps[t] : Satisfied(task[r][d].status, task[r][d].reason)

\* A task ends, in memory and with a checkpoint.
End(r, t, state) ==
    /\ task' = [task EXCEPT ![r][t] = state]
    /\ stage' = [stage EXCEPT ![r][t] = "none"]
    /\ Checkpoint(SaveTask(r, t, state))
    /\ excused' = (excused \/ stored'[r][t] # state)
    /\ UNCHANGED <<durable, phase>>

\* _condition: a dependency that did not succeed keeps the task from running.
SkipUnwanted(r, t) ==
    /\ Unblocked(r, t) /\ ~Wanted(r, t)
    /\ End(r, t, State("skipped", IF \E d \in Deps[t] : IsFailure(task[r][d].status)
                                  THEN "upstream_failed" ELSE "upstream_skipped"))
    /\ UNCHANGED <<budget, executed>>

\* Bug: an execution that has only started counts.
StartedBefore(r, t) ==
    t \in Keyed /\ \E q \in Runs \ {r} : KeyOf[q] = KeyOf[r] /\ stored[q][t].status \in {"running", "succeeded"}

\* _seen_before: the key has a succeeded execution.
SeenBefore(r, t) == t \in Keyed /\ FindIdempotent(t, KeyOf[r])

SkipSeen(r, t) ==
    /\ Unblocked(r, t) /\ Wanted(r, t) /\ SeenBefore(r, t)
    /\ End(r, t, State("skipped", "idempotent"))
    /\ UNCHANGED <<budget, executed>>

\* The store cannot be asked about the key: "running it anyway could repeat the very thing".
LookupFails(r, t) ==
    /\ failures < MaxFailures
    /\ Unblocked(r, t) /\ Wanted(r, t) /\ t \in Keyed
    /\ failures' = failures + 1
    /\ End(r, t, State("failed", "none"))
    /\ UNCHANGED <<crashes, executed>>

Admit(r, t) ==
    /\ Unblocked(r, t) /\ Wanted(r, t) /\ ~SeenBefore(r, t)
    /\ stage' = [stage EXCEPT ![r][t] = "admitted"]
    /\ UNCHANGED <<durable, phase, task, store, lost, budget, history>>

\* _launch and _begin: the task runs and its callable is called.
Call(r, t) ==
    /\ r \in Active /\ stage[r][t] = "admitted"
    /\ stage' = [stage EXCEPT ![r][t] = "called"]
    /\ task' = [task EXCEPT ![r][t] = State("running", "none")]
    /\ Checkpoint(SaveTask(r, t, State("running", "none")))
    /\ UNCHANGED <<durable, phase, budget, history>>

\* The callable has done its work and returns; nothing of it is recorded yet.
Return(r, t) ==
    /\ r \in Active /\ stage[r][t] = "called"
    /\ stage' = [stage EXCEPT ![r][t] = "returned"]
    /\ executed' = IF t \in Keyed THEN [executed EXCEPT ![r] = @ \union {t}] ELSE executed
    /\ UNCHANGED <<durable, phase, task, store, lost, budget, excused>>

\* _settle
Succeed(r, t) ==
    /\ r \in Active /\ stage[r][t] = "returned"
    /\ End(r, t, State("succeeded", "none"))
    /\ UNCHANGED <<budget, executed>>

\* The callable raises, or runs into its timeout.
Fail(r, t) ==
    /\ r \in Active /\ stage[r][t] = "called"
    /\ failures < MaxFailures
    /\ failures' = failures + 1
    /\ End(r, t, State("failed", "none"))
    /\ UNCHANGED <<crashes, executed>>

\* _conclude and _close
RunVerdict(r) ==
    IF \E t \in Tasks : IsFailure(task[r][t].status) THEN "failed" ELSE "succeeded"

Close(r) ==
    /\ r \in Active
    /\ \A t \in Tasks : IsFinal(task[r][t].status)
    /\ phase' = [phase EXCEPT ![r] = "ended"]
    /\ Checkpoint(SaveRun(r, RunVerdict(r), task[r]))
    /\ excused' = (excused \/ storedRun'[r] # RunVerdict(r) \/ Dropped(Appended(r)) # {})
    /\ UNCHANGED <<durable, task, stage, budget, executed>>

\* The process dies and is started again.  Runs kept in memory die with it.
Crash ==
    /\ crashes < MaxCrashes
    /\ crashes' = crashes + 1
    /\ phase' = [r \in Runs |-> IF phase[r] = "new" THEN "new" ELSE "lost"]
    /\ task' = [r \in Runs |-> [t \in Tasks |-> Blank]]
    /\ stage' = [r \in Runs |-> [t \in Tasks |-> "none"]]
    /\ IF durable THEN UNCHANGED store
       ELSE /\ storedRun' = [r \in Runs |-> "absent"]
            /\ stored' = [r \in Runs |-> [t \in Tasks |-> Blank]]
            /\ order' = <<>>
    /\ excused' = (excused \/ ~durable \/ \E r \in Runs, t \in Tasks : stage[r][t] = "returned")
    /\ UNCHANGED <<durable, lost, failures, executed>>

-----------------------------------------------------------------------------

TaskStep(r, t) ==
    \/ SkipUnwanted(r, t) \/ SkipSeen(r, t) \/ LookupFails(r, t)
    \/ Admit(r, t) \/ Call(r, t) \/ Return(r, t) \/ Succeed(r, t) \/ Fail(r, t)

EngineStep(r) == (\E t \in Tasks : TaskStep(r, t)) \/ Close(r)

Next ==
    \/ \E r \in Runs : Run(r) \/ Resume(r) \/ EngineStep(r)
    \/ Crash

Spec == Init /\ [][Next]_vars

\* Engines go on, callables return, and a run that has not succeeded is resumed.
FairSpec ==
    /\ Spec
    /\ \A r \in Runs : WF_vars(EngineStep(r)) /\ WF_vars(Run(r)) /\ WF_vars(Resume(r))

-----------------------------------------------------------------------------

RecordsTyped ==
    /\ durable \in BOOLEAN /\ excused \in BOOLEAN
    /\ phase \in [Runs -> {"new", "running", "ended", "lost"}]
    /\ task \in [Runs -> [Tasks -> TaskState]]
    /\ stage \in [Runs -> [Tasks -> {"none", "admitted", "called", "returned"}]]
    /\ storedRun \in [Runs -> RunStatus \union {"absent"}]
    /\ stored \in [Runs -> [Tasks -> TaskState]]
    /\ executed \in [Runs -> SUBSET Keyed]

TypeOK ==
    /\ RecordsTyped
    /\ {order[i] : i \in 1 .. Len(order)} = {r \in Runs : storedRun[r] # "absent"}
    /\ durable \/ Len(order) <= MaxRuns
    /\ lost \in 0 .. MaxLost /\ crashes \in 0 .. MaxCrashes /\ failures \in 0 .. MaxFailures

\* "what succeeded is not repeated": while the store has a task of a run as succeeded, no
\* engine of that run, the first or a resumed one, has the task admitted, called or returned.
NothingRepeated ==
    \A r \in Runs, t \in Tasks :
        stored[r][t].status = "succeeded" => stage[r][t] = "none"

\* A keyed task does its work once per key, as long as nothing has happened that excuses a
\* second time: runs at the same time ("it is not a lock"), a lost write, a dropped run, or
\* a crash between the work and its record.  Other crashes do not.
KeyExecutedOnce ==
    ~excused => \A r, q \in Runs :
        r # q /\ KeyOf[r] = KeyOf[q] => executed[r] \intersect executed[q] = {}

\* The success an idempotent skip stands for is in the store for good: the skipped task's
\* dependents were started on a result that some run really produced under the key.
SkipsAreBacked ==
    \A r \in Runs, t \in Tasks :
        durable /\ stored[r][t].reason = "idempotent" =>
            \E q \in Runs : KeyOf[q] = KeyOf[r] /\ stored[q][t].status = "succeeded"

\* A run that the store has as succeeded is complete: all of its tasks are over, and each is
\* done, here or under its key.  resume hands such a run back as it is.
SucceededIsComplete ==
    \A r \in Runs : storedRun[r] = "succeeded" =>
        \A t \in Tasks : Satisfied(stored[r][t].status, stored[r][t].reason)

\* Through crashes between any two writes: nothing that a resume can see as done is done again, runs
\* after one another execute a key once, what is skipped was done, and a run the store has as succeeded
\* is complete.
RunsSound == NothingRepeated /\ KeyExecutedOnce /\ SkipsAreBacked /\ SucceededIsComplete

\* Resumed often enough, a run that has once reached a SQLite store succeeds in the end,
\* however crashes, failures and lost writes fell.
RunsSucceed ==
    \A r \in Runs : durable /\ storedRun[r] # "absent" ~> storedRun[r] = "succeeded"

-----------------------------------------------------------------------------
(* The inductive invariant behind RunsSound *)

\* What the store does not have is blank, and it has no run that was never started.
AbsentIsBlank ==
    \A r \in Runs :
        /\ storedRun[r] = "absent" => \A t \in Tasks : stored[r][t] = Blank
        /\ phase[r] = "new" => storedRun[r] = "absent"

\* Only tasks of running runs are under way, pending until they are called and running from then on.
StagesInStep ==
    \A r \in Runs, t \in Tasks :
        stage[r][t] # "none" =>
            /\ phase[r] = "running"
            /\ task[r][t].status = IF stage[r][t] = "admitted" THEN "pending" ELSE "running"

\* The engine of a run knows of every success the store has.
EngineKnows ==
    \A r \in Runs, t \in Tasks :
        phase[r] = "running" /\ stored[r][t].status = "succeeded" => task[r][t].status = "succeeded"

\* In a run with a task that was skipped because of another, some task failed.
SkipsHaveACause ==
    \A r \in Runs : phase[r] = "running" =>
        \A t \in Tasks :
            task[r][t].status = "skipped" /\ task[r][t].reason # "idempotent" =>
                \E d \in Tasks : IsFailure(task[r][d].status)

\* An idempotent skip is backed as soon as the engine knows of it.
KnownSkipsAreBacked ==
    \A r \in Runs, t \in Tasks :
        durable /\ phase[r] = "running" /\ task[r][t].reason = "idempotent" =>
            \E q \in Runs : KeyOf[q] = KeyOf[r] /\ stored[q][t].status = "succeeded"

\* No engine has a run that the store has as succeeded.
SucceededIsClosed ==
    \A r \in Runs : storedRun[r] = "succeeded" => phase[r] \notin {"new", "running"}

\* Unless something excuses it: one engine at a time, every execution is in the store or about to be,
\* and a task that was let in still has no execution under its key.
ExecutionsAreKept ==
    ~excused =>
        /\ \A r, q \in Runs : phase[r] = "running" /\ phase[q] = "running" => r = q
        /\ \A r \in Runs, t \in Tasks :
              /\ t \in executed[r] =>
                    stage[r][t] = "returned" \/ (storedRun[r] # "absent" /\ stored[r][t].status = "succeeded")
              /\ stage[r][t] \in {"admitted", "called"} => ~SeenBefore(r, t)

RunsInv ==
    /\ RecordsTyped /\ AbsentIsBlank /\ StagesInStep /\ EngineKnows /\ SkipsHaveACause
    /\ KnownSkipsAreBacked /\ SucceededIsClosed /\ ExecutionsAreKept
    /\ KeyExecutedOnce /\ SkipsAreBacked /\ SucceededIsComplete
=============================================================================
