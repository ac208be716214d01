-------------------------- MODULE SchedulerDispatch --------------------------
(* Firings of scheduled jobs and the runs they start: scheduler/dispatch.py   *)
(* (class Dispatcher), the registry of jobs and the firing half of            *)
(* scheduler/manager.py (class Scheduler), JobRun of runs.py, and the way     *)
(* triggers.py turns an event published by one run into a firing of another.  *)
(*                                                                            *)
(* A firing is decided under the scheduler's lock and admitted under the lock *)
(* again, with a gap in between; a run's thread closes its record, gives the  *)
(* job back and reports in three more sections.  Delivery of an event is      *)
(* synchronous: while a handler is still starting a run, the thread that      *)
(* published the event stands still.  Run targets are external: they end with *)
(* success or failure, and publish what they like while they run; a task      *)
(* thread their pipeline has abandoned goes on publishing after that.         *)
EXTENDS Integers, FiniteSets

CONSTANTS
    Runs,           \* run ids, one per firing: bounds the number of firings
    Names,          \* job names
    Objects,        \* ScheduledJob instances: every registration makes a new one
    NameOf,         \* NameOf[o]: ScheduledJob.name
    AllowOverlap,   \* the objects registered with allow_overlap
    Timed,          \* the objects registered with a timeout
    Listeners,      \* the objects with an event trigger
    MaxChain,       \* MAX_CHAIN
    ThreadsRunOut,  \* whether Thread.start may raise RuntimeError
    None            \* no object, no run

ASSUME DispatchAssumption ==
    /\ IsFiniteSet(Runs) /\ IsFiniteSet(Objects)
    /\ NameOf \in [Objects -> Names]
    /\ AllowOverlap \subseteq Objects
    /\ Timed \subseteq Objects
    /\ Listeners \subseteq Objects
    /\ MaxChain \in Nat \ {0}
    /\ ThreadsRunOut \in BOOLEAN
    /\ None \notin Runs \union Objects

VARIABLES
    jobs,       \* Scheduler._jobs: the object registered under each name, or None
    spent,      \* objects that have been registered
    active,     \* ScheduledJob.active
    running,    \* ScheduledJob.running
    flights,    \* the keys of Dispatcher._flights
    expiring,   \* records Dispatcher.expire has closed and not yet reported
    lost,       \* the runs no thread could be started for
    begun,      \* the runs whose JobRun.started_at is set
    pc,         \* pc[r]: how far the firing and its run have got
    object,     \* object[r]: Flight.job
    state,      \* state[r]: JobRun.state
    depth,      \* depth[r]: Firing.depth
    outcome,    \* outcome[r]: what the target came to
    decided,    \* decided[r]: _conclude found the record closed, until _tell has used it
    settled,    \* settled[r]: waiters on the JobRun are released
    \* while r is being dispatched:
    publisher,  \* publisher[r]: the run whose event fired r, or None
    via,        \* via[r]: which thread runs the handler that dispatches r
    local,      \* local[r]: the thread-local flight of that thread, or None
    errors,     \* history: scheduler.error events the dispatcher published about r
    chain,      \* history: how many runs led to r through events
    cut         \* history: runs led to by one that was off the books when its event was counted

recordVars == <<object, state, depth, outcome, decided, settled>>
jobVars == <<jobs, spent, active, running>>
causeVars == <<publisher, via, local>>
history == <<errors, chain, cut>>
vars == <<jobVars, flights, expiring, lost, begun, pc, recordVars, causeVars, history>>

\* RunState and RunState.is_final
RunState == {"scheduled", "started", "completed", "failed", "skipped", "timeout", "cancelled"}
IsFinal(s) == s \notin {"scheduled", "started"}

RunPc == {"new", "heard", "found", "decided", "admitted", "takeoff", "flying", "landing",
          "concluded", "telling", "gone"}

\* r is still being dispatched: a run that got no thread lands on the dispatching one.
Dispatching(r) ==
    \/ pc[r] \in {"heard", "found", "decided", "admitted"}
    \/ r \in lost /\ pc[r] \in {"landing", "concluded", "telling"}

\* No run has been fired yet.
AtRest ==
    /\ active = [o \in Objects |-> 0]
    /\ running = [o \in Objects |-> FALSE]
    /\ flights = {}
    /\ expiring = {}
    /\ lost = {}
    /\ begun = {}
    /\ pc = [r \in Runs |-> "new"]
    /\ object = [r \in Runs |-> None]
    /\ state = [r \in Runs |-> "scheduled"]
    /\ depth = [r \in Runs |-> 0]
    /\ outcome = [r \in Runs |-> "failed"]
    /\ decided = [r \in Runs |-> FALSE]
    /\ settled = [r \in Runs |-> FALSE]
    /\ publisher = [r \in Runs |-> None]
    /\ local = [r \in Runs |-> None]
    /\ via = [r \in Runs |-> "client"]
    /\ errors = [r \in Runs |-> 0]
    /\ chain = [r \in Runs |-> 0]
    /\ cut = {}

Init ==
    /\ jobs = [n \in Names |-> None]
    /\ spent = {}
    /\ AtRest

\* Where a firing is decided: by a client, the clock or a watcher ("client"); on a task thread
\* of the publisher's pipeline ("task"); on the publisher's own thread ("thread"); on the
\* ticking thread ("tick"); or on the thread that failed to start the publisher ("lost").
Via == {"client", "task", "thread", "tick", "lost"}

\* The handler that dispatched r returns.
Return(r) ==
    /\ publisher' = [publisher EXCEPT ![r] = None]
    /\ via' = [via EXCEPT ![r] = "client"]
    /\ local' = [local EXCEPT ![r] = None]

\* The publishing thread stands still while a handler it called dispatches a run.
Occupied(p, v) == \E r \in Runs : publisher[r] = p /\ via[r] = v /\ Dispatching(r)

-----------------------------------------------------------------------------
(* The registry: _register and remove, remove_all.  Arming is SchedulerArming. *)

Register(o) ==
    /\ o \notin spent
    /\ jobs[NameOf[o]] = None
    /\ jobs' = [jobs EXCEPT ![NameOf[o]] = o]
    /\ spent' = spent \union {o}
    /\ UNCHANGED <<active, running, flights, expiring, lost, begun, pc, recordVars, causeVars, history>>

\* One name, or every name
Remove(S) ==
    /\ \E n \in S : jobs[n] # None
    /\ jobs' = [n \in Names |-> IF n \in S THEN None ELSE jobs[n]]
    /\ UNCHANGED <<spent, active, running, flights, expiring, lost, begun, pc, recordVars, causeVars, history>>

-----------------------------------------------------------------------------
(* Deciding to fire: the job is looked up under the lock, which is then let go *)

\* run_now, a due minute in _fire_due, or a file trigger
FireByHand(r, n) ==
    /\ pc[r] = "new" /\ jobs[n] # None
    /\ pc' = [pc EXCEPT ![r] = "decided"]
    /\ object' = [object EXCEPT ![r] = jobs[n]]
    /\ UNCHANGED <<jobVars, flights, expiring, lost, begun, state, depth, outcome, decided, settled,
                   causeVars, history>>

\* _publishers of an event: the flights in progress under its correlation id (a set with
\* the publisher p or nothing), and the flight of the current thread.
Publishers(p, l) == (flights \intersect {p}) \union ({l} \ {None})

\* Bug: every run of a chain is as deep as the first.
SameDepth(S) == IF S = {} THEN 0 ELSE depth[CHOOSE q \in S : TRUE]

\* depth_after: one more than the deepest publisher, 0 when there is none
DepthAfter(S) ==
    IF S = {} THEN 0
    ELSE CHOOSE d \in {depth[q] + 1 : q \in S} : \A q \in S : depth[q] + 1 <= d

\* is_own.  about: the job name a scheduler.error reports on, or None.
IsOwn(n, S, about) == about = n \/ \E q \in S : NameOf[object[q]] = n

\* on_event of the trigger of the job n, for an event of run p delivered on a thread whose own
\* flight is l: nothing more happens to an event of the job's own.
Hear(r, n, p, v, l, about) ==
    /\ pc[r] = "new"
    /\ jobs[n] \in Listeners
    /\ ~Occupied(p, v) \/ v = "task"
    /\ ~IsOwn(n, Publishers(p, l), about)
    /\ pc' = [pc EXCEPT ![r] = "heard"]
    /\ object' = [object EXCEPT ![r] = jobs[n]]
    /\ publisher' = [publisher EXCEPT ![r] = p]
    /\ via' = [via EXCEPT ![r] = v]
    /\ local' = [local EXCEPT ![r] = l]
    /\ UNCHANGED <<jobVars, flights, expiring, lost, begun, state, depth, outcome, decided, settled,
                   history>>

\* What a run publishes: on its own thread while its target runs, or on a task thread of its
\* pipeline, which may have been abandoned and may outlive the run.
EventOfTarget(r, n, p) ==
    \/ pc[p] = "flying" /\ Hear(r, n, p, "thread", p, None)
    \/ p \in begun /\ Hear(r, n, p, "task", None, None)

\* _announce publishes scheduler.error about p: on p's thread once it has ended, on the
\* ticking thread when it timed out, or on the dispatching thread when p never got one.
EventOfFailure(r, n, p) ==
    LET about == NameOf[object[p]]
        failed == ~decided[p] /\ state[p] = "failed" /\ outcome[p] = "failed"
        telling == pc[p] = "telling" /\ failed
    IN  \/ telling /\ p \notin lost /\ Hear(r, n, p, "thread", p, about)
        \/ telling /\ p \in lost /\ Hear(r, n, p, "lost", local[p], about)
        \/ p \in expiring /\ Hear(r, n, p, "tick", p, about)

\* _fire looks the job up under the lock: the one that is registered now, if there is one
LookUp(r) ==
    LET o == jobs[NameOf[object[r]]] IN
    /\ pc[r] = "heard"
    /\ \/ /\ o # None
          /\ pc' = [pc EXCEPT ![r] = "found"]
          /\ object' = [object EXCEPT ![r] = o]
          /\ UNCHANGED causeVars
       \/ /\ o = None
          /\ pc' = [pc EXCEPT ![r] = "gone"]
          /\ object' = object
          /\ Return(r)
    /\ UNCHANGED <<jobVars, flights, expiring, lost, begun, state, depth, outcome, decided, settled,
                   history>>

\* _fire asks depth_after, which takes the lock again: the publisher may have landed by then.
Measure(r) ==
    LET p == publisher[r]
        S == Publishers(p, local[r])
    IN  /\ pc[r] = "found"
        /\ pc' = [pc EXCEPT ![r] = "decided"]
        /\ depth' = [depth EXCEPT ![r] = DepthAfter(S)]
        /\ chain' = [chain EXCEPT ![r] = chain[p] + 1]
        /\ cut' = IF p \in S \ cut THEN cut ELSE cut \union {r}
        /\ UNCHANGED <<jobVars, flights, expiring, lost, begun, object, state, outcome, decided,
                       settled, causeVars, errors>>

-----------------------------------------------------------------------------
(* Dispatcher.dispatch *)

\* The flights whose record expire or cancel may still close
Open == {r \in flights : ~IsFinal(state[r])}

\* Bug: a job whose record timed out no longer counts as running.
RefusalByRecord(o, d) ==
    CASE d >= MaxChain -> "chain"
      [] d < MaxChain /\ (\E q \in Open : object[q] = o) /\ o \notin AllowOverlap -> "overlap"
      [] OTHER -> "none"

\* _refusal
Refusal(o, d) ==
    CASE d >= MaxChain -> "chain"
      [] d < MaxChain /\ running[o] /\ o \notin AllowOverlap -> "overlap"
      [] OTHER -> "none"

\* The state a refused firing is closed with
SkippedAs(o, d) == "skipped"

\* _admit under the lock: counted as a run, or recorded as skipped and settled
Admit(r) ==
    LET o == object[r] IN
    /\ pc[r] = "decided"
    /\ \/ /\ Refusal(o, depth[r]) = "none"
          /\ flights' = flights \union {r}
          /\ running' = [running EXCEPT ![o] = TRUE]
          /\ active' = [active EXCEPT ![o] = @ + 1]
          /\ pc' = [pc EXCEPT ![r] = "admitted"]
          /\ UNCHANGED <<state, settled, causeVars>>
       \/ /\ Refusal(o, depth[r]) # "none"
          /\ state' = [state EXCEPT ![r] = SkippedAs(o, depth[r])]
          /\ settled' = [settled EXCEPT ![r] = TRUE]
          /\ pc' = [pc EXCEPT ![r] = "gone"]
          /\ Return(r)
          /\ UNCHANGED <<flights, running, active>>
    /\ UNCHANGED <<jobs, spent, expiring, lost, begun, object, depth, outcome, decided, history>>

\* Bug: a RuntimeError of worker.start that nobody handles
StartThreadOrForget(r) ==
    /\ pc[r] = "admitted"
    /\ \/ pc' = [pc EXCEPT ![r] = "takeoff"]
       \/ ThreadsRunOut /\ pc' = [pc EXCEPT ![r] = "gone"]
    /\ Return(r)
    /\ UNCHANGED <<jobVars, flights, expiring, lost, begun, recordVars, history>>

\* worker.start, or its RuntimeError: the run lands on the dispatching thread, as failed
StartThread(r) ==
    /\ pc[r] = "admitted"
    /\ \/ /\ pc' = [pc EXCEPT ![r] = "takeoff"]
          /\ Return(r)
          /\ lost' = lost
       \/ /\ ThreadsRunOut
          /\ pc' = [pc EXCEPT ![r] = "landing"]
          /\ lost' = lost \union {r}
          /\ UNCHANGED causeVars
    /\ UNCHANGED <<jobVars, flights, expiring, begun, recordVars, history>>

-----------------------------------------------------------------------------
(* The run's thread *)

\* _take_off
TakeOff(r) ==
    /\ pc[r] = "takeoff"
    /\ \/ /\ IsFinal(state[r])
          /\ pc' = [pc EXCEPT ![r] = "landing"]
          /\ UNCHANGED <<state, begun>>
       \/ /\ ~IsFinal(state[r])
          /\ pc' = [pc EXCEPT ![r] = "flying"]
          /\ state' = [state EXCEPT ![r] = "started"]
          /\ begun' = begun \union {r}
    /\ UNCHANGED <<jobVars, flights, expiring, lost, object, depth, outcome, decided, settled,
                   causeVars, history>>

\* Outcome of targets.py.  "rejected" is a failure with reported set: _safe_execute has told
\* notify_on_failure about an action list the executor does not accept.
OutcomeKind == {"completed", "failed", "rejected"}

\* The target returns or raises.  A pipeline that ended cancelled had its token set by
\* expire or cancel, which have closed the record already.
Finish(r) ==
    /\ pc[r] = "flying" /\ ~Occupied(r, "thread")
    /\ pc' = [pc EXCEPT ![r] = "landing"]
    /\ \E s \in OutcomeKind : outcome' = [outcome EXCEPT ![r] = s]
    /\ UNCHANGED <<jobVars, flights, expiring, lost, begun, object, state, depth, decided, settled, causeVars,
                   history>>

-----------------------------------------------------------------------------
(* _land: close the record, give the job back, report, release the waiters *)

\* The state the thread leaves the record in
Closed(r) ==
    IF IsFinal(state[r]) THEN state[r]
    ELSE IF outcome[r] = "completed" THEN "completed" ELSE "failed"

\* _conclude under the lock, unless expire or cancel closed the record before
Conclude(r) ==
    /\ pc[r] = "landing"
    /\ pc' = [pc EXCEPT ![r] = "concluded"]
    /\ decided' = [decided EXCEPT ![r] = IsFinal(state[r])]
    /\ state' = [state EXCEPT ![r] = Closed(r)]
    /\ UNCHANGED <<jobVars, flights, expiring, lost, begun, object, depth, outcome, settled, causeVars,
                   history>>

\* Bug: the end of any run frees the job.
LeftNone(o) == 0

\* The runs a job still counts after one of them is released
Left(o) == IF active[o] > 0 THEN active[o] - 1 ELSE 0

\* _release under the lock
Release(r) ==
    LET o == object[r] IN
    /\ pc[r] = "concluded"
    /\ pc' = [pc EXCEPT ![r] = "telling"]
    /\ flights' = flights \ {r}
    /\ active' = [active EXCEPT ![o] = Left(o)]
    /\ running' = [running EXCEPT ![o] = Left(o) > 0]
    /\ UNCHANGED <<jobs, spent, expiring, lost, begun, recordVars, causeVars, history>>

\* _announce publishes scheduler.error for a failure or a timeout.
Reported(r) == IF state[r] \in {"failed", "timeout"} THEN errors[r] + 1 ELSE errors[r]

\* Bug: the thread reports again what expire has reported.
ToldAlways(r) == Reported(r)

\* What _tell makes of it: a record that was closed before is only logged, and so is a
\* failure its target has reported.
Told(r) == IF decided[r] \/ outcome[r] = "rejected" THEN errors[r] ELSE Reported(r)

\* _tell, once every handler it called is through, and settle
Tell(r) ==
    /\ pc[r] = "telling"
    /\ ~Occupied(r, IF r \in lost THEN "lost" ELSE "thread")
    /\ pc' = [pc EXCEPT ![r] = "gone"]
    /\ errors' = [errors EXCEPT ![r] = Told(r)]
    /\ settled' = [settled EXCEPT ![r] = TRUE]
    /\ decided' = [decided EXCEPT ![r] = FALSE]
    /\ Return(r)
    /\ UNCHANGED <<jobVars, flights, expiring, lost, begun, object, state, depth, outcome, chain, cut>>

-----------------------------------------------------------------------------
(* Stopping runs *)

\* expire under the lock: which of the runs with a timeout are late is up to the clock
Expire(L) ==
    /\ expiring = {} /\ L # {}
    /\ L \subseteq {r \in Open : object[r] \in Timed}
    /\ state' = [r \in Runs |-> IF r \in L THEN "timeout" ELSE state[r]]
    /\ expiring' = L
    /\ UNCHANGED <<jobVars, flights, lost, begun, pc, object, depth, outcome, decided, settled,
                   causeVars, history>>

\* The rest of expire for one record
ExpireTell(r) ==
    /\ r \in expiring /\ ~Occupied(r, "tick")
    /\ expiring' = expiring \ {r}
    /\ errors' = [errors EXCEPT ![r] = Reported(r)]
    /\ settled' = [settled EXCEPT ![r] = TRUE]
    /\ UNCHANGED <<jobVars, flights, lost, begun, pc, object, state, depth, outcome, decided, causeVars,
                   chain, cut>>

\* cancel(name), or shutdown(cancel_running=True) for every name.  Nothing is published,
\* so closing, token and settle are one step.
Cancel(S) ==
    LET chosen == {r \in Open : NameOf[object[r]] \in S} IN
    /\ chosen # {}
    /\ state' = [r \in Runs |-> IF r \in chosen THEN "cancelled" ELSE state[r]]
    /\ settled' = [r \in Runs |-> settled[r] \/ r \in chosen]
    /\ UNCHANGED <<jobVars, flights, expiring, lost, begun, pc, object, depth, outcome, decided, causeVars,
                   history>>

-----------------------------------------------------------------------------

Scopes == {{n} : n \in Names} \union {Names}

\* The scheduler's own part of a run
Steps(r) ==
    \/ LookUp(r) \/ Measure(r)
    \/ Admit(r) \/ StartThread(r) \/ TakeOff(r)
    \/ Conclude(r) \/ Release(r) \/ Tell(r)
    \/ ExpireTell(r)

Next ==
    \/ \E o \in Objects : Register(o)
    \/ \E S \in Scopes : Remove(S) \/ Cancel(S)
    \/ \E r \in Runs, n \in Names : FireByHand(r, n)
    \/ \E r, p \in Runs, n \in Names : EventOfTarget(r, n, p) \/ EventOfFailure(r, n, p)
    \/ \E r \in Runs : Steps(r) \/ Finish(r)
    \/ \E L \in SUBSET Runs : Expire(L)

Spec == Init /\ [][Next]_vars

\* Threads are scheduled, and a target ends some day.
FairSpec == Spec /\ \A r \in Runs : WF_vars(Steps(r)) /\ WF_vars(Finish(r))

-----------------------------------------------------------------------------
(* What the dispatcher promises *)

TypeOK ==
    /\ jobs \in [Names -> Objects \union {None}]
    /\ spent \subseteq Objects
    /\ active \in [Objects -> Nat]
    /\ running \in [Objects -> BOOLEAN]
    /\ flights \subseteq Runs
    /\ expiring \subseteq Runs
    /\ lost \subseteq Runs
    /\ begun \subseteq Runs
    /\ pc \in [Runs -> RunPc]
    /\ object \in [Runs -> Objects \union {None}]
    /\ state \in [Runs -> RunState]
    /\ depth \in [Runs -> Nat]
    /\ outcome \in [Runs -> OutcomeKind]
    /\ decided \in [Runs -> BOOLEAN]
    /\ settled \in [Runs -> BOOLEAN]
    /\ publisher \in [Runs -> Runs \union {None}]
    /\ via \in [Runs -> Via]
    /\ local \in [Runs -> Runs \union {None}]
    /\ errors \in [Runs -> Nat]
    /\ chain \in [Runs -> Nat]
    /\ cut \subseteq Runs

\* The overlap accounting is exact at every moment: a job object counts the runs whose
\* threads have not been through _release, and running says whether there are any.
Flying(o) == {r \in flights : object[r] = o}
AccountingExact ==
    \A o \in Objects : active[o] = Cardinality(Flying(o)) /\ (running[o] <=> Flying(o) # {})

\* Overlap protection: two targets of one job object are never carried out at once, with
\* timeouts and cancellations closing records under their feet.
AtWork == {"takeoff", "flying", "landing", "concluded"}
OverlapProtected ==
    \A r, q \in Runs : r # q /\ object[r] = object[q] /\ object[r] \notin AllowOverlap =>
        ~(pc[r] \in AtWork /\ pc[q] \in AtWork)

\* RunState.is_final, "the record will not change state any more": whichever of the
\* thread, the timeout and the cancellation comes first decides, and the others leave it.
RecordsAreFinal == [][\A r \in Runs : IsFinal(state[r]) => state'[r] = state[r]]_vars

\* A failure or a timeout is reported once, by whoever decided it (the target's own report
\* of a rejected list included), and nothing else is.  A run that failed is reported before
\* its waiters are released; one that timed out may land, and release them, before the ticking
\* thread gets to its report.
ReportedOnce ==
    \A r \in Runs :
        /\ errors[r] <= 1
        /\ errors[r] = 1 => state[r] \in {"failed", "timeout"}
        /\ settled[r] /\ state[r] = "failed" => errors[r] = IF outcome[r] = "rejected" THEN 0 ELSE 1
        /\ state[r] = "timeout" /\ r \notin expiring => errors[r] = 1

\* JobRun.wait: a run that ended by itself is released once its job no longer counts it.
WaitMeansReleased ==
    \A r \in Runs : settled[r] /\ state[r] \in {"completed", "failed"} => r \notin flights

\* Overlap protection by name: two runs of the job of one name never collide, also when
\* the job is removed and registered again.
NoCollision ==
    \A r, q \in Runs : r # q /\ pc[r] \in AtWork /\ pc[q] \in AtWork
        /\ NameOf[object[r]] = NameOf[object[q]] =>
            object[r] \in AllowOverlap \/ object[q] \in AllowOverlap

\* Every firing that was decided is settled, and no job stays counted as running.
FiringsSettle ==
    \A r \in Runs : pc[r] = "decided" ~> settled[r] /\ r \notin flights

\* dispatch.py: a firing at the end of a chain of MAX_CHAIN runs is skipped, so jobs that fire one
\* another cannot go on for ever.  Whatever thread the events were handled on, a firing to which
\* MAX_CHAIN runs have led never becomes a run - unless one of them was off the books when its event
\* was counted: it never got a thread, or the event came from a task thread that outlived it.
ChainsCounted ==
    \A r \in Runs \ cut : chain[r] >= MaxChain => pc[r] = "decided" \/ state[r] = "skipped"

-----------------------------------------------------------------------------
(* The inductive invariants behind the safety properties above *)

Aboard == {"admitted"} \union AtWork

\* The flights on the books are the runs between admission and release, their objects
\* count them, and only an object that allows overlap has two.
DispatchInv ==
    /\ flights = {r \in Runs : pc[r] \in Aboard}
    /\ \A r \in Runs : pc[r] # "new" => object[r] \in Objects
    /\ AccountingExact
    /\ \A r, q \in flights : r # q /\ object[r] = object[q] => object[r] \in AllowOverlap

\* An event that was heard was published by a run.
HeardInv == \A r \in Runs : pc[r] \in {"heard", "found"} => publisher[r] \in Runs

\* How far a run has got says who may still close, report and settle its record.
Stopped == {"timeout", "cancelled"}
RecordInv ==
    \A r \in Runs :
        /\ pc[r] \in {"new", "heard", "found", "decided"} => state[r] = "scheduled" /\ ~settled[r]
        /\ pc[r] \in Aboard \ {"concluded"} => state[r] \in {"scheduled", "started"} \union Stopped
        /\ pc[r] \in {"concluded", "telling"} =>
               state[r] \in {"completed", "failed"} \union Stopped /\ (decided[r] <=> state[r] \in Stopped)
        /\ pc[r] \in Aboard \union {"telling"} /\ settled[r] => state[r] \in Stopped
        /\ r \in expiring => state[r] = "timeout" /\ errors[r] = 0
        /\ state[r] = "timeout" /\ r \notin expiring => errors[r] = 1
        /\ state[r] = "failed" =>
               errors[r] = IF pc[r] = "gone" /\ outcome[r] # "rejected" THEN 1 ELSE 0
        /\ state[r] \notin {"failed", "timeout"} => errors[r] = 0

\* A firing is as deep as the chain that led to it, as long as the chain was not cut, and what is
\* aboard or has been is below the limit.
Unmeasured == {"new", "heard", "found"}
ChainInv ==
    /\ \A r \in Runs : pc[r] \in Unmeasured => chain[r] = 0 /\ depth[r] = 0 /\ r \notin cut
    /\ \A r \in Runs \ cut : chain[r] <= depth[r]
    /\ \A r \in Runs : depth[r] >= MaxChain => pc[r] = "decided" \/ state[r] = "skipped"
=============================================================================
