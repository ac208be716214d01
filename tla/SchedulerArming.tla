--------------------------- MODULE SchedulerArming ---------------------------
(* Registering jobs and arming their triggers: Scheduler._register, _arm,     *)
(* start, remove, remove_all and shutdown of scheduler/manager.py, run by     *)
(* any number of client threads at once.                                      *)
(*                                                                            *)
(* Arming subscribes to the bus and starts file watchers outside the          *)
(* scheduler's lock, so a job may be removed, registered anew or shut down    *)
(* while its triggers are being armed.  The list object of a registration     *)
(* ("slot") tells the armer whether it is still wanted.  start arms the jobs  *)
(* it found one after the other; here they may also be armed at once.         *)
EXTENDS Naturals, FiniteSets

CONSTANTS
    JobNames,      \* job names
    Armings,       \* identities of the calls of _arm: bounds how many there are
    Triggers,      \* how many triggers a job has
    ArmsMayFail,   \* whether a trigger may refuse to be armed
    Threads,       \* background threads: bounds the restarts
    Nothing        \* no arming, no thread

VARIABLES
    jobOf,     \* _jobs: the job under each name, known by the arming that registered it
    armed,     \* _armed: the slot under each name, known by the arming it was made for
    armPc,     \* armPc[a]: how far the call that runs arming a has got
    name,      \* name[a]: the job's name
    register,  \* register[a]: the arming is part of _register, not of start
    live,      \* live[a]: how many of its triggers are armed and able to fire
    kept,      \* the slots that hold the disarms of their arming
    doomed,    \* slots taken off the books whose disarms are still to be called
    thread,    \* _thread
    ticking,   \* background threads whose stop flag is not set
    autostart, \* Scheduler(autostart=...)
    down       \* history: a shutdown, and no start or registration since

armVars == <<jobOf, armed, armPc, name, register, live, kept, doomed, thread, ticking, autostart, down>>

ArmStages == {"idle", "arming", "refused", "disarm", "disarmfailed", "undo", "armed", "done", "raised"}

ArmInit ==
    /\ jobOf = [n \in JobNames |-> Nothing]
    /\ armed = [n \in JobNames |-> Nothing]
    /\ armPc = [a \in Armings |-> "idle"]
    /\ name = [a \in Armings |-> CHOOSE n \in JobNames : TRUE]
    /\ register = [a \in Armings |-> FALSE]
    /\ live = [a \in Armings |-> 0]
    /\ kept = {}
    /\ doomed = {}
    /\ thread = Nothing
    /\ ticking = {}
    /\ autostart \in BOOLEAN
    /\ down = FALSE

-----------------------------------------------------------------------------
(* _register and start *)

RegisterJob(a, n) ==
    /\ armPc[a] = "idle" /\ jobOf[n] = Nothing
    /\ jobOf' = [jobOf EXCEPT ![n] = a]
    /\ armed' = [armed EXCEPT ![n] = a]
    /\ armPc' = [armPc EXCEPT ![a] = "arming"]
    /\ name' = [name EXCEPT ![a] = n]
    /\ register' = [register EXCEPT ![a] = TRUE]
    /\ down' = FALSE
    /\ UNCHANGED <<live, kept, doomed, thread, ticking, autostart>>

\* start: a thread if there is none ...
EnsureThread ==
    \/ thread # Nothing /\ UNCHANGED <<thread, ticking>>
    \/ thread = Nothing /\ \E k \in Threads \ ticking : thread' = k /\ ticking' = ticking \union {k}

\* ... and an arming for every job without a slot
Unarmed == {n \in JobNames : jobOf[n] # Nothing /\ armed[n] = Nothing}

\* The locked section of start, leaving the calling arming (if any) at "done"
StartSection(caller) ==
    /\ EnsureThread
    /\ \E f \in [Unarmed -> {a \in Armings : armPc[a] = "idle"}] :
          LET started == {f[n] : n \in Unarmed} IN
          /\ \A m, n \in Unarmed : f[m] = f[n] => m = n
          /\ armed' = [n \in JobNames |-> IF n \in Unarmed THEN f[n] ELSE armed[n]]
          /\ armPc' = [a \in Armings |-> IF a \in started THEN "arming"
                                      ELSE IF a \in caller THEN "done" ELSE armPc[a]]
          /\ name' = [a \in Armings |->
                         IF a \in started THEN CHOOSE n \in Unarmed : f[n] = a ELSE name[a]]
    /\ down' = FALSE
    /\ UNCHANGED <<jobOf, register, live, kept, doomed, autostart>>

Start == StartSection({})

\* The end of _register: _ensure_running
Registered(a) ==
    /\ armPc[a] = "armed" /\ register[a]
    /\ \/ autostart /\ StartSection({a})
       \/ /\ ~autostart
          /\ armPc' = [armPc EXCEPT ![a] = "done"]
          /\ UNCHANGED <<jobOf, armed, name, register, live, kept, doomed, thread, ticking, down, autostart>>

-----------------------------------------------------------------------------
(* _arm *)

\* Trigger.arm: the trigger can fire from here on.
ArmOne(a) ==
    /\ armPc[a] = "arming" /\ live[a] < Triggers
    /\ live' = [live EXCEPT ![a] = @ + 1]
    /\ UNCHANGED <<jobOf, armed, armPc, name, register, kept, doomed, thread, ticking, down, autostart>>

\* Trigger.arm raises: no such path, or no thread for a watcher.
ArmRefused(a) ==
    /\ ArmsMayFail
    /\ armPc[a] = "arming" /\ live[a] < Triggers
    /\ armPc' = [armPc EXCEPT ![a] = "refused"]
    /\ UNCHANGED <<jobOf, armed, name, register, live, kept, doomed, thread, ticking, down, autostart>>

\* Bug: some slot of that name will do.
SomeSlot(a) == armed[name[a]] # Nothing

\* Whether the slot the armer was given is still the registered one
SlotRegistered(a) == armed[name[a]] = a

\* The locked section that ends _arm
ArmClose(a) ==
    /\ \/ armPc[a] = "refused"
       \/ armPc[a] = "arming" /\ live[a] = Triggers
    /\ LET ok == armPc[a] = "arming" IN
       \/ /\ SlotRegistered(a) /\ ok
          /\ kept' = kept \union {a}
          /\ armPc' = [armPc EXCEPT ![a] = "armed"]
          /\ armed' = armed
       \/ /\ SlotRegistered(a) /\ ~ok
          /\ armed' = [armed EXCEPT ![name[a]] = Nothing]
          /\ armPc' = [armPc EXCEPT ![a] = "disarmfailed"]
          /\ kept' = kept
       \/ /\ ~SlotRegistered(a)
          /\ armPc' = [armPc EXCEPT ![a] = IF ok THEN "disarm" ELSE "disarmfailed"]
          /\ UNCHANGED <<armed, kept>>
    /\ UNCHANGED <<jobOf, name, register, live, doomed, thread, ticking, down, autostart>>

\* What _disarm leaves of an arming nobody wants
AfterDisarm(a) == 0

\* _disarm by the armer itself; a failed registration then takes the job back.
ArmDisarm(a) ==
    /\ armPc[a] \in {"disarm", "disarmfailed"}
    /\ live' = [live EXCEPT ![a] = AfterDisarm(a)]
    /\ armPc' = [armPc EXCEPT ![a] = IF armPc[a] = "disarm" THEN "armed"
                               ELSE IF register[a] THEN "undo" ELSE "raised"]
    /\ UNCHANGED <<jobOf, armed, name, register, kept, doomed, thread, ticking, down, autostart>>

\* _register's finally: the job is taken back if it is still there.
Undo(a) ==
    /\ armPc[a] = "undo"
    /\ jobOf' = [jobOf EXCEPT ![name[a]] = IF @ = a THEN Nothing ELSE @]
    /\ armPc' = [armPc EXCEPT ![a] = "raised"]
    /\ UNCHANGED <<armed, name, register, live, kept, doomed, thread, ticking, down, autostart>>

-----------------------------------------------------------------------------
(* remove, remove_all, shutdown *)

\* The slots of these names whose disarms a caller takes along
Taken(S) == {armed[n] : n \in S} \intersect kept

\* remove of an unknown job raises after it has taken the slot off the books.
RemoveJob(n) ==
    /\ jobOf[n] # Nothing \/ armed[n] # Nothing
    /\ jobOf' = [jobOf EXCEPT ![n] = Nothing]
    /\ armed' = [armed EXCEPT ![n] = Nothing]
    /\ doomed' = IF jobOf[n] # Nothing THEN doomed \union Taken({n}) ELSE doomed
    /\ UNCHANGED <<armPc, name, register, live, kept, thread, ticking, down, autostart>>

RemoveAll ==
    /\ jobOf' = [n \in JobNames |-> Nothing]
    /\ armed' = [n \in JobNames |-> Nothing]
    /\ doomed' = doomed \union Taken(JobNames)
    /\ UNCHANGED <<armPc, name, register, live, kept, thread, ticking, down, autostart>>

Shutdown ==
    /\ ticking' = ticking \ {thread}
    /\ thread' = Nothing
    /\ armed' = [n \in JobNames |-> Nothing]
    /\ doomed' = doomed \union Taken(JobNames)
    /\ down' = TRUE
    /\ UNCHANGED <<jobOf, armPc, name, register, live, kept, autostart>>

\* _disarm by the caller of one of these
Disarm(a) ==
    /\ a \in doomed
    /\ doomed' = doomed \ {a}
    /\ kept' = kept \ {a}
    /\ live' = [live EXCEPT ![a] = 0]
    /\ UNCHANGED <<jobOf, armed, armPc, name, register, thread, ticking, down, autostart>>

-----------------------------------------------------------------------------

Step(a) == ArmOne(a) \/ ArmRefused(a) \/ ArmClose(a) \/ ArmDisarm(a) \/ Undo(a) \/ Registered(a) \/ Disarm(a)

ArmNext ==
    \/ \E a \in Armings, n \in JobNames : RegisterJob(a, n)
    \/ \E a \in Armings : Step(a)
    \/ \E n \in JobNames : RemoveJob(n)
    \/ Start \/ RemoveAll \/ Shutdown

ArmSpec == ArmInit /\ [][ArmNext]_armVars

-----------------------------------------------------------------------------

ArmTypeOK ==
    /\ jobOf \in [JobNames -> Armings \union {Nothing}]
    /\ armed \in [JobNames -> Armings \union {Nothing}]
    /\ armPc \in [Armings -> ArmStages]
    /\ name \in [Armings -> JobNames]
    /\ register \in [Armings -> BOOLEAN]
    /\ live \in [Armings -> 0 .. Triggers]
    /\ kept \subseteq Armings
    /\ doomed \subseteq kept
    /\ thread \in Threads \union {Nothing}
    /\ ticking \subseteq Threads
    /\ autostart \in BOOLEAN
    /\ down \in BOOLEAN

\* No call is in the middle of something.
Quiet ==
    /\ doomed = {}
    /\ \A a \in Armings : armPc[a] \in {"idle", "done", "raised"} \/ (armPc[a] = "armed" /\ ~register[a])

\* No arming has been refused: a refused registration that a start crosses may leave triggers
\* behind, and a start that is refused logs it and leaves the job unarmed.
Unrefused == \A a \in Armings : armPc[a] # "raised"

\* However registrations, removals, starts and shutdowns overlap, the triggers that can fire
\* are, once things are quiet, the ones the scheduler knows how to stop: one full set for the
\* job registered under their name.
TriggersBelong ==
    Quiet /\ Unrefused => \A a \in Armings : live[a] > 0 =>
        armed[name[a]] = a /\ a \in kept /\ jobOf[name[a]] # Nothing

\* A scheduler that is running has every registered job armed, once things are quiet: a
\* shutdown or a removal that crossed the arming has not left a job deaf.
RunningMeansArmed ==
    Quiet /\ Unrefused /\ thread # Nothing => \A n \in JobNames : jobOf[n] # Nothing =>
        armed[n] # Nothing /\ live[armed[n]] = Triggers

\* shutdown: "Stop the background thread, every file watcher and every bus subscription."
ShutdownStopsAll == Quiet /\ down => ticking = {} /\ \A a \in Armings : live[a] = 0

\* shutdown keeps that promise as long as no trigger has refused to be armed, whatever starts
\* and shutdowns crossed: no second background thread is left ticking either.
CleanShutdown == Unrefused => ShutdownStopsAll

\* An arming that was refused leaves neither a job that it registered nor a trigger behind.
FailureLeavesNothing ==
    \A a \in Armings : armPc[a] = "raised" => live[a] = 0 /\ \A n \in JobNames : jobOf[n] # a /\ armed[n] # a
\* However registrations, removals, starts and shutdowns overlap: what can fire belongs to a registered
\* job, a running scheduler has every job armed, and, unless an arming was refused before, a shutdown
\* leaves nothing live and no thread ticking; a registration that raised leaves nothing behind.
ArmingSound == TriggersBelong /\ RunningMeansArmed /\ CleanShutdown /\ FailureLeavesNothing

-----------------------------------------------------------------------------
(* The inductive invariant behind ArmingSound *)

ConstantsOK == JobNames # {} /\ Triggers \in Nat /\ Nothing \notin Armings \union Threads

\* An arming that has not begun is unknown; a slot is known under the name of its arming, and only
\* while the arming may still want it; a job is known under the name of its registration.
SlotsAreNamed ==
    /\ \A a \in Armings : armPc[a] = "idle" => a \notin kept /\ live[a] = 0
    /\ \A n \in JobNames : armed[n] # Nothing =>
          name[armed[n]] = n /\ armPc[armed[n]] \in {"arming", "refused", "armed", "done"}
    /\ \A n \in JobNames : jobOf[n] # Nothing =>
          name[jobOf[n]] = n /\ register[jobOf[n]] /\ armPc[jobOf[n]] \notin {"idle", "raised"}

\* A slot that is kept has the full set of triggers; one on the books that is armed is kept, and one
\* whose disarms somebody is about to call is off the books.
KeptIsFull ==
    /\ \A a \in kept : armPc[a] \in {"armed", "done"} /\ live[a] = Triggers
    /\ \A n \in JobNames : armed[n] # Nothing /\ armPc[armed[n]] \in {"armed", "done"} => armed[n] \in kept
    /\ \A n \in JobNames : armed[n] \notin doomed

\* A trigger that can fire is being armed, is about to be disarmed by its armer, or is kept.
LiveIsKnown ==
    \A a \in Armings : live[a] > 0 => armPc[a] \in {"arming", "refused", "disarm", "disarmfailed"} \/ a \in kept

\* Unless an arming was refused, what is kept is on the books or about to be disarmed, a slot has its
\* job, and in a running scheduler a job without a slot is one whose arming is just failing.
BooksAreComplete ==
    Unrefused =>
        /\ \A a \in kept : armed[name[a]] = a \/ a \in doomed
        /\ \A n \in JobNames : armed[n] # Nothing => jobOf[n] # Nothing
        /\ thread # Nothing => \A n \in JobNames : jobOf[n] # Nothing /\ armed[n] = Nothing =>
              \E a \in Armings : armPc[a] \in {"disarmfailed", "undo"}

\* At most the thread of the scheduler ticks, and none after a shutdown.
OneThread ==
    /\ ticking = IF thread = Nothing THEN {} ELSE {thread}
    /\ down => thread = Nothing /\ \A n \in JobNames : armed[n] = Nothing

ArmInv == ArmTypeOK /\ SlotsAreNamed /\ KeptIsFull /\ LiveIsKnown /\ BooksAreComplete /\ OneThread
==============================================================================
