---------------------------- MODULE FileWatching ----------------------------
(* The threads behind watched directories.                                     *)
(*                                                                             *)
(* The debouncer: LocalWatcher and Debouncer (integrity/local_watcher.py,      *)
(* integrity/watcher.py).  An observer reports changed paths, a loop hands     *)
(* them over as one batch once they stop arriving, and in any case after a     *)
(* longest wait.  One client starts and stops the watch; a start may fail      *)
(* after the loop has begun, a stop gives up waiting for a loop that is still  *)
(* delivering, and a new loop may then run beside it.                          *)
(*                                                                             *)
(* The registry: TriggerManager and FileWatcher (trigger/manager.py).  Named   *)
(* watchers are started under the lock and stopped outside it by any number of *)
(* clients, while their observers run action lists.                            *)
EXTENDS Naturals

CONSTANTS
    Loops,       \* the debouncer's threads: bounds the restarts
    Paths,       \* the paths that can be reported
    Ignored,     \* the paths LocalWatcher.feed drops
    FsEvents,    \* events of the observer: [kind, directory, paths]
    Delay,       \* quiet time that ends a batch
    LongestWait, \* Delay * _MAX_WAIT_FACTOR
    Clients,     \* callers of the registry
    Watched,     \* names of watchers
    Observers,   \* observer threads of the registry: bounds the starts
    Nobody       \* no thread, no observer, no name

VARIABLES
    \* the debouncer
    loop,        \* what each thread is doing
    current,     \* Debouncer._thread
    stopped,     \* Debouncer._stopped
    pending,     \* Debouncer._pending
    quiet, age,  \* time since the last and since the first pending path, capped
    handed,      \* what each thread is delivering
    watch,       \* the client: "off", "on", "joining"
    gaveUp,      \* history: a stop returned while its thread was still alive
    \* the registry
    watchers,    \* TriggerManager._watchers: the observer under each name
    observer,    \* what each observer's thread is doing
    serves,      \* serves[o]: the name observer o was started for
    stopping     \* stopping[c]: the observers client c has yet to stop

debounceVars == <<loop, current, stopped, pending, quiet, age, handed, watch, gaveUp>>

registryVars == <<watchers, observer, serves, stopping>>

watchVars == <<debounceVars, registryVars>>

DebounceInit ==
    /\ loop = [l \in Loops |-> "unborn"] /\ current = Nobody /\ stopped = FALSE
    /\ pending = {} /\ quiet = 0 /\ age = 0
    /\ handed = [l \in Loops |-> {}] /\ watch = "off" /\ gaveUp = FALSE

RegistryInit ==
    /\ watchers = [n \in Watched |-> Nobody]
    /\ observer = [o \in Observers |-> "unborn"]
    /\ serves = [o \in Observers |-> Nobody]
    /\ stopping = [c \in Clients |-> {}]

-----------------------------------------------------------------------------
(* The debouncer.                                                              *)

Alive(l) == loop[l] \in {"waiting", "settling", "delivering"}

\* Debouncer.is_running
IsRunning == current # Nobody /\ Alive(current)

\* Debouncer.start
StartLoop ==
    IF IsRunning THEN UNCHANGED <<loop, current, stopped>>
    ELSE /\ \E l \in Loops :
               /\ loop[l] = "unborn"
               /\ loop' = [loop EXCEPT ![l] = "waiting"] /\ current' = l
         /\ stopped' = FALSE

\* LocalWatcher.start: the debouncer first, then the observer, which may fail to start.
StartWatch(works) ==
    /\ watch = "off"
    /\ StartLoop
    /\ watch' = IF works THEN "on" ELSE "off"
    /\ UNCHANGED <<pending, quiet, age, handed, gaveUp>>

\* PathCollector.on_any_event and LocalWatcher.feed
Collected(e) ==
    IF e.kind \notin {"created", "modified", "deleted", "moved"} THEN {}
    ELSE IF e.directory /\ e.kind = "modified" THEN {}
    ELSE (e.paths \intersect Paths) \ Ignored

Add(paths) ==
    /\ age' = IF pending = {} THEN 0 ELSE age
    /\ pending' = pending \union paths
    /\ quiet' = 0

Observe(e) ==
    /\ watch = "on" /\ Collected(e) # {}
    /\ Add(Collected(e))
    /\ UNCHANGED <<loop, current, stopped, handed, watch, gaveUp>>

\* LocalWatcher.stop, also of a watch that did not start: the observer, if there is one, has ended
\* when the debouncer is told.
StopWatch ==
    /\ watch # "joining"
    /\ stopped' = TRUE /\ pending' = {} /\ watch' = "joining"
    /\ UNCHANGED <<loop, current, quiet, age, handed, gaveUp>>

\* Bug: nothing waits for the thread.
JoinedAtOnce == TRUE

Joined == ~ IsRunning

\* The join ends with the thread, or its time runs out.
Join(patient) ==
    /\ watch = "joining"
    /\ patient = Joined
    /\ watch' = "off" /\ current' = Nobody
    /\ gaveUp' = (gaveUp \/ ~ patient)
    /\ UNCHANGED <<loop, stopped, pending, quiet, age, handed>>

\* Bug: a tree that never comes to rest is never reported.
DueWhenQuiet == quiet >= Delay

Due == quiet >= Delay \/ age >= LongestWait

\* The loop has been told to stop, ...
Leave(l) ==
    /\ loop[l] \in {"waiting", "settling"} /\ stopped
    /\ loop' = [loop EXCEPT ![l] = "gone"]
    /\ UNCHANGED <<pending, handed>>

\* ... or there is something to wait for, ...
AwaitQuiet(l) ==
    /\ loop[l] = "waiting" /\ ~ stopped /\ pending # {}
    /\ loop' = [loop EXCEPT ![l] = "settling"]
    /\ UNCHANGED <<pending, handed>>

\* ... or it has been waited for long enough.
Deliver(l) ==
    /\ loop[l] = "settling" /\ ~ stopped /\ Due
    /\ loop' = [loop EXCEPT ![l] = "delivering"]
    /\ handed' = [handed EXCEPT ![l] = pending]
    /\ pending' = {}

Delivered(l) ==
    /\ loop[l] = "delivering"
    /\ loop' = [loop EXCEPT ![l] = "waiting"]
    /\ handed' = [handed EXCEPT ![l] = {}]
    /\ UNCHANGED pending

\* One wake-up of the loop that leaves one of its two waits, or the end of a delivery
WakeUp(l) ==
    /\ Leave(l) \/ AwaitQuiet(l) \/ Deliver(l) \/ Delivered(l)
    /\ UNCHANGED <<current, stopped, quiet, age, watch, gaveUp>>

Capped(t, cap) == IF t < cap THEN t + 1 ELSE cap

TimePasses ==
    /\ pending # {} /\ (quiet < Delay \/ age < LongestWait)
    /\ quiet' = Capped(quiet, Delay) /\ age' = Capped(age, LongestWait)
    /\ UNCHANGED <<loop, current, stopped, pending, handed, watch, gaveUp>>

Debounce ==
    \/ \E works \in BOOLEAN : StartWatch(works)
    \/ StopWatch \/ TimePasses
    \/ \E e \in FsEvents : Observe(e)
    \/ \E patient \in BOOLEAN : Join(patient)
    \/ \E l \in Loops : WakeUp(l)

-----------------------------------------------------------------------------
(* The registry of watchers.                                                   *)

NameFree(n) == watchers[n] = Nobody

\* A start that is refused - name taken, path missing, unknown event, an observer
\* that does not start - changes nothing; one that is not registers its observer.
StartWatcher(n) ==
    /\ NameFree(n)
    /\ \E o \in Observers :
          /\ observer[o] = "unborn"
          /\ observer' = [observer EXCEPT ![o] = "idle"]
          /\ serves' = [serves EXCEPT ![o] = n]
          /\ watchers' = [watchers EXCEPT ![n] = o]
    /\ UNCHANGED stopping

\* The names leave the registry under the lock.
TakeDown(c, names) ==
    /\ stopping[c] = {}
    /\ stopping' = [stopping EXCEPT ![c] = {watchers[n] : n \in names}]
    /\ watchers' = [n \in Watched |-> IF n \in names THEN Nobody ELSE watchers[n]]
    /\ UNCHANGED <<observer, serves>>

StopWatcher(c, n) == watchers[n] # Nobody /\ TakeDown(c, {n})

StopAll(c) ==
    LET names == {n \in Watched : watchers[n] # Nobody}
    IN  names # {} /\ TakeDown(c, names)

\* FileWatcher.stop, outside the lock: it waits for an action list that is running, but not for ever.
StopObserver(c, o) ==
    /\ o \in stopping[c]
    /\ stopping' = [stopping EXCEPT ![c] = @ \ {o}]
    /\ observer' = [observer EXCEPT ![o] = IF @ = "busy" THEN "leaving" ELSE "gone"]
    /\ UNCHANGED <<watchers, serves>>

\* An event the watcher wants: the action list, or the callback, runs on the observer's thread.
Dispatch(o) ==
    /\ observer[o] = "idle"
    /\ observer' = [observer EXCEPT ![o] = "busy"]
    /\ UNCHANGED <<watchers, serves, stopping>>

\* A failure of the framework is logged; anything else ends the thread, and the watcher stays
\* registered under its name.
Dispatched(o, survives) ==
    /\ observer[o] \in {"busy", "leaving"}
    /\ observer' = [observer EXCEPT ![o] = IF survives /\ @ = "busy" THEN "idle" ELSE "gone"]
    /\ UNCHANGED <<watchers, serves, stopping>>

Registry ==
    \/ \E n \in Watched : StartWatcher(n)
    \/ \E c \in Clients : StopAll(c) \/ \E n \in Watched : StopWatcher(c, n)
    \/ \E c \in Clients, o \in Observers : StopObserver(c, o)
    \/ \E o \in Observers : Dispatch(o) \/ \E survives \in BOOLEAN : Dispatched(o, survives)

WatchInit == DebounceInit /\ RegistryInit

WatchNext ==
    \/ Debounce /\ UNCHANGED registryVars
    \/ Registry /\ UNCHANGED debounceVars

WatchSpec == WatchInit /\ [][WatchNext]_watchVars

(* The threads run, and time passes; nothing says that anybody changes a file, *)
(* starts or stops a watch, or that a join runs out of time.                   *)
WatchFairness ==
    /\ \A l \in Loops : WF_watchVars(WakeUp(l) /\ UNCHANGED registryVars)
    /\ WF_watchVars(TimePasses /\ UNCHANGED registryVars)

-----------------------------------------------------------------------------
(* A reported path is handed over, or dropped by a stop, however busy the tree *)
(* is: the quiet time may never come, the longest wait does                    *)
(* (Debouncer._next_batch).                                                    *)
ChangesAreDelivered == (pending # {}) ~> (pending = {})

(* While every stop has waited for its thread, there is one loop at most, and  *)
(* it is the one a stop would tell; no batch is empty; and a watch that is on  *)
(* has a loop that has not been told to stop (Debouncer.start, Debouncer.stop).*)
OneLoop ==
    ~ gaveUp =>
        /\ \A l, k \in Loops : Alive(l) /\ Alive(k) => l = k
        /\ \A l \in Loops : Alive(l) => l = current
        /\ \A l \in Loops : loop[l] = "delivering" => handed[l] # {}
        /\ watch = "on" => IsRunning /\ ~ stopped

(* Every observer that still takes events can be stopped: it is the registered *)
(* one of its name, or a client has it in hand to stop it; and a name never    *)
(* leads to an observer that was stopped or serves another name                *)
(* (TriggerManager.start, stop, stop_all).                                     *)
ObserversBelong ==
    /\ \A o \in Observers :
          observer[o] \in {"idle", "busy"} =>
              watchers[serves[o]] = o \/ \E c \in Clients : o \in stopping[c]
    /\ \A n \in Watched :
          watchers[n] # Nobody => serves[watchers[n]] = n /\ observer[watchers[n]] # "leaving"

\* Both kinds of threads
WatchersSound == OneLoop /\ ObserversBelong

-----------------------------------------------------------------------------
(* The inductive invariant behind WatchersSound *)

WatchOK == Nobody \notin Loops \union Observers \union Watched

WatchTypeOK ==
    /\ loop \in [Loops -> {"unborn", "waiting", "settling", "delivering", "gone"}]
    /\ current \in Loops \union {Nobody} /\ stopped \in BOOLEAN /\ gaveUp \in BOOLEAN
    /\ handed \in [Loops -> SUBSET Paths] /\ pending \in SUBSET Paths
    /\ watch \in {"off", "on", "joining"}
    /\ watchers \in [Watched -> Observers \union {Nobody}]
    /\ observer \in [Observers -> {"unborn", "idle", "busy", "leaving", "gone"}]
    /\ serves \in [Observers -> Watched \union {Nobody}]
    /\ stopping \in [Clients -> SUBSET Observers]

\* A loop that waits for quiet has something to hand over, and only a stop takes it away.
LoopHasWork ==
    ~ gaveUp =>
        /\ \A l \in Loops : Alive(l) => l = current
        /\ \A l \in Loops : loop[l] = "delivering" => handed[l] # {}
        /\ \A l \in Loops : loop[l] = "settling" => stopped \/ pending # {}
        /\ watch = "on" => IsRunning /\ ~ stopped
        /\ (watch = "off" /\ current # Nobody) => IsRunning /\ ~ stopped

\* An observer is in one place: under its name, in the hands of one client, or stopped.
OnePlace ==
    /\ \A o \in Observers : observer[o] # "unborn" => serves[o] \in Watched
    /\ \A n \in Watched :
          watchers[n] # Nobody =>
              /\ serves[watchers[n]] = n /\ observer[watchers[n]] \notin {"unborn", "leaving"}
              /\ \A c \in Clients : watchers[n] \notin stopping[c]
    /\ \A c \in Clients : \A o \in stopping[c] :
          /\ observer[o] \notin {"unborn", "leaving"}
          /\ \A d \in Clients : o \in stopping[d] => c = d

WatchInv == WatchTypeOK /\ LoopHasWork /\ OnePlace /\ ObserversBelong
=============================================================================
