----------------------------- MODULE ActionQueue -----------------------------
(* ActionQueue of core/action_queue.py: a table of actions that the workers   *)
(* of any number of processes claim, and finish with ack or nack.             *)
(*                                                                            *)
(* Every operation is one SQLite transaction.  The time it uses was read      *)
(* before it got to the database, so it is any time that has passed.          *)
EXTENDS Integers

CONSTANTS
    Workers,
    MaxRows,      \* bounds the rows that are ever enqueued
    MaxPriority,  \* bounds priority
    MaxAttempts,  \* bounds how often a row is given back
    MaxTime,      \* bounds the clock
    Mortal        \* the workers that may die

ASSUME QueueAssumption ==
    /\ MaxRows \in Nat /\ MaxPriority \in Nat /\ MaxAttempts \in Nat \ {0} /\ MaxTime \in Nat
    /\ Mortal \subseteq Workers

VARIABLES
    clock,
    status,    \* of each row, "unborn" before it is enqueued and "gone" when deleted
    priority,
    runAt,     \* run_at
    attempts,  \* how often the row was claimed, kept when it is gone
    item,      \* item[w]: the row that worker w has claimed, 0 for none
    died,
    dueFirst   \* history: the run_at the row was enqueued with

vars == <<clock, status, priority, runAt, attempts, item, died, dueFirst>>

Rows == 1 .. MaxRows
Status == {"unborn", "ready", "inflight", "dead", "gone"}

Init ==
    /\ clock = 0
    /\ status = [i \in Rows |-> "unborn"]
    /\ priority = [i \in Rows |-> 0]
    /\ runAt = [i \in Rows |-> 0]
    /\ attempts = [i \in Rows |-> 0]
    /\ item = [w \in Workers |-> 0]
    /\ died = {}
    /\ dueFirst = [i \in Rows |-> 0]

-----------------------------------------------------------------------------

\* Bug: INTEGER PRIMARY KEY without AUTOINCREMENT gives ids out again.
IsNextIdOfTable(i) ==
    /\ status[i] \in {"unborn", "gone"}
    /\ \A j \in Rows : j < i => status[j] # "unborn"
    /\ \A j \in Rows : j >= i => status[j] \in {"unborn", "gone"}

\* AUTOINCREMENT
IsNextId(i) == status[i] = "unborn" /\ \A j \in Rows : j < i => status[j] # "unborn"

\* enqueue: run_at is given, or a time.time() from before the insert.
Enqueue(i, p, t) ==
    /\ IsNextId(i)
    /\ status' = [status EXCEPT ![i] = "ready"]
    /\ priority' = [priority EXCEPT ![i] = p]
    /\ runAt' = [runAt EXCEPT ![i] = t]
    /\ dueFirst' = [dueFirst EXCEPT ![i] = t]
    /\ UNCHANGED <<clock, attempts, item, died>>

\* WHERE status='ready' AND run_at<=now
Due(i, now) == status[i] = "ready" /\ runAt[i] <= now

\* ORDER BY priority DESC, id ASC LIMIT 1
First(i, now) ==
    \A j \in Rows : Due(j, now) /\ j # i =>
        priority[i] > priority[j] \/ (priority[i] = priority[j] /\ i < j)

\* UPDATE action_queue SET status='inflight'
Claimed(i) == [status EXCEPT ![i] = "inflight"]

Dequeue(w, i, now) ==
    /\ w \notin died /\ item[w] = 0
    /\ Due(i, now) /\ First(i, now)
    /\ status' = Claimed(i)
    /\ attempts' = [attempts EXCEPT ![i] = @ + 1]
    /\ item' = [item EXCEPT ![w] = i]
    /\ UNCHANGED <<clock, priority, runAt, died, dueFirst>>

\* The worker is done with its row.
Finish(w) == item' = [item EXCEPT ![w] = 0]

Ack(w) ==
    /\ w \notin died /\ item[w] # 0
    /\ status' = [status EXCEPT ![item[w]] = "gone"]
    /\ Finish(w)
    /\ UNCHANGED <<clock, priority, runAt, attempts, died, dueFirst>>

\* Bug: INSERT OR REPLACE brings a purged row back.
NackStatusAlways(i, next) == [status EXCEPT ![i] = next]

\* UPDATE ... WHERE id=?, which finds no row when it was purged meanwhile
NackStatus(i, next) == IF status[i] = "gone" THEN status ELSE [status EXCEPT ![i] = next]

\* nack with requeue and a delay: t is the new run_at.
Requeue(w, t) ==
    /\ w \notin died /\ item[w] # 0
    /\ attempts[item[w]] < MaxAttempts
    /\ status' = NackStatus(item[w], "ready")
    /\ runAt' = IF status[item[w]] = "gone" THEN runAt ELSE [runAt EXCEPT ![item[w]] = t]
    /\ Finish(w)
    /\ UNCHANGED <<clock, priority, attempts, died, dueFirst>>

\* nack with requeue=False; nobody reads the run_at of a dead row.
Bury(w) ==
    /\ w \notin died /\ item[w] # 0
    /\ status' = NackStatus(item[w], "dead")
    /\ Finish(w)
    /\ UNCHANGED <<clock, priority, runAt, attempts, died, dueFirst>>

Purge ==
    /\ \E i \in Rows : status[i] \in {"ready", "inflight", "dead"}
    /\ status' = [i \in Rows |-> IF status[i] = "unborn" THEN "unborn" ELSE "gone"]
    /\ UNCHANGED <<clock, priority, runAt, attempts, item, died, dueFirst>>

\* The worker's process dies, with or without a row.
Die(w) ==
    /\ w \in Mortal \ died
    /\ died' = died \union {w}
    /\ UNCHANGED <<clock, status, priority, runAt, attempts, item, dueFirst>>

Tick ==
    /\ clock < MaxTime
    /\ clock' = clock + 1
    /\ UNCHANGED <<status, priority, runAt, attempts, item, died, dueFirst>>

Next ==
    \/ \E i \in Rows, p \in 0 .. MaxPriority, t \in 0 .. MaxTime : Enqueue(i, p, t)
    \/ \E w \in Workers, i \in Rows, now \in 0 .. clock : Dequeue(w, i, now)
    \/ \E w \in Workers, t \in 0 .. MaxTime : Requeue(w, t)
    \/ \E w \in Workers : Ack(w) \/ Bury(w) \/ Die(w)
    \/ Purge \/ Tick

Spec == Init /\ [][Next]_vars

-----------------------------------------------------------------------------

TypeOK ==
    /\ clock \in 0 .. MaxTime
    /\ status \in [Rows -> Status]
    /\ priority \in [Rows -> 0 .. MaxPriority]
    /\ runAt \in [Rows -> 0 .. MaxTime]
    /\ attempts \in [Rows -> 0 .. MaxAttempts]
    /\ item \in [Workers -> Rows \union {0}]
    /\ died \subseteq Workers
    /\ dueFirst \in [Rows -> 0 .. MaxTime]

\* A worker has the row it has claimed to itself until it has finished it: the row is in
\* flight, or was purged, and no other worker has the same one.  An ack or nack therefore
\* never ends the work of somebody else.
ClaimsAreExclusive ==
    \A w \in Workers : item[w] # 0 =>
        /\ status[item[w]] \in {"inflight", "gone"}
        /\ \A v \in Workers : item[v] = item[w] => v = w

\* A row is in flight only while somebody works at it, unless its worker has died.
InflightHasAWorker ==
    \A i \in Rows : status[i] = "inflight" => \E w \in Workers : item[w] = i

\* What was enqueued first, with no lower a priority and due no later, is claimed first.
NoOvertaking ==
    \A i, j \in Rows :
        i < j /\ priority[i] >= priority[j] /\ dueFirst[i] <= dueFirst[j] /\ attempts[j] > 0 =>
            attempts[i] > 0 \/ status[i] = "gone"

\* What the invariants above rest on: a row that nobody has claimed yet is as it was
\* enqueued, a row that can be claimed has attempts left, and ids are given out in order.
RowsInOrder ==
    /\ \A i \in Rows : attempts[i] = 0 =>
          status[i] \in {"unborn", "ready", "gone"} /\ runAt[i] = dueFirst[i]
    /\ \A i \in Rows : status[i] = "unborn" => attempts[i] = 0
    /\ \A i \in Rows : status[i] = "ready" => attempts[i] < MaxAttempts
    /\ \A w \in Workers : item[w] # 0 => attempts[item[w]] > 0
    /\ \A i, j \in Rows : i < j /\ status[j] # "unborn" => status[i] # "unborn"

QueueInv == ClaimsAreExclusive /\ InflightHasAWorker /\ RowsInOrder /\ NoOvertaking

\* A row that was deleted or buried does not come back.
NoResurrection ==
    [][\A i \in Rows :
          /\ status[i] = "gone" => status'[i] = "gone"
          /\ status[i] = "dead" => status'[i] \in {"dead", "gone"}]_vars
=============================================================================
