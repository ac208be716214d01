--------------------------- MODULE Execution_proofs ---------------------------
(* Proofs about what executes actions.                                         *)
(*                                                                             *)
(* ActionQueue, for any number of workers and rows: claims are exclusive and   *)
(* nothing overtakes.                                                          *)
(*                                                                             *)
(* ActionExecution, for any batch, any number of threads and any thresholds:   *)
(* the guards keep their bounds and the accounts agree.                        *)
(*                                                                             *)
(* Configuration, for any documents, edits and secrets: what is applied is     *)
(* what is on disk once the watcher has nothing left to notice.                *)
(*                                                                             *)
(* ToolServer, for any policies, links, requests and pipelines, and any number *)
(* of messages and changes by others: the policy holds at the moment of every  *)
(* change, and what a call answers is what it did.  What is read in parts,     *)
(* whatever the text and the limits, is whole.                                 *)
(*                                                                             *)
(* ActionServer, for any access list, requests, clients, labels and payloads:  *)
(* what is answered is true.                                                   *)
EXTENDS ActionQueue, ActionExecution, Configuration, ToolServer, ActionServer, FiniteSetTheorems, SequenceTheorems,
        WellFoundedInduction, TLAPS

-----------------------------------------------------------------------------
(* ActionQueue *)

\* Row ids are natural numbers, and 0 is not one of them.
LEMMA RowIds == Rows \subseteq Int /\ 0 \notin Rows
  BY QueueAssumption DEF Rows

\* Every variable keeps its type, and no row is claimed more than MaxAttempts times.
LEMMA StepKeepsTypes == TypeOK /\ QueueInv /\ [Next]_vars => TypeOK'
<1> SUFFICES ASSUME TypeOK, QueueInv, [Next]_vars PROVE TypeOK'
  OBVIOUS
<1> USE QueueAssumption, RowIds DEF TypeOK, Status
<1>1. CASE UNCHANGED vars
  BY <1>1 DEF vars
<1>2. ASSUME NEW i \in Rows, NEW p \in 0 .. MaxPriority, NEW t \in 0 .. MaxTime, Enqueue(i, p, t)
      PROVE  TypeOK'
  BY <1>2 DEF Enqueue
<1>3. ASSUME NEW w \in Workers, NEW i \in Rows, NEW now \in 0 .. clock, Dequeue(w, i, now)
      PROVE  TypeOK'
  <2>1. attempts[i] + 1 \in 0 .. MaxAttempts
    BY <1>3 DEF Dequeue, Due, QueueInv, RowsInOrder
  <2>2. QED
    BY <1>3, <2>1 DEF Dequeue, Claimed
<1>4. ASSUME NEW w \in Workers, NEW t \in 0 .. MaxTime, Requeue(w, t)
      PROVE  TypeOK'
  BY <1>4 DEF Requeue, NackStatus, Finish
<1>5. ASSUME NEW w \in Workers, Ack(w) \/ Bury(w) \/ Die(w)
      PROVE  TypeOK'
  BY <1>5 DEF Ack, Bury, Die, NackStatus, Finish
<1>6. CASE Purge
  BY <1>6 DEF Purge
<1>7. CASE Tick
  BY <1>7 DEF Tick
<1>8. QED
  BY <1>1, <1>2, <1>3, <1>4, <1>5, <1>6, <1>7 DEF Next

\* A claim takes a ready row, which nobody has, and everything else a worker does is to the
\* row that it has itself.
LEMMA StepKeepsClaims ==
    TypeOK /\ QueueInv /\ [Next]_vars => ClaimsAreExclusive' /\ InflightHasAWorker'
<1> SUFFICES ASSUME TypeOK, ClaimsAreExclusive, InflightHasAWorker, [Next]_vars
             PROVE  ClaimsAreExclusive' /\ InflightHasAWorker'
  BY DEF QueueInv
<1> USE QueueAssumption, RowIds DEF TypeOK, ClaimsAreExclusive, InflightHasAWorker
<1>1. CASE UNCHANGED vars
  BY <1>1 DEF vars
<1>2. ASSUME NEW i \in Rows, NEW p \in 0 .. MaxPriority, NEW t \in 0 .. MaxTime, Enqueue(i, p, t)
      PROVE  ClaimsAreExclusive' /\ InflightHasAWorker'
  BY <1>2 DEF Enqueue, IsNextId
<1>3. ASSUME NEW w \in Workers, NEW i \in Rows, NEW now \in 0 .. clock, Dequeue(w, i, now)
      PROVE  ClaimsAreExclusive' /\ InflightHasAWorker'
  BY <1>3 DEF Dequeue, Due, Claimed
<1>4. ASSUME NEW w \in Workers, NEW t \in 0 .. MaxTime, Requeue(w, t)
      PROVE  ClaimsAreExclusive' /\ InflightHasAWorker'
  BY <1>4 DEF Requeue, NackStatus, Finish
<1>5. ASSUME NEW w \in Workers, Ack(w) \/ Bury(w)
      PROVE  ClaimsAreExclusive' /\ InflightHasAWorker'
  <2>1. CASE Ack(w)
    BY <2>1 DEF Ack, Finish
  <2>2. CASE Bury(w)
    BY <2>2 DEF Bury, NackStatus, Finish
  <2>3. QED
    BY <1>5, <2>1, <2>2
<1>6. ASSUME NEW w \in Workers, Die(w)
      PROVE  ClaimsAreExclusive' /\ InflightHasAWorker'
  BY <1>6 DEF Die
<1>7. CASE Purge
  BY <1>7 DEF Purge
<1>8. CASE Tick
  BY <1>8 DEF Tick
<1>9. QED
  BY <1>1, <1>2, <1>3, <1>4, <1>5, <1>6, <1>7, <1>8 DEF Next

\* Rows are born in order, and change only once they have been claimed.
LEMMA StepKeepsOrder == TypeOK /\ QueueInv /\ [Next]_vars => RowsInOrder'
<1> SUFFICES ASSUME TypeOK, ClaimsAreExclusive, RowsInOrder, [Next]_vars
             PROVE  RowsInOrder'
  BY DEF QueueInv
<1> USE QueueAssumption, RowIds DEF TypeOK, RowsInOrder
<1>1. CASE UNCHANGED vars
  BY <1>1 DEF vars
<1>2. ASSUME NEW i \in Rows, NEW p \in 0 .. MaxPriority, NEW t \in 0 .. MaxTime, Enqueue(i, p, t)
      PROVE  RowsInOrder'
  BY <1>2 DEF Enqueue, IsNextId
<1>3. ASSUME NEW w \in Workers, NEW i \in Rows, NEW now \in 0 .. clock, Dequeue(w, i, now)
      PROVE  RowsInOrder'
  BY <1>3 DEF Dequeue, Due, Claimed
<1>4. ASSUME NEW w \in Workers, NEW t \in 0 .. MaxTime, Requeue(w, t)
      PROVE  RowsInOrder'
  BY <1>4 DEF Requeue, NackStatus, Finish, ClaimsAreExclusive
<1>5. ASSUME NEW w \in Workers, Ack(w) \/ Bury(w)
      PROVE  RowsInOrder'
  BY <1>5 DEF Ack, Bury, NackStatus, Finish, ClaimsAreExclusive
<1>6. ASSUME NEW w \in Workers, Die(w)
      PROVE  RowsInOrder'
  BY <1>6 DEF Die
<1>7. CASE Purge
  BY <1>7 DEF Purge
<1>8. CASE Tick
  BY <1>8 DEF Tick
<1>9. QED
  BY <1>1, <1>2, <1>3, <1>4, <1>5, <1>6, <1>7, <1>8 DEF Next

\* A first claim of row j passes every earlier row that could have been claimed instead.
LEMMA StepKeepsTurns == TypeOK /\ QueueInv /\ [Next]_vars => NoOvertaking'
<1> SUFFICES ASSUME TypeOK, QueueInv, [Next]_vars PROVE NoOvertaking'
  OBVIOUS
<1> USE QueueAssumption, RowIds DEF TypeOK, QueueInv, RowsInOrder, NoOvertaking
<1>1. CASE UNCHANGED vars
  BY <1>1 DEF vars
<1>2. ASSUME NEW k \in Rows, NEW p \in 0 .. MaxPriority, NEW t \in 0 .. MaxTime, Enqueue(k, p, t)
      PROVE  NoOvertaking'
  BY <1>2 DEF Enqueue, IsNextId
<1>3. ASSUME NEW w \in Workers, NEW k \in Rows, NEW now \in 0 .. clock, Dequeue(w, k, now)
      PROVE  NoOvertaking'
  <2> SUFFICES ASSUME NEW i \in Rows, NEW j \in Rows, i < j, priority[i] >= priority[j],
                      dueFirst[i] <= dueFirst[j], attempts'[j] > 0,
                      attempts'[i] = 0, status'[i] # "gone"
               PROVE  FALSE
    BY <1>3 DEF Dequeue
  <2>1. i # k /\ attempts[i] = 0 /\ status[i] # "gone"
    BY <1>3 DEF Dequeue, Claimed
  <2>2. j = k /\ attempts[j] = 0
    BY <1>3, <2>1 DEF Dequeue
  <2>3. status[i] = "ready" /\ runAt[i] <= runAt[k] /\ runAt[k] <= now
    BY <1>3, <2>1, <2>2 DEF Dequeue, Due
  <2>4. QED
    BY <1>3, <2>1, <2>2, <2>3 DEF Dequeue, Due, First
<1>4. ASSUME NEW w \in Workers, NEW t \in 0 .. MaxTime, Requeue(w, t)
      PROVE  NoOvertaking'
  BY <1>4 DEF Requeue, NackStatus
<1>5. ASSUME NEW w \in Workers, Ack(w) \/ Bury(w) \/ Die(w)
      PROVE  NoOvertaking'
  BY <1>5 DEF Ack, Bury, Die, NackStatus
<1>6. CASE Purge
  BY <1>6 DEF Purge
<1>7. CASE Tick
  BY <1>7 DEF Tick
<1>8. QED
  BY <1>1, <1>2, <1>3, <1>4, <1>5, <1>6, <1>7 DEF Next

\* Claims are exclusive, rows in flight have a worker and nothing overtakes, for any number
\* of workers, rows and attempts.
THEOREM QueueInvariant == Spec => [](TypeOK /\ QueueInv)
<1>1. Init => TypeOK /\ QueueInv
  BY QueueAssumption, RowIds DEF Init, TypeOK, Status, QueueInv, ClaimsAreExclusive,
                         InflightHasAWorker, RowsInOrder, NoOvertaking
<1>2. TypeOK /\ QueueInv /\ [Next]_vars => (TypeOK /\ QueueInv)'
  BY StepKeepsTypes, StepKeepsClaims, StepKeepsOrder, StepKeepsTurns DEF QueueInv
<1>3. QED
  BY <1>1, <1>2, PTL DEF Spec

\* A deleted row stays deleted and a buried one is never claimed again: nack of a purged row
\* does nothing, and no id is given out twice.
THEOREM RowsStayFinished == Spec => NoResurrection
<1>1. TypeOK /\ QueueInv /\ [Next]_vars =>
          [\A i \in Rows :
              /\ status[i] = "gone" => status'[i] = "gone"
              /\ status[i] = "dead" => status'[i] \in {"dead", "gone"}]_vars
  <2> SUFFICES ASSUME TypeOK, ClaimsAreExclusive, Next, NEW i \in Rows
               PROVE  /\ status[i] = "gone" => status'[i] = "gone"
                      /\ status[i] = "dead" => status'[i] \in {"dead", "gone"}
    BY DEF QueueInv
  <2> USE QueueAssumption, RowIds DEF TypeOK
  <2>1. ASSUME NEW k \in Rows, NEW p \in 0 .. MaxPriority, NEW t \in 0 .. MaxTime, Enqueue(k, p, t)
        PROVE  status[i] \in {"gone", "dead"} => status'[i] = status[i]
    BY <2>1 DEF Enqueue, IsNextId
  <2>2. ASSUME NEW w \in Workers, NEW k \in Rows, NEW now \in 0 .. clock, Dequeue(w, k, now)
        PROVE  status[i] \in {"gone", "dead"} => status'[i] = status[i]
    BY <2>2 DEF Dequeue, Due, Claimed
  <2>3. ASSUME NEW w \in Workers,
               (\E t \in 0 .. MaxTime : Requeue(w, t)) \/ Ack(w) \/ Bury(w) \/ Die(w)
        PROVE  status[i] \in {"gone", "dead"} => status'[i] = status[i]
    BY <2>3 DEF Requeue, Ack, Bury, Die, NackStatus, ClaimsAreExclusive
  <2>4. CASE Purge \/ Tick
    BY <2>4 DEF Purge, Tick
  <2>5. QED
    BY <2>1, <2>2, <2>3, <2>4 DEF Next
<1>2. QED
  BY <1>1, QueueInvariant, PTL DEF Spec, NoResurrection

-----------------------------------------------------------------------------
(* ActionExecution *)

ExecSpec == ExecInit /\ [][ExecNext]_execVars

Stages == {"queued", "limiter", "breaker", "calling", "returned", "failed", "done"}

ExecTypes ==
    /\ batch \in Batches
    /\ phase \in {"new", "running", "rejected", "done"}
    /\ at \in [Items -> Stages]
    /\ attempt \in [Items -> Nat]
    /\ results \in [Items -> {"none", "value", "error", "dry"}]
    /\ failures \in Nat
    /\ metrics \in [ok : Nat, error : Nat]
    /\ state \in {"closed", "open", "half_open"} /\ count \in Nat /\ recovered \in BOOLEAN
    /\ tokens \in 0..Capacity /\ time \in Nat /\ granted \in Nat
    /\ trials \subseteq Items

\* The circuit counts what its state says, its trials are under way, every token taken came from the
\* burst or from a tick, and no call is tried too often.
GuardsInv ==
    /\ IF state = "closed" THEN count < FailureThreshold ELSE count > 0
    /\ state = "half_open" => \A i \in trials : at[i] = "calling"
    /\ granted + tokens <= Capacity + time
    /\ \A i \in Items : attempt[i] <= MaxTries

\* What is done has a result; the totals count what is done.
AccountsInv ==
    /\ failures = metrics.error
    /\ batch.mode # "dry" => failures = Cardinality(Recorded("error")) /\ metrics.ok = Cardinality(Recorded("value"))
    /\ \A i \in Items : at[i] = "done" => results[i] # "none"

\* Nothing is under way before the first action, after the last, or in a rehearsal.
PhasesInv ==
    /\ phase \in {"new", "rejected"} => \A i \in Items : at[i] = "queued"
    /\ phase = "done" => \A i \in Items : at[i] = "done"
    /\ batch.mode = "dry" => \A i \in Items : at[i] \in {"queued", "done"}
    /\ (phase \in {"new", "rejected"} \/ batch.mode = "dry") => granted = 0 /\ failures = 0

\* Without threads an action begins when all before it are done.
OneByOne == batch.mode # "parallel" => \A i, j \in Items : i < j /\ at[j] # "queued" => at[i] = "done"

ExecInv == ExecTypes /\ GuardsInv /\ AccountsInv /\ PhasesInv /\ OneByOne

\* The actions of a batch are finitely many.
LEMMA ItemsAreFinite == ExecTypes => IsFiniteSet(Items)
<1> SUFFICES ASSUME ExecTypes PROVE IsFiniteSet(Items)
  OBVIOUS
<1>1. batch.actions \in Seq({"call", "unknown", "malformed"})
  BY ExecutionAssumption DEF ExecTypes
<1>2. Items = 1..Len(batch.actions) /\ Len(batch.actions) \in Nat
  BY <1>1 DEF Items
<1> QED
  BY <1>2, FS_Interval

\* A step that neither starts from a result nor ends with one leaves what is recorded alone.
LEMMA NothingRecorded ==
    ASSUME ExecTypes, NEW i \in Items, NEW v \in Stages, at[i] # "done", v # "done",
           at' = [at EXCEPT ![i] = v], batch' = batch, results' = results, NEW s
    PROVE  Recorded(s)' = Recorded(s)
BY DEF ExecTypes, Recorded, Items

\* The finally of _run_one counts the action under its status and under no other.
LEMMA RecordCounts ==
    ASSUME ExecTypes, AccountsInv, batch.mode # "dry", NEW i \in Items, Record(i)
    PROVE  failures' = Cardinality(Recorded("error")') /\ metrics'.ok = Cardinality(Recorded("value")')
<1>1. /\ at[i] \in {"returned", "failed"} /\ at' = [at EXCEPT ![i] = "done"]
      /\ results' = [results EXCEPT ![i] = IF at[i] = "failed" THEN "error" ELSE "value"]
      /\ batch' = batch
  BY DEF Record
<1>2. IsFiniteSet(Recorded("error")) /\ IsFiniteSet(Recorded("value"))
  <2>1. Recorded("error") \subseteq Items /\ Recorded("value") \subseteq Items
    BY DEF Recorded
  <2> QED
    BY <2>1, ItemsAreFinite, FS_Subset
<1>3. i \notin Recorded("error") /\ i \notin Recorded("value")
  BY <1>1 DEF Recorded
<1>4. CASE at[i] = "failed"
  <2>1. Recorded("error")' = Recorded("error") \union {i}
    BY <1>1, <1>4 DEF ExecTypes, Recorded, Items
  <2>2. Recorded("value")' = Recorded("value")
    BY <1>1, <1>4 DEF ExecTypes, Recorded, Items
  <2>3. failures' = failures + 1 /\ metrics'.ok = metrics.ok
    BY <1>4 DEF Record, IsFailure, ExecTypes
  <2> QED
    BY <1>2, <1>3, <2>1, <2>2, <2>3, FS_AddElement DEF AccountsInv
<1>5. CASE at[i] = "returned"
  <2>1. Recorded("value")' = Recorded("value") \union {i}
    BY <1>1, <1>5 DEF ExecTypes, Recorded, Items
  <2>2. Recorded("error")' = Recorded("error")
    BY <1>1, <1>5 DEF ExecTypes, Recorded, Items
  <2>3. failures' = failures /\ metrics'.ok = metrics.ok + 1
    BY <1>5 DEF Record, IsFailure, ExecTypes
  <2> QED
    BY <1>2, <1>3, <2>1, <2>2, <2>3, FS_AddElement DEF AccountsInv
<1> QED
  BY <1>1, <1>4, <1>5

\* Everything but AccountsInv, one action at a time
LEMMA ExecutorSteps ==
    ASSUME ExecInv, [ExecNext]_execVars
    PROVE  ExecTypes' /\ GuardsInv' /\ PhasesInv'
<1> USE ExecutionAssumption DEF ExecInv, ExecTypes, GuardsInv, PhasesInv, Stages, breaker
<1>1. CASE UNCHANGED execVars
  BY <1>1 DEF execVars, Items
<1>2. CASE Execute
  BY <1>2 DEF Execute, Items
<1>3. CASE Return
  BY <1>3 DEF Return, Items
<1>4. CASE TimePasses
  BY <1>4 DEF TimePasses, Refilled, Min2, Items
<1>5. CASE Reset
  <2>1. UNCHANGED <<batch, phase, at, attempt, results, failures, metrics, tokens, time, granted, trials>>
    BY <1>5 DEF Reset
  <2>2. state' = "closed" /\ count' = 0 /\ recovered' = FALSE
    BY <1>5 DEF Reset
  <2>3. ExecTypes'
    BY <2>1, <2>2 DEF Items
  <2>4. GuardsInv'
    BY <2>1, <2>2 DEF Items
  <2>5. PhasesInv'
    BY <2>1 DEF Items
  <2> QED
    BY <2>3, <2>4, <2>5
<1>6. ASSUME NEW i \in Items, Step(i)
      PROVE  ExecTypes' /\ GuardsInv' /\ PhasesInv'
  <2>0. batch' = batch /\ phase' = phase /\ Items' = Items
    BY <1>6 DEF Step, RunDry, RunOne, Record, Acquire, AcquireTimesOut, Enter, ShortCircuit, Retry, OnSuccess,
                OnFailure, Surface, Items
  <2>1. CASE RunDry(i)
    BY <2>0, <2>1 DEF RunDry
  <2>2. CASE RunOne(i)
    BY <2>0, <2>2 DEF RunOne
  <2>3. CASE Record(i)
    <3>1. phase \notin {"new", "rejected"} /\ batch.mode # "dry"
      BY <2>3 DEF Record
    <3>2. metrics' \in [ok : Nat, error : Nat] /\ failures' \in Nat
      BY <2>3 DEF Record
    <3>3. ExecTypes'
      BY <2>0, <2>3, <3>2 DEF Record
    <3>4. PhasesInv'
      BY <2>0, <2>3, <3>1 DEF Record
    <3>5. GuardsInv'
      BY <2>0, <2>3 DEF Record
    <3> QED
      BY <3>3, <3>4, <3>5
  <2>4. CASE Acquire(i)
    BY <2>0, <2>4 DEF Acquire, Granted
  <2>5. CASE AcquireTimesOut(i)
    BY <2>0, <2>5 DEF AcquireTimesOut
  <2>6. CASE Enter(i)
    BY <2>0, <2>6 DEF Enter, StateNow
  <2>7. CASE ShortCircuit(i)
    BY <2>0, <2>7 DEF ShortCircuit, StateNow
  <2>8. CASE Retry(i)
    BY <2>0, <2>8 DEF Retry
  <2>9. CASE OnSuccess(i)
    BY <2>0, <2>9 DEF OnSuccess, EndOf
  <2>10. CASE OnFailure(i)
    BY <2>0, <2>10 DEF OnFailure, Opens
  <2>11. CASE Surface(i)
    BY <2>0, <2>11 DEF Surface
  <2> QED
    BY <1>6, <2>1, <2>2, <2>3, <2>4, <2>5, <2>6, <2>7, <2>8, <2>9, <2>10, <2>11 DEF Step
<1> QED
  BY <1>1, <1>2, <1>3, <1>4, <1>5, <1>6 DEF ExecNext

\* What is recorded changes only as Record counts it, and in a rehearsal.
LEMMA AccountsStep == ASSUME ExecInv, [ExecNext]_execVars PROVE AccountsInv'
<1> USE DEF ExecInv
<1>1. CASE UNCHANGED <<batch, at, results, failures, metrics>>
  BY <1>1 DEF AccountsInv, Recorded, Items
<1>2. ASSUME NEW i \in Items, Step(i), ~UNCHANGED <<batch, at, results, failures, metrics>>
      PROVE  AccountsInv'
  <2>1. CASE RunDry(i)
    BY <2>1 DEF RunDry, AccountsInv, ExecTypes, Items
  <2>2. CASE Record(i)
    <3>1. batch' = batch /\ batch.mode # "dry"
      BY <2>2 DEF Record, PhasesInv
    <3>2. failures' = metrics'.error
      <4>1. CASE at[i] = "failed"
        BY <2>2, <4>1 DEF Record, IsFailure, AccountsInv, ExecTypes
      <4>2. CASE at[i] # "failed"
        BY <2>2, <4>2 DEF Record, IsFailure, AccountsInv, ExecTypes
      <4> QED
        BY <4>1, <4>2
    <3>3. \A j \in Items' : at'[j] = "done" => results'[j] # "none"
      BY <2>2 DEF Record, AccountsInv, ExecTypes, Items
    <3> QED
      BY <2>2, <3>1, <3>2, <3>3, RecordCounts DEF AccountsInv
  <2>3. CASE ~RunDry(i) /\ ~Record(i)
    <3>1. /\ at[i] # "done" /\ \E v \in Stages \ {"done"} : at' = [at EXCEPT ![i] = v]
          /\ UNCHANGED <<batch, results, failures, metrics>>
      BY <1>2, <2>3 DEF Step, RunOne, Acquire, Granted, AcquireTimesOut, Enter, ShortCircuit, Retry, OnSuccess,
                        OnFailure, Surface, EndOf, Stages
    <3>2. Recorded("error")' = Recorded("error") /\ Recorded("value")' = Recorded("value")
      BY <3>1, NothingRecorded
    <3> QED
      BY <3>1, <3>2 DEF AccountsInv, ExecTypes, Items
  <2> QED
    BY <1>2, <2>1, <2>2, <2>3
<1> QED
  BY <1>1, <1>2 DEF ExecNext, execVars, Execute, Return, TimePasses, Reset

\* An action that is not done is the last to have begun, unless there are threads.
LEMMA OneByOneStep == ASSUME ExecInv, [ExecNext]_execVars PROVE OneByOne'
<1> USE DEF ExecInv
<1>1. CASE UNCHANGED <<batch, at>>
  BY <1>1 DEF OneByOne, Items
<1>2. ASSUME NEW i \in Items, Step(i) PROVE OneByOne'
  <2>1. batch' = batch /\ Items' = Items /\ Items \subseteq Int
    <3>1. batch' = batch
      BY <1>2 DEF Step, RunDry, RunOne, Record, Acquire, AcquireTimesOut, Enter, ShortCircuit, Retry, OnSuccess,
                  OnFailure, Surface
    <3>2. batch.actions \in Seq({"call", "unknown", "malformed"})
      BY ExecutionAssumption DEF ExecTypes
    <3> QED
      BY <3>1, <3>2 DEF Items
  <2>2. CASE UNCHANGED at
    BY <2>1, <2>2 DEF OneByOne
  <2>3. CASE at[i] = "queued" /\ Next1(i) /\ \E v \in Stages : at' = [at EXCEPT ![i] = v]
    <3>1. ASSUME batch.mode # "parallel", NEW k \in Items, NEW j \in Items, k < j, at'[j] # "queued"
          PROVE  at'[k] = "done"
      <4>1. CASE j = i
        <5>1. k \in 1..(i - 1)
          BY <2>1, <3>1, <4>1, ExecutionAssumption DEF ExecTypes, Items
        <5> QED
          BY <2>3, <3>1, <4>1, <5>1 DEF Next1, ExecTypes
      <4>2. CASE j # i
        BY <2>3, <3>1, <4>2 DEF OneByOne, ExecTypes
      <4> QED
        BY <4>1, <4>2
    <3> QED
      BY <2>1, <3>1 DEF OneByOne
  <2>4. CASE at[i] \notin {"queued", "done"} /\ \E v \in Stages \ {"queued"} : at' = [at EXCEPT ![i] = v]
    BY <2>1, <2>4 DEF OneByOne, ExecTypes
  <2> QED
    BY <1>2, <2>2, <2>3, <2>4 DEF Step, RunDry, RunOne, Record, Acquire, Granted, AcquireTimesOut, Enter,
       ShortCircuit, Retry, OnSuccess, OnFailure, Surface, EndOf, Stages
<1> QED
  BY <1>1, <1>2 DEF ExecNext, execVars, Execute, Return, TimePasses, Reset

\* A new batch has done nothing.
LEMMA ExecutorStarts == ExecInit => ExecInv
<1> SUFFICES ASSUME ExecInit PROVE ExecInv
  OBVIOUS
<1>1. Recorded("error") = {} /\ Recorded("value") = {}
  BY DEF ExecInit, Recorded
<1>2. ExecTypes
  <2>1. metrics \in [ok : Nat, error : Nat]
    BY DEF ExecInit
  <2>2. tokens \in 0..Capacity
    BY ExecutionAssumption DEF ExecInit
  <2> QED
    BY <2>1, <2>2 DEF ExecInit, ExecTypes, Stages
<1>3. GuardsInv
  BY ExecutionAssumption DEF ExecInit, GuardsInv
<1>4. AccountsInv
  BY <1>1, FS_EmptySet DEF ExecInit, AccountsInv
<1>5. PhasesInv
  BY DEF ExecInit, PhasesInv
<1>6. OneByOne
  BY DEF ExecInit, OneByOne
<1> QED
  BY <1>2, <1>3, <1>4, <1>5, <1>6 DEF ExecInv

\* The inductive invariant holds throughout.
THEOREM ExecutorInvariant == ExecSpec => []ExecInv
<1>1. ExecInv /\ [ExecNext]_execVars => ExecInv'
  BY ExecutorSteps, AccountsStep, OneByOneStep DEF ExecInv
<1> QED
  BY ExecutorStarts, <1>1, PTL DEF ExecSpec

\* ExecutorSound, for any batch, pool and thresholds, and however calls that were let through in
\* different states of the circuit overtake each other.
THEOREM GuardsAndAccounts == ExecSpec => []ExecutorSound
<1>1. ExecInv => ExecutorSound
  <2> SUFFICES ASSUME ExecInv PROVE ExecutorSound
    OBVIOUS
  <2>1. GuardsHold
    <3>1. Items \subseteq Int
      BY ExecutionAssumption DEF ExecInv, ExecTypes, Items
    <3>2. ASSUME state = "half_open", batch.mode # "parallel", NEW i \in trials, NEW j \in trials PROVE i = j
      BY <3>1, <3>2 DEF ExecInv, ExecTypes, GuardsInv, OneByOne
    <3> QED
      BY <3>2, ExecutionAssumption DEF ExecInv, ExecTypes, GuardsInv, GuardsHold
  <2>2. AccountsAgree
    BY DEF ExecInv, AccountsInv, PhasesInv, AccountsAgree
  <2> QED
    BY <2>1, <2>2 DEF ExecutorSound
<1> QED
  BY ExecutorInvariant, <1>1, PTL

-----------------------------------------------------------------------------
(* Configuration *)

ConfigSpec == ConfigInit /\ [][ConfigNext]_configVars

ConfigTypes ==
    /\ stamp \in Nat \ {0}
    /\ watcher \in [pc : {"off", "loaded", "polling", "reload", "apply", "dead"}, seen : Nat,
                    doc : ConfigFiles \union {NoFile}]
    /\ watcher.seen <= stamp
    /\ file \in ConfigFiles \union {NoFile}
    /\ manager = [sinks |-> manager.sinks, dedup |-> manager.dedup, routes |-> manager.routes, of |-> manager.of]

\* Nothing is left to do for a document.
Applied(doc) == manager.of = doc \/ ~Builds(doc, manager.sinks) \/ doc.dedup = "bad"

RoutesInv == \A r \in manager.routes : r \subseteq manager.sinks

\* Every edit has a stamp of its own, so the one that was seen last still tells the file apart: what
\* is about to be applied is newer or is on disk, and what a quiet thread has seen has been applied,
\* once the caller of start has applied its own document and if that was still on disk.
SeenInv ==
    /\ watcher.pc = "loaded" => watcher.doc.text = "toml"
    /\ (watcher.pc = "apply" /\ watcher.seen = stamp) => file = NoFile \/ watcher.doc = file
    /\ (watcher.pc = "polling" /\ watcher.seen = stamp /\ caller = NoFile /\ ~outdated) =>
           file = NoFile \/ file.text # "toml" \/ file.secret \/ Applied(file)
    /\ watcher.pc = "dead" => Escapes(watcher.doc)

ConfigInv == ConfigTypes /\ RoutesInv /\ SeenInv

\* apply_to leaves nothing to do for its document, and no route without its sinks.
LEMMA ApplyToApplies ==
    ASSUME ConfigTypes, RoutesInv, NEW doc, manager' = ApplyTo(doc)
    PROVE  /\ Applied(doc)'
           /\ RoutesInv'
           /\ manager' = [sinks |-> manager'.sinks, dedup |-> manager'.dedup, routes |-> manager'.routes, of |-> manager'.of]
<1>1. CASE ~Builds(doc, manager.sinks)
  BY <1>1 DEF ConfigTypes, RoutesInv, ApplyTo, Applied
<1>2. CASE Builds(doc, manager.sinks) /\ doc.dedup = "bad"
  <2>1. manager' = [manager EXCEPT !.sinks = @ \union Declared(doc), !.of = NoFile]
    BY <1>2 DEF ApplyTo
  <2>2. manager' = [sinks |-> manager.sinks \union Declared(doc), dedup |-> manager.dedup,
                    routes |-> manager.routes, of |-> NoFile]
    BY <2>1 DEF ConfigTypes
  <2> QED
    BY <1>2, <2>2 DEF RoutesInv, Applied
<1>3. CASE Builds(doc, manager.sinks) /\ doc.dedup # "bad"
  <2>1. /\ manager'.of = doc /\ manager'.routes = doc.routes
        /\ manager'.sinks = manager.sinks \union Declared(doc)
        /\ manager' = [sinks |-> manager'.sinks, dedup |-> manager'.dedup, routes |-> manager'.routes, of |-> manager'.of]
    BY <1>3 DEF ApplyTo
  <2> QED
    BY <1>3, <2>1 DEF RoutesInv, Applied, Builds
<1> QED
  BY <1>1, <1>2, <1>3

\* The thread never sees a stamp that is still to come.
LEMMA Seeing == ConfigTypes => Fingerprint \in Nat /\ Fingerprint <= stamp
BY DEF ConfigTypes, Fingerprint

\* One action at a time
LEMMA ConfigSteps == ASSUME ConfigInv, [ConfigNext]_configVars PROVE ConfigInv'
<1> USE DEF ConfigInv
<1>1. CASE UNCHANGED configVars
  BY <1>1 DEF configVars, ConfigTypes, RoutesInv, SeenInv, Applied
<1>2. CASE Start
  BY <1>2 DEF Start, Loads, ConfigTypes, RoutesInv, SeenInv
<1>3. CASE StartFails
  BY <1>1, <1>3 DEF StartFails
<1>4. CASE Arm
  <2>1. /\ watcher' = [watcher EXCEPT !.pc = "polling", !.seen = Fingerprint]
        /\ watcher.pc = "loaded" /\ caller' = watcher.doc /\ UNCHANGED <<file, stamp, manager, outdated>>
    BY <1>4 DEF Arm
  <2>2. watcher.doc # NoFile
    BY <2>1 DEF SeenInv, NoFile
  <2> QED
    BY <2>1, <2>2, Seeing DEF ConfigTypes, RoutesInv, SeenInv
<1>5. CASE ApplyInitial
  <2>1. /\ manager' = ApplyTo(caller) /\ UNCHANGED <<file, stamp, watcher>>
        /\ outdated' \/ file = caller
    BY <1>5, Zenon DEF ApplyInitial
  <2> QED
    BY <2>1, ApplyToApplies DEF ConfigTypes, SeenInv, Applied
<1>6. CASE Notice
  <2>1. /\ watcher' = [watcher EXCEPT !.pc = "reload", !.seen = Fingerprint]
        /\ UNCHANGED <<file, stamp, manager>>
    BY <1>6 DEF Notice
  <2> QED
    BY <2>1, Seeing DEF ConfigTypes, RoutesInv, SeenInv
<1>7. CASE Reload
  BY <1>7 DEF Reload, Loads, Resolves, ConfigTypes, RoutesInv, SeenInv, Applied
<1>8. CASE ReloadEscapes
  BY <1>8 DEF ReloadEscapes, Escapes, ConfigTypes, RoutesInv, SeenInv
<1>9. CASE OnChange
  <2>1. /\ manager' = ApplyTo(watcher.doc) /\ watcher.pc = "apply" /\ UNCHANGED <<file, stamp>>
        /\ \/ watcher' = [watcher EXCEPT !.pc = "dead"] /\ Escapes(watcher.doc)
           \/ watcher' = [watcher EXCEPT !.pc = "polling"]
    BY <1>9 DEF OnChange, HandedOn
  <2>2. Applied(watcher.doc)' /\ RoutesInv' /\ ConfigTypes'
    <3>1. Applied(watcher.doc)'
      BY <2>1, ApplyToApplies DEF Applied, ConfigTypes
    <3> QED
      BY <2>1, <3>1, ApplyToApplies DEF ConfigTypes
  <2>3. SeenInv'
    BY <2>1, <2>2 DEF SeenInv, ConfigTypes, Applied, Escapes
  <2> QED
    BY <2>2, <2>3
<1>10. CASE Stop
  BY <1>10 DEF Stop, ConfigTypes, RoutesInv, SeenInv, Applied
<1>11. CASE Rotate
  BY <1>11 DEF Rotate, ConfigTypes, RoutesInv, SeenInv, Applied
<1>12. ASSUME NEW doc \in ConfigFiles \union {NoFile}, Edit(doc)
       PROVE  ConfigInv'
  BY <1>12 DEF Edit, ConfigTypes, RoutesInv, SeenInv, Applied
<1> QED
  BY <1>1, <1>2, <1>3, <1>4, <1>5, <1>6, <1>7, <1>8, <1>9, <1>10, <1>11, <1>12 DEF ConfigNext

\* ConfigCatchesUp, for any documents, however edits, secrets, the thread and the caller of start
\* interleave.
THEOREM ConfigIsCaughtUp == ConfigSpec => []ConfigCatchesUp
<1>1. ConfigInit => ConfigInv
  BY DEF ConfigInit, Idle, Nobody, ConfigInv, ConfigTypes, RoutesInv, SeenInv
<1>2. ConfigInv /\ [ConfigNext]_configVars => ConfigInv'
  BY ConfigSteps
<1>3. ConfigInv => ConfigCatchesUp
  BY DEF ConfigInv, ConfigTypes, RoutesInv, SeenInv, Applied, ConfigCatchesUp, Fingerprint, Loads, Resolves,
     NoFile
<1> QED
  BY <1>1, <1>2, <1>3, PTL DEF ConfigSpec

-----------------------------------------------------------------------------
(* ToolServer: what the policy's checks say *)

ToolSpec == ToolInit /\ [][ToolNext]_toolVars

\* Where the policy lets the server work
MayTouch(path) == \E root \in policy.roots : PathBelow(root, RealPath[path])

\* Nothing is wrong when neither of two checks finds a problem.
LEMMA NoneOfTwo == \A x, y : x ?? y = "" => x = "" /\ y = ""
BY DEF ??

\* A check that finds nothing wrong has found what it asks for.
LEMMA PermissionFacts ==
    /\ RequireWrite = "" => policy.write
    /\ RequireOverwrite = "" => policy.write /\ policy.overwrite
    /\ RequireDelete = "" => policy.write /\ policy.delete
    /\ \A path : Resolve(path) = "" => MayTouch(path)
    /\ \A path : ExistingFile(path) = "" => IsFile(path)
    /\ \A path, o : Replaceable(path, o) = "" => (IsFile(path) => policy.overwrite)
<1>1. RequireWrite = "" => policy.write
  BY DEF RequireWrite, Unless
<1>2. RequireOverwrite = "" => policy.write /\ policy.overwrite
  BY <1>1 DEF RequireOverwrite, Unless, ??
<1>3. RequireDelete = "" => policy.write /\ policy.delete
  BY <1>1 DEF RequireDelete, Unless, ??
<1>4. ASSUME NEW path, Resolve(path) = ""
      PROVE  MayTouch(path)
  <2>1. \E root \in Candidates(path) : PathBelow(root, RealPath[path])
    BY <1>4 DEF Resolve, Unless, ??
  <2> QED
    BY <2>1 DEF Candidates, MayTouch
<1>5. ASSUME NEW path, ExistingFile(path) = ""
      PROVE  IsFile(path)
  BY <1>5 DEF ExistingFile, Unless, ??
<1>6. ASSUME NEW path, NEW o, Replaceable(path, o) = "", IsFile(path)
      PROVE  policy.overwrite
  <2>1. RequireOverwrite = ""
    <3>1. (IF IsFile(path) THEN RequireOverwrite ELSE "") = ""
      BY <1>6, NoneOfTwo DEF Replaceable
    <3> QED
      BY <1>6, <3>1
  <2> QED
    BY <2>1, <1>2
<1> QED
  BY <1>1, <1>2, <1>3, <1>4, <1>5, <1>6

\* A prefix agrees with the sequence as far as it goes.
LEMMA PrefixFacts ==
    ASSUME NEW s \in Seq(STRING), NEW t \in Seq(STRING)
    PROVE  IsPrefix(s, t) <=> Len(s) <= Len(t) /\ \A i \in 1..Len(s) : s[i] = t[i]
<1> SUFFICES ASSUME Len(s) <= Len(t)
             PROVE  SubSeq(s, 1, Len(s)) = SubSeq(t, 1, Len(s)) <=> \A i \in 1..Len(s) : s[i] = t[i]
  BY DEF IsPrefix
<1> DEFINE u == SubSeq(s, 1, Len(s))
           v == SubSeq(t, 1, Len(s))
<1>1. u \in Seq(STRING) /\ Len(u) = Len(s) /\ \A i \in 1..Len(s) : u[i] = s[i]
  BY SubSeqProperties
<1>2. v \in Seq(STRING) /\ Len(v) = Len(s) /\ \A i \in 1..Len(s) : v[i] = t[i]
  BY SubSeqProperties
<1> HIDE DEF u, v
<1>3. (\A i \in 1..Len(s) : s[i] = t[i]) => u = v
  BY <1>1, <1>2, SeqEqual
<1>4. u = v => \A i \in 1..Len(s) : s[i] = t[i]
  BY <1>1, <1>2
<1> QED
  BY <1>3, <1>4 DEF u, v

\* A path that was moved with its directory is below the new directory.
LEMMA MovedBelow ==
    ASSUME NEW q \in Seq(STRING), NEW source \in Seq(STRING), NEW target \in Seq(STRING)
    PROVE  PathBelow(target, Moved(q, source, target))
<1> DEFINE rest == SubSeq(q, Len(source) + 1, Len(q))
<1>1. rest \in Seq(STRING)
  BY SubSeqProperties
<1> HIDE DEF rest
<1>2. /\ target \o rest \in Seq(STRING) /\ Len(target) <= Len(target \o rest)
      /\ \A i \in 1..Len(target) : (target \o rest)[i] = target[i]
  BY <1>1, ConcatProperties
<1> QED
  BY <1>2, PrefixFacts DEF rest, Moved, PathBelow

\* What lies below a directory the server may work in is below one of its roots.
LEMMA BelowFacts ==
    ASSUME policy \in Policies, NEW d \in DOMAIN RealPath, MayTouch(d), NEW q \in Paths, PathBelow(d, q)
    PROVE  MayTouch(q)
<1>1. PICK root \in policy.roots : PathBelow(root, RealPath[d])
  BY DEF MayTouch
<1>2. IsPrefix(RealPath[d], RealPath[q])
  BY ToolAssumption DEF PathBelow
<1>3. root \in Seq(STRING) /\ RealPath[d] \in Seq(STRING) /\ RealPath[q] \in Seq(STRING)
  BY ToolAssumption
<1>4. IsPrefix(root, RealPath[q])
  <2>1. Len(root) <= Len(RealPath[d]) /\ \A i \in 1..Len(root) : root[i] = RealPath[d][i]
    BY <1>1, <1>3, PrefixFacts DEF PathBelow
  <2>2. Len(RealPath[d]) <= Len(RealPath[q]) /\ \A i \in 1..Len(RealPath[d]) : RealPath[d][i] = RealPath[q][i]
    BY <1>2, <1>3, PrefixFacts
  <2>3. Len(root) \in Nat /\ Len(RealPath[d]) \in Nat /\ Len(RealPath[q]) \in Nat
    BY <1>3
  <2>4. Len(root) <= Len(RealPath[q])
    BY <2>1, <2>2, <2>3
  <2>5. \A i \in 1..Len(root) : root[i] = RealPath[q][i]
    <3> TAKE i \in 1..Len(root)
    <3>1. i \in 1..Len(RealPath[d])
      BY <2>1, <2>3
    <3> QED
      BY <2>1, <2>2, <3>1
  <2> QED
    BY <1>3, <2>4, <2>5, PrefixFacts
<1> QED
  BY <1>4 DEF MayTouch, PathBelow

-----------------------------------------------------------------------------
(* ToolServer: the inductive invariant *)

Contents == {"old", Absent, "written", "damaged", "task"} \union Foreign

Writers == SemanticTools \ ReadOnlyTools

\* Any string; the provers do not know of a literal that it is one.
Word == STRING \union {"list", ""}

Request ==
    [method : Word, id : BOOLEAN, tool : Word, good : BOOLEAN, source : DOMAIN RealPath,
     target : DOMAIN RealPath, size : Nat, overwrite : BOOLEAN, dry : BOOLEAN,
     verify : BOOLEAN, background : BOOLEAN, document : Definition]

Answers == {"none", "result", "error", "refused", "rpc_error"}

Phases == {"acting", "compare", "remove", "waiting", "done"}

Call ==
    [request : Request, phase : Phases, answer : Answers, replaced : BOOLEAN, seen : Contents, tree : BOOLEAN,
     touched : SUBSET Paths, changed : SUBSET DOMAIN RealPath]

Run ==
    [tasks : Seq(Task), step : {"check", "write"}, nested : SUBSET STRING,
     status : {"none", "running", "failed", "succeeded"}]

ToolTypes ==
    /\ policy \in Policies
    /\ files \in [Paths -> Contents]
    /\ plan \in Definition
    /\ call \in Call
    /\ run \in Run
    /\ made \in Nat /\ foreign \in Nat

IsTransfer == call.request.tool \in {"file_copy", "file_move", "storage_copy"} /\ ~call.tree

\* A message in hand was checked against the policy, which does not change.
CallVetted ==
    call.phase \in {"acting", "compare", "remove"} =>
        /\ call.request.tool \in Writers /\ ~call.request.dry
        /\ policy.write
        /\ call.request.tool = "file_write" => MayTouch(call.request.target)
        /\ call.request.tool = "file_move" => policy.delete
        /\ IsTransfer => /\ MayTouch(call.request.source) /\ MayTouch(call.request.target)
                         /\ call.request.source # call.request.target
        /\ call.tree => call.request.tool = "storage_copy" /\ MayTouch(call.request.target)
        /\ call.replaced /\ (IsTransfer \/ call.request.tool = "file_write") => policy.overwrite

Collides(p) == IsFile(Moved(p, call.request.source, call.request.target))

\* Collisions that were not there when they were counted come from somebody else.
CollisionsCounted ==
    (call.phase = "acting" /\ call.tree /\ call.request.overwrite /\ ~policy.overwrite) =>
        \A p \in FilesBelow(call.request.source) :
            Collides(p) => {p, Moved(p, call.request.source, call.request.target)} \intersect call.touched # {}

\* A transfer is verified after it has written and before it removes anything.
PhaseInv ==
    /\ call.phase \in {"acting", "waiting"} => call.changed = {}
    /\ call.phase = "waiting" => call.request.tool = "pipeline_run"
    /\ call.phase \in {"compare", "remove"} =>
           IsTransfer /\ call.request.verify /\ call.changed = {call.request.target}
    /\ call.phase = "remove" =>
           /\ call.request.tool = "file_move"
           /\ call.touched = {} => files[call.request.target] = call.seen

\* The stored definition a run is about to read was checked again.
PlanVetted ==
    (Acts({"pipeline_run"}) /\ plan # NoPlan) => ActionRefusals(plan) = ""

\* A task that is about to write was checked against the policy.
TaskVetted(t) ==
    /\ t.name # "read_text" => policy.write /\ MayTouch(t.target)
    /\ t.name = "move" => MayTouch(t.source)
    /\ t.name \in {"move", "delete"} => policy.delete
    /\ t.name = "sync" => policy.overwrite

RunVetted == (run.tasks # <<>> /\ run.step = "write") => TaskVetted(Head(run.tasks))

ToolInv ==
    /\ ToolTypes /\ CallVetted /\ CollisionsCounted /\ PhaseInv /\ PlanVetted /\ RunVetted
    /\ OnlyAllowedTasks /\ OutcomeIsTrue

-----------------------------------------------------------------------------
(* ToolServer: what the writing operators change *)

\* A tree copy writes below its target, removes nothing, and replaces only when it is told to.
LEMMA CopiedFacts ==
    ASSUME ToolTypes, NEW s \in DOMAIN RealPath, NEW t \in DOMAIN RealPath, NEW o \in BOOLEAN
    PROVE  /\ Copied(s, t, o) \in [Paths -> Contents]
           /\ \A q \in Paths : Copied(s, t, o)[q] # files[q] =>
                  /\ PathBelow(t, q) /\ Copied(s, t, o)[q] # Absent
                  /\ IsFile(q) => o
                  /\ \E p \in FilesBelow(s) : Moved(p, s, t) = q
<1> DEFINE From(q) == {p \in TreeCopies(s, t, o) : Moved(p, s, t) = q}
<1>1. Copied(s, t, o) = [q \in Paths |-> IF From(q) = {} THEN files[q] ELSE files[CHOOSE p \in From(q) : TRUE]]
  BY DEF Copied
<1>2. \A q \in Paths : From(q) # {} => (CHOOSE p \in From(q) : TRUE) \in From(q)
  OBVIOUS
<1>3. ASSUME NEW q \in Paths, NEW p \in From(q)
      PROVE  /\ p \in Paths /\ files[p] # Absent /\ p \in FilesBelow(s) /\ Moved(p, s, t) = q
             /\ PathBelow(t, q) /\ (IsFile(q) => o)
  <2>1. /\ p \in FilesBelow(s) /\ p \in Paths /\ files[p] # Absent /\ Moved(p, s, t) = q
        /\ IsFile(q) => o
    BY <1>3 DEF TreeCopies, FilesBelow, IsFile
  <2>2. p \in Seq(STRING) /\ s \in Seq(STRING) /\ t \in Seq(STRING)
    BY <2>1, ToolAssumption
  <2> QED
    BY <2>1, <2>2, MovedBelow
<1> HIDE DEF From
<1>4. \A q \in Paths : Copied(s, t, o)[q] = IF From(q) = {} THEN files[q] ELSE files[CHOOSE p \in From(q) : TRUE]
  BY <1>1
<1>5. Copied(s, t, o) \in [Paths -> Contents]
  BY <1>1, <1>2, <1>3 DEF ToolTypes
<1> QED
  BY <1>2, <1>3, <1>4, <1>5

\* A task changes what it was checked for, and only as far as the policy goes.
LEMMA TaskEffects ==
    ASSUME ToolTypes, NEW t \in Task, TaskVetted(t), ~TaskBlocked(t)
    PROVE  /\ TaskEffect(t) \in [Paths -> Contents]
           /\ \A q \in Paths : TaskEffect(t)[q] # files[q] =>
                  /\ policy.write /\ MayTouch(q)
                  /\ TaskEffect(t)[q] = Absent => policy.delete
                  /\ files[q] # Absent /\ TaskEffect(t)[q] # Absent => policy.overwrite
<1> DEFINE E == TaskEffect(t)
           Good == /\ E \in [Paths -> Contents]
                   /\ \A q \in Paths : E[q] # files[q] =>
                        /\ policy.write /\ MayTouch(q)
                        /\ E[q] = Absent => policy.delete
                        /\ files[q] # Absent /\ E[q] # Absent => policy.overwrite
<1> SUFFICES Good
  OBVIOUS
<1>0. /\ files \in [Paths -> Contents] /\ policy \in Policies
      /\ t.source \in DOMAIN RealPath /\ t.target \in DOMAIN RealPath
      /\ {"task", Absent} \subseteq Contents
  BY DEF ToolTypes, Task, Contents
<1>1. \A o : Replace(o) => policy.overwrite
  BY DEF Replace
<1>2. CASE t.name = "read_text"
  <2>1. E = files
    BY <1>2 DEF TaskEffect
  <2> QED
    BY <1>0, <2>1
<1>3. CASE t.name = "write_text"
  <2>1. E = [files EXCEPT ![t.target] = "task"]
    BY <1>3 DEF TaskEffect
  <2>2. policy.write /\ MayTouch(t.target) /\ (IsFile(t.target) => policy.overwrite)
    BY <1>1, <1>3 DEF TaskVetted, TaskBlocked
  <2> QED
    BY <1>0, <2>1, <2>2 DEF IsFile, Absent
<1>4. CASE t.name = "copy"
  <2>1. E = [files EXCEPT ![t.target] = files[t.source]]
    BY <1>4 DEF TaskEffect
  <2>2. /\ policy.write /\ MayTouch(t.target) /\ (IsFile(t.target) => policy.overwrite)
        /\ IsFile(t.source)
    BY <1>1, <1>4 DEF TaskVetted, TaskBlocked
  <2> QED
    BY <1>0, <2>1, <2>2 DEF IsFile
<1>5. CASE t.name \in {"copy_tree", "sync"}
  <2>1. PICK o \in BOOLEAN : E = Copied(t.source, t.target, o) /\ (o => policy.overwrite)
    <3>1. CASE t.name = "copy_tree"
      <4>1. CASE Replace(t.overwrite)
        <5>0. TreeCopies(t.source, t.target, Replace(t.overwrite)) = TreeCopies(t.source, t.target, TRUE)
          BY <4>1 DEF TreeCopies
        <5>1. E = Copied(t.source, t.target, TRUE)
          BY <3>1, <5>0 DEF TaskEffect, Copied
        <5> QED
          BY <1>1, <4>1, <5>1
      <4>2. CASE ~Replace(t.overwrite)
        <5>0. TreeCopies(t.source, t.target, Replace(t.overwrite)) = TreeCopies(t.source, t.target, FALSE)
          BY <4>2 DEF TreeCopies
        <5>1. E = Copied(t.source, t.target, FALSE)
          BY <3>1, <5>0 DEF TaskEffect, Copied
        <5> QED
          BY <5>1
      <4> QED
        BY <4>1, <4>2
    <3>2. CASE t.name = "sync"
      <4>1. E = Copied(t.source, t.target, TRUE) /\ policy.overwrite
        BY <3>2 DEF TaskEffect, TaskVetted
      <4> QED
        BY <4>1
    <3> QED
      BY <1>5, <3>1, <3>2
  <2>2. policy.write /\ MayTouch(t.target)
    BY <1>5 DEF TaskVetted
  <2>3. E \in [Paths -> Contents]
    BY <1>0, <2>1, CopiedFacts
  <2>4. ASSUME NEW q \in Paths, E[q] # files[q]
        PROVE  MayTouch(q) /\ E[q] # Absent /\ (files[q] # Absent => policy.overwrite)
    <3>1. PathBelow(t.target, q) /\ E[q] # Absent /\ (IsFile(q) => policy.overwrite)
      BY <1>0, <2>1, <2>4, CopiedFacts
    <3> QED
      BY <1>0, <2>2, <3>1, BelowFacts DEF IsFile
  <2> HIDE DEF E
  <2> QED
    BY <2>2, <2>3, <2>4
<1>6. CASE t.name = "move"
  <2>1. E = [files EXCEPT ![t.target] = files[t.source], ![t.source] = Absent]
    BY <1>6 DEF TaskEffect
  <2>2. /\ policy.write /\ MayTouch(t.target) /\ MayTouch(t.source) /\ (IsFile(t.target) => policy.overwrite)
        /\ IsFile(t.source) /\ policy.delete
    BY <1>1, <1>6 DEF TaskVetted, TaskBlocked
  <2> QED
    BY <1>0, <2>1, <2>2 DEF IsFile
<1>7. CASE t.name = "delete"
  <2>1. E = [q \in Paths |-> IF PathBelow(t.target, q) THEN Absent ELSE files[q]]
    BY <1>7 DEF TaskEffect
  <2>2. policy.write /\ MayTouch(t.target) /\ policy.delete
    BY <1>7 DEF TaskVetted
  <2>3. \A q \in Paths : PathBelow(t.target, q) => MayTouch(q)
    BY <1>0, <2>2, BelowFacts
  <2> QED
    BY <1>0, <2>1, <2>2, <2>3
<1> QED
  BY <1>2, <1>3, <1>4, <1>5, <1>6, <1>7 DEF Task

-----------------------------------------------------------------------------
(* ToolServer: a message that is let through was checked *)

\* What the checks of a writing tool find in order holds.
LEMMA VettedTools ==
    ASSUME NEW r \in Request, r.tool \in Writers, ToolProblem(r) = ""
    PROVE  /\ policy.write
           /\ r.tool = "file_write" => MayTouch(r.target) /\ (IsFile(r.target) => policy.overwrite)
           /\ (r.tool \in {"file_copy", "file_move"} \/ (r.tool = "storage_copy" /\ ~IsTree(r))) =>
                  /\ MayTouch(r.source) /\ MayTouch(r.target) /\ r.source # r.target
                  /\ IsFile(r.target) => policy.overwrite
           /\ r.tool = "file_move" => policy.delete
           /\ IsTree(r) => MayTouch(r.target)
           /\ (IsTree(r) /\ r.overwrite /\ ~policy.overwrite) =>
                  \A p \in FilesBelow(r.source) : ~IsFile(Moved(p, r.source, r.target))
           /\ r.tool = "pipeline_run" => ActionRefusals(plan) = ""
<1> DEFINE OfTransfer == TransferProblem(r)
           OfTree == CopyTreeProblem(r)
           OfWrite == WriteProblem(r)
<1>1. /\ r.tool = "file_write" => OfWrite = ""
      /\ r.tool \in {"file_copy", "file_move"} => OfTransfer = ""
      /\ r.tool = "storage_copy" => (IF IsTree(r) THEN OfTree ELSE OfTransfer) = ""
      /\ r.tool = "pipeline_create" => CreateProblem(r) = ""
      /\ r.tool = "pipeline_run" => RunProblem = ""
  BY NoneOfTwo DEF ToolProblem
<1>2. CASE r.tool = "file_write"
  <2>1. RequireWrite = "" /\ Resolve(r.target) = "" /\ Replaceable(r.target, r.overwrite) = ""
    BY <1>1, <1>2 DEF WriteProblem, ??
  <2> QED
    BY <1>2, <2>1, PermissionFacts DEF IsTree
<1>3. ASSUME OfTransfer = ""
      PROVE  /\ policy.write /\ MayTouch(r.source) /\ MayTouch(r.target) /\ r.source # r.target
             /\ IsFile(r.target) => policy.overwrite
             /\ r.tool = "file_move" => policy.delete
  <2>1. /\ (IF r.tool = "file_move" THEN RequireDelete ELSE RequireWrite) = ""
        /\ Resolve(r.source) = "" /\ Resolve(r.target) = "" /\ Unless(r.source # r.target, "invalid_arguments") = ""
        /\ Replaceable(r.target, r.overwrite) = ""
    BY <1>3 DEF TransferProblem, ??
  <2>2. r.source # r.target
    BY <2>1 DEF Unless
  <2> QED
    BY <2>1, <2>2, PermissionFacts
<1>4. CASE r.tool \in {"file_copy", "file_move"}
  BY <1>1, <1>3, <1>4 DEF IsTree
<1>5. CASE r.tool = "storage_copy" /\ ~IsTree(r)
  BY <1>1, <1>3, <1>5
<1>6. CASE r.tool = "storage_copy" /\ IsTree(r)
  <2>1. /\ RequireWrite = "" /\ Resolve(r.target) = ""
        /\ (IF r.overwrite /\ \E p \in FilesBelow(r.source) : IsFile(Moved(p, r.source, r.target))
            THEN RequireOverwrite ELSE "") = ""
    BY <1>1, <1>6 DEF CopyTreeProblem, ??
  <2>2. (r.overwrite /\ ~policy.overwrite) => \A p \in FilesBelow(r.source) : ~IsFile(Moved(p, r.source, r.target))
    BY <2>1, PermissionFacts
  <2> QED
    BY <1>6, <2>1, <2>2, PermissionFacts
<1>7. CASE r.tool = "pipeline_create"
  <2>1. RequireWrite = ""
    BY <1>1, <1>7 DEF CreateProblem, ??
  <2> QED
    BY <1>7, <2>1, PermissionFacts DEF IsTree
<1>8. CASE r.tool = "pipeline_run"
  <2>1. RequireWrite = "" /\ ActionRefusals(plan) = ""
    BY <1>1, <1>8 DEF RunProblem, ??
  <2> QED
    BY <1>8, <2>1, PermissionFacts DEF IsTree
<1> QED
  BY <1>2, <1>4, <1>5, <1>6, <1>7, <1>8 DEF Writers, SemanticTools, ReadOnlyTools

\* A task that passed its checks may write what it writes.
LEMMA VettedTasks ==
    ASSUME NEW t \in Task, TaskProblem(t) = ""
    PROVE  TaskVetted(t)
<1>1. /\ (CASE t.name = "read_text" -> ""
            [] t.name \in {"write_text", "copy"} -> RequireWrite
            [] t.name = "copy_tree" -> IF t.overwrite = "yes" THEN RequireOverwrite ELSE RequireWrite
            [] t.name = "sync" -> RequireOverwrite
            [] t.name \in {"move", "delete"} -> RequireDelete) = ""
      /\ Resolve(t.source) = "" /\ Resolve(t.target) = ""
  BY DEF TaskProblem, ??
<1>2. MayTouch(t.source) /\ MayTouch(t.target)
  BY <1>1, PermissionFacts
<1>3. /\ t.name # "read_text" => policy.write
      /\ t.name \in {"move", "delete"} => policy.delete
      /\ t.name = "sync" => policy.overwrite
  BY <1>1, PermissionFacts DEF Task
<1> QED
  BY <1>2, <1>3 DEF TaskVetted

-----------------------------------------------------------------------------
(* ToolServer: one step *)

\* What depends on the policy and the run alone stays with them.
LEMMA RunKept ==
    ASSUME RunVetted, OnlyAllowedTasks, policy' = policy, run' = run
    PROVE  RunVetted' /\ OnlyAllowedTasks'
BY DEF RunVetted, TaskVetted, MayTouch, OnlyAllowedTasks, AllowedActions, DefaultPipelineActions, Nestable

\* Nothing is asked of a message that has been answered.
LEMMA DoneAsksNothing ==
    ASSUME call'.phase = "done"
    PROVE  CallVetted' /\ CollisionsCounted' /\ PhaseInv' /\ PlanVetted'
BY DEF CallVetted, CollisionsCounted, PhaseInv, PlanVetted, Acts

\* A message is taken: it is answered without a trace, or it passed its checks.
LEMMA ReceiveStep ==
    ASSUME ToolInv, NEW r \in Requests, Receive(r)
    PROVE  ToolInv'
<1> DEFINE c == NewCall(r)
           tree == IsTree(r)
           replaced == IF r.tool = "pipeline_create" THEN plan # NoPlan ELSE IsFile(r.target)
           seen == IF IsFile(r.source) THEN files[r.source] ELSE Absent
           acting == [c EXCEPT !.replaced = replaced, !.seen = seen]
<1>0. /\ UNCHANGED <<policy, files, plan, run, foreign>> /\ made' = made + 1 /\ r \in Request
      /\ ToolTypes /\ RunVetted /\ OnlyAllowedTasks
  BY ToolAssumption DEF Receive, ToolInv, Request, Word
<1>1. tree \in BOOLEAN /\ replaced \in BOOLEAN
  BY DEF IsTree, IsFile
<1>2. c = [request |-> r, phase |-> "acting", answer |-> "none", replaced |-> FALSE, seen |-> Absent,
           tree |-> tree, touched |-> {}, changed |-> {}]
  BY DEF NewCall
<1>3. seen \in Contents
  BY <1>0 DEF IsFile, ToolTypes, Contents
<1>7. call' = IF RpcProblem(r) # "" THEN Answered(c, "rpc_error")
              ELSE IF r.method # "call" \/ r.tool \notin SemanticTools THEN Answered(c, Reply(r, "result"))
              ELSE IF ToolProblem(r) # "" THEN Answered(c, IF ToolProblem(r) \in Refusals THEN "refused" ELSE "error")
              ELSE IF r.tool \in ReadOnlyTools \/ r.dry THEN Answered(c, Reply(r, "result"))
              ELSE acting
  BY DEF Receive
<1>8. (tree <=> IsTree(r)) /\ (r.tool # "pipeline_create" => (replaced <=> IsFile(r.target)))
  OBVIOUS
<1> HIDE DEF c, tree, replaced, seen
<1>4. RunVetted' /\ OnlyAllowedTasks'
  BY <1>0, RunKept
<1>5. CASE \E a \in {"rpc_error", "refused", "error", Reply(r, "result")} :
              /\ call' = Answered(c, a)
              /\ a = "result" => r.dry \/ r.method # "call" \/ r.tool \notin Writers
  <2>1. PICK a \in {"rpc_error", "refused", "error", Reply(r, "result")} :
              /\ call' = Answered(c, a)
              /\ a = "result" => r.dry \/ r.method # "call" \/ r.tool \notin Writers
    BY <1>5
  <2>2. call' = [request |-> r, phase |-> "done", answer |-> a, replaced |-> FALSE, seen |-> Absent,
                 tree |-> tree, touched |-> {}, changed |-> {}]
    BY <1>2, <2>1 DEF Answered
  <2>3. a \in Answers
    BY <2>1 DEF Reply, Answers
  <2>4. ToolTypes'
    <3>1. call' \in Call
      BY <1>0, <1>1, <2>2, <2>3 DEF Call, Contents, Phases
    <3> QED
      BY <1>0, <3>1 DEF ToolTypes
  <2>5. OutcomeIsTrue'
    BY <2>1, <2>2 DEF OutcomeIsTrue, Writers, SemanticTools, ReadOnlyTools
  <2>6. CallVetted' /\ CollisionsCounted' /\ PhaseInv' /\ PlanVetted'
    BY <2>2, DoneAsksNothing
  <2> QED
    BY <1>4, <2>4, <2>5, <2>6 DEF ToolInv
<1>6. CASE call' = acting /\ r.tool \in Writers /\ ~r.dry /\ ToolProblem(r) = ""
  <2>1. call' = [request |-> r, phase |-> "acting", answer |-> "none", replaced |-> replaced, seen |-> seen,
                 tree |-> tree, touched |-> {}, changed |-> {}]
    BY <1>2, <1>6
  <2>2. /\ call'.request = r /\ call'.phase = "acting" /\ (call'.tree <=> IsTree(r)) /\ call'.touched = {}
        /\ call'.changed = {} /\ (r.tool # "pipeline_create" => (call'.replaced <=> IsFile(r.target)))
    BY <1>8, <2>1
  <2>3. ToolTypes'
    <3>1. call' \in Call
      BY <1>0, <1>1, <1>3, <2>1 DEF Call, Phases, Answers
    <3> QED
      BY <1>0, <3>1 DEF ToolTypes
  <2>4. /\ \A path : MayTouch(path)' = MayTouch(path)
        /\ \A path : IsFile(path)' = IsFile(path)
        /\ \A path : FilesBelow(path)' = FilesBelow(path)
    BY <1>0 DEF MayTouch, IsFile, FilesBelow
  <2>5. CallVetted'
    BY <1>0, <1>6, <2>2, <2>4, VettedTools DEF CallVetted, IsTransfer, IsTree
  <2>6. CollisionsCounted'
    BY <1>0, <1>6, <2>2, <2>4, VettedTools DEF CollisionsCounted, Collides
  <2>7. PhaseInv'
    BY <2>2 DEF PhaseInv
  <2>8. PlanVetted'
    <3>1. ActionRefusals(plan)' = ActionRefusals(plan)
      BY <1>0 DEF ActionRefusals, AllowedActions, DefaultPipelineActions, Nestable
    <3> QED
      BY <1>0, <1>6, <2>2, <3>1, VettedTools DEF PlanVetted, Acts
  <2>9. OutcomeIsTrue'
    BY <2>2 DEF OutcomeIsTrue
  <2> QED
    BY <1>4, <2>3, <2>5, <2>6, <2>7, <2>8, <2>9 DEF ToolInv
<1> HIDE DEF acting
<1> QED
  BY <1>5, <1>6, <1>7 DEF Writers

\* What somebody else changes is recorded with the message in hand, which stays as vetted as it was.
LEMMA TouchedKeeps ==
    ASSUME ToolTypes, CallVetted, CollisionsCounted, PhaseInv, OutcomeIsTrue, NEW S \in SUBSET Paths,
           call' = Touched(S), policy' = policy, files' \in [Paths -> Contents],
           \A p \in Paths : files'[p] # files[p] => p \in S
    PROVE  call' \in Call /\ CallVetted' /\ CollisionsCounted' /\ PhaseInv' /\ OutcomeIsTrue'
<1>0. /\ files \in [Paths -> Contents] /\ call \in Call
      /\ call' = [call EXCEPT !.touched = @ \union S]
  BY DEF ToolTypes, Touched
<1>1. /\ call' \in Call /\ call'.touched = call.touched \union S
      /\ call'.request = call.request /\ call'.phase = call.phase /\ call'.answer = call.answer
      /\ call'.replaced = call.replaced /\ call'.seen = call.seen /\ call'.tree = call.tree
      /\ call'.changed = call.changed
  BY <1>0 DEF Call
<1>2. call'.touched = {} => files' = files /\ call.touched = {}
  BY <1>0, <1>1
<1>3. CallVetted'
  BY <1>1 DEF CallVetted, IsTransfer, MayTouch
<1>4. CollisionsCounted'
  <2> SUFFICES ASSUME call.phase = "acting", call.tree, call.request.overwrite, ~policy.overwrite,
                      NEW p \in FilesBelow(call.request.source)', Collides(p)'
               PROVE  {p, Moved(p, call.request.source, call.request.target)} \intersect call'.touched # {}
    BY <1>1 DEF CollisionsCounted
  <2> DEFINE m == Moved(p, call.request.source, call.request.target)
  <2>1. /\ p \in Paths /\ files'[p] # Absent /\ IsStrictPrefix(call.request.source, p)
        /\ m \in Paths /\ files'[m] # Absent
    BY <1>1 DEF FilesBelow, IsFile, Collides
  <2>2. CASE p \in S \/ m \in S
    BY <1>1, <2>2
  <2>3. CASE p \notin S /\ m \notin S
    <3>1. p \in FilesBelow(call.request.source) /\ Collides(p)
      BY <2>1, <2>3 DEF FilesBelow, IsFile, Collides
    <3>2. {p, m} \intersect call.touched # {}
      BY <3>1 DEF CollisionsCounted
    <3> QED
      BY <1>1, <3>2
  <2> QED
    BY <2>2, <2>3
<1>5. PhaseInv'
  BY <1>1, <1>2 DEF PhaseInv, IsTransfer
<1>6. OutcomeIsTrue'
  BY <1>1, <1>2 DEF OutcomeIsTrue
<1> QED
  BY <1>1, <1>3, <1>4, <1>5, <1>6

\* A message is answered with what it did.
LEMMA AnswerKeeps ==
    ASSUME ToolInv, NEW a \in Answers, NEW S \in SUBSET DOMAIN RealPath,
           call' = [call EXCEPT !.phase = "done", !.answer = a, !.changed = S],
           UNCHANGED <<policy, run, made, foreign>>, files' \in [Paths -> Contents], plan' \in Definition,
           a \in {"refused", "rpc_error"} \/ call.request.dry => S = {},
           (/\ a = "result" /\ call.request.method = "call" /\ ~call.request.dry
            /\ call.request.tool \in {"file_write", "file_copy", "file_move"}) => call.request.target \in S,
           (/\ call.request.tool = "file_move" /\ call.request.verify
            /\ call.request.source \in S /\ call.touched = {}) => files'[call.request.target] = call.seen
    PROVE  ToolInv'
<1>1. /\ call' \in Call /\ call'.phase = "done" /\ call'.answer = a /\ call'.changed = S
      /\ call'.request = call.request /\ call'.seen = call.seen /\ call'.touched = call.touched
  BY DEF ToolInv, ToolTypes, Call, Phases
<1>2. ToolTypes'
  BY <1>1 DEF ToolInv, ToolTypes
<1>3. OutcomeIsTrue'
  BY <1>1 DEF OutcomeIsTrue
<1> QED
  BY <1>1, <1>2, <1>3, RunKept, DoneAsksNothing DEF ToolInv

\* What the property asks of one step
Obeys == \A p \in Paths : ServerChanges(p) => Permitted(p)

LEMMA NothingChanged == ASSUME files' = files PROVE Obeys
BY DEF Obeys, ServerChanges

LEMMA ForeignChange == ASSUME foreign \in Nat, foreign' = foreign + 1 PROVE Obeys
BY DEF Obeys, ServerChanges

\* The answers
LEMMA Replies ==
    /\ \A r : Reply(r, "result") \in Answers \ {"refused", "rpc_error"}
    /\ "error" \in Answers
BY DEF Reply, Answers

\* file_write writes where it was checked, and over a file only when it counted one.
LEMMA FileWriteStep == ASSUME ToolInv, FileWrite PROVE ToolInv' /\ Obeys
<1> DEFINE q == call.request.target
<1>0. /\ call.phase = "acting" /\ call.request.tool = "file_write" /\ UNCHANGED <<policy, plan, run, made, foreign>>
      /\ call \in Call /\ call.request \in Request /\ q \in DOMAIN RealPath /\ call.changed = {} /\ ~call.request.dry
      /\ files \in [Paths -> Contents] /\ plan \in Definition /\ policy.write /\ MayTouch(q)
      /\ call.replaced => policy.overwrite
  BY DEF FileWrite, Acts, ToolInv, ToolTypes, Call, Request, CallVetted, PhaseInv
<1>1. CASE Blocked(q)
  <2>1. /\ files' = files
        /\ call' = [call EXCEPT !.phase = "done", !.answer = "error", !.changed = {}]
    BY <1>0, <1>1 DEF FileWrite, Answered, Call
  <2> QED
    BY <1>0, <2>1, AnswerKeeps, Replies, NothingChanged
<1>2. CASE ~Blocked(q)
  <2>1. /\ files' = [files EXCEPT ![q] = "written"]
        /\ call' = [call EXCEPT !.phase = "done", !.answer = Reply(call.request, "result"), !.changed = {q}]
    BY <1>0, <1>2 DEF FileWrite, Answered, Changed, Call
  <2>2. files' \in [Paths -> Contents]
    BY <1>0, <2>1 DEF Contents
  <2>3. ToolInv'
    <3> DEFINE a == Reply(call.request, "result")
    <3>1. a \in Answers /\ a \notin {"refused", "rpc_error"} /\ {q} \in SUBSET DOMAIN RealPath
      BY <1>0, Replies
    <3>2. call' = [call EXCEPT !.phase = "done", !.answer = a, !.changed = {q}]
      BY <2>1
    <3> HIDE DEF a
    <3> QED
      BY <1>0, <2>2, <3>1, <3>2, AnswerKeeps
  <2>4. Obeys
    <3>1. IsFile(q) => policy.overwrite
      BY <1>0, <1>2 DEF Blocked, MayWriteOver
    <3> QED
      BY <1>0, <2>1, <3>1 DEF Obeys, ServerChanges, Permitted, MayTouch, IsFile, Absent
  <2> QED
    BY <2>3, <2>4
<1> QED
  BY <1>1, <1>2

\* A copy or move writes where it was checked; what it has moved it removes only with the permission.
LEMMA TransferStep == ASSUME ToolInv, NEW arrived \in BOOLEAN, Transfer(arrived) PROVE ToolInv' /\ Obeys
<1> DEFINE r == call.request
           gone == r.tool = "file_move" /\ ~r.verify
           x == IF arrived THEN files[r.source] ELSE "damaged"
           S == {r.target} \union IF gone THEN {r.source} ELSE {}
           a == Reply(r, "result")
<1>0. /\ call.phase = "acting" /\ r.tool \in {"file_copy", "file_move", "storage_copy"} /\ ~call.tree
      /\ UNCHANGED <<policy, plan, run, made, foreign>> /\ IsTransfer
      /\ call \in Call /\ r \in Request /\ r.source \in DOMAIN RealPath /\ r.target \in DOMAIN RealPath
      /\ call.changed = {} /\ ~r.dry /\ files \in [Paths -> Contents] /\ plan \in Definition
      /\ policy.write /\ MayTouch(r.source) /\ MayTouch(r.target) /\ r.source # r.target
      /\ call.replaced => policy.overwrite
      /\ r.tool = "file_move" => policy.delete
      /\ r.tool \in Writers /\ a \in Answers /\ a \notin {"refused", "rpc_error"} /\ S \in SUBSET DOMAIN RealPath
  BY Replies DEF Transfer, Acts, IsTransfer, ToolInv, ToolTypes, Call, Request, CallVetted, PhaseInv
<1>1. CASE ~IsFile(r.source) \/ Blocked(r.target)
  <2>1. /\ files' = files
        /\ call' = [call EXCEPT !.phase = "done", !.answer = "error", !.changed = {}]
    BY <1>0, <1>1 DEF Transfer, Answered, Call
  <2> QED
    BY <1>0, <2>1, AnswerKeeps, Replies, NothingChanged
<1>2. CASE IsFile(r.source) /\ ~Blocked(r.target)
  <2>1. /\ files' = [files EXCEPT ![r.target] = x, ![r.source] = IF gone THEN Absent ELSE @]
        /\ r.source \in Paths /\ files[r.source] # Absent
        /\ IsFile(r.target) => policy.overwrite
    BY <1>0, <1>2 DEF Transfer, Blocked, MayWriteOver, IsFile
  <2>2. x \in Contents /\ x # Absent
    BY <1>0, <2>1 DEF Contents, Absent
  <2>3. files' \in [Paths -> Contents]
    BY <1>0, <2>1, <2>2 DEF Contents
  <2>4. Obeys
    <3> SUFFICES ASSUME NEW p \in Paths, files'[p] # files[p]
                 PROVE  Permitted(p)
      BY DEF Obeys, ServerChanges
    <3>1. p \in {r.source, r.target}
      BY <1>0, <2>1
    <3>2. CASE p = r.target
      BY <1>0, <2>1, <2>2, <3>2 DEF Permitted, MayTouch, IsFile
    <3>3. CASE p = r.source
      <4>1. gone /\ files'[p] = Absent
        BY <1>0, <2>1, <3>3
      <4> QED
        BY <1>0, <3>3, <4>1 DEF Permitted, MayTouch
    <3> QED
      BY <3>1, <3>2, <3>3
  <2>5. CASE r.verify
    <3>1. call' = [call EXCEPT !.phase = "compare", !.changed = {r.target}]
      BY <1>0, <1>2, <2>5 DEF Transfer, Changed, Call
    <3>2. /\ call' \in Call /\ call'.phase = "compare" /\ call'.changed = {r.target} /\ call'.request = r
          /\ call'.tree = call.tree /\ call'.replaced = call.replaced
      BY <1>0, <3>1 DEF Call, Phases
    <3>3. ToolTypes'
      BY <1>0, <2>3, <3>2 DEF ToolInv, ToolTypes
    <3>4. CallVetted'
      BY <1>0, <3>2 DEF CallVetted, IsTransfer, MayTouch
    <3>5. CollisionsCounted' /\ PhaseInv' /\ PlanVetted' /\ OutcomeIsTrue'
      BY <1>0, <2>5, <3>2 DEF CollisionsCounted, PhaseInv, PlanVetted, OutcomeIsTrue, Acts, IsTransfer
    <3> QED
      BY <1>0, <2>4, <3>3, <3>4, <3>5, RunKept DEF ToolInv
  <2>6. CASE ~r.verify
    <3>1. call' = [call EXCEPT !.phase = "done", !.answer = a, !.changed = S]
      BY <1>0, <1>2, <2>6 DEF Transfer, Changed, Call, Answered
    <3>2. r.target \in S
      OBVIOUS
    <3> HIDE DEF a, S, x
    <3>3. ToolInv'
      BY <1>0, <2>3, <2>6, <3>1, <3>2, AnswerKeeps
    <3> QED
      BY <2>4, <3>3
  <2> QED
    BY <2>5, <2>6
<1> QED
  BY <1>1, <1>2

\* The digests are compared before the source of a move is removed.
LEMMA CompareStep == ASSUME ToolInv, Compare PROVE ToolInv' /\ Obeys
<1> DEFINE r == call.request
           a == Reply(r, "result")
<1>0. /\ call.phase = "compare" /\ IsTransfer /\ UNCHANGED <<policy, files, plan, run, made, foreign>>
      /\ call \in Call /\ r \in Request /\ r.target \in DOMAIN RealPath /\ r.source # r.target
      /\ r.verify /\ call.changed = {r.target} /\ ~r.dry /\ files \in [Paths -> Contents] /\ plan \in Definition
      /\ a \in Answers /\ a \notin {"refused", "rpc_error"}
  BY Replies DEF Compare, IsTransfer, ToolInv, ToolTypes, Call, Request, CallVetted, PhaseInv
<1>1. Obeys
  BY <1>0, NothingChanged
<1>2. ASSUME NEW answer \in Answers, answer \notin {"refused", "rpc_error"}, call' = Answered(call, answer)
      PROVE  ToolInv'
  <2>1. call' = [call EXCEPT !.phase = "done", !.answer = answer, !.changed = {r.target}]
    BY <1>0, <1>2 DEF Answered, Call
  <2>2. {r.target} \in SUBSET DOMAIN RealPath /\ r.source \notin {r.target} /\ r.target \in {r.target}
    BY <1>0
  <2> HIDE DEF r
  <2> QED
    BY <1>0, <1>2, <2>1, <2>2, AnswerKeeps DEF r
<1>3. CASE ~Matches(call)
  BY <1>1, <1>2, <1>3, Replies DEF Compare
<1>4. CASE Matches(call) /\ r.tool # "file_move"
  BY <1>0, <1>1, <1>2, <1>4 DEF Compare
<1>5. CASE Matches(call) /\ r.tool = "file_move"
  <2>1. call' = [call EXCEPT !.phase = "remove"]
    BY <1>5 DEF Compare
  <2>2. /\ call' \in Call /\ call'.phase = "remove" /\ call'.changed = call.changed /\ call'.request = r
        /\ call'.tree = call.tree /\ call'.replaced = call.replaced /\ call'.seen = call.seen
    BY <1>0, <2>1 DEF Call, Phases
  <2>3. ToolTypes'
    BY <1>0, <2>2 DEF ToolInv, ToolTypes
  <2>4. CallVetted'
    BY <1>0, <2>2 DEF ToolInv, CallVetted, IsTransfer, MayTouch
  <2>5. PhaseInv'
    BY <1>0, <1>5, <2>2 DEF PhaseInv, IsTransfer, Matches
  <2>6. CollisionsCounted' /\ PlanVetted' /\ OutcomeIsTrue'
    BY <2>2 DEF CollisionsCounted, PlanVetted, OutcomeIsTrue, Acts
  <2> QED
    BY <1>0, <1>1, <2>3, <2>4, <2>5, <2>6, RunKept DEF ToolInv
<1> QED
  BY <1>3, <1>4, <1>5

\* The source of a verified move is removed.
LEMMA DeleteSourceStep == ASSUME ToolInv, DeleteSource PROVE ToolInv' /\ Obeys
<1> DEFINE r == call.request
           a == Reply(r, "result")
           S == {r.target, r.source}
<1>0. /\ call.phase = "remove" /\ IsTransfer /\ UNCHANGED <<policy, plan, run, made, foreign>>
      /\ files' = [files EXCEPT ![r.source] = Absent]
      /\ call \in Call /\ r \in Request /\ r.target \in DOMAIN RealPath /\ r.source \in DOMAIN RealPath
      /\ r.source # r.target /\ r.tool = "file_move"
      /\ call.touched = {} => files[r.target] = call.seen
      /\ call.changed = {r.target} /\ ~r.dry /\ files \in [Paths -> Contents] /\ plan \in Definition
      /\ a \in Answers /\ a \notin {"refused", "rpc_error"} /\ policy.write /\ policy.delete /\ MayTouch(r.source)
  BY Replies DEF DeleteSource, IsTransfer, ToolInv, ToolTypes, Call, Request, CallVetted, PhaseInv
<1>1. files' \in [Paths -> Contents]
  BY <1>0 DEF Contents
<1>2. Obeys
  BY <1>0 DEF Obeys, ServerChanges, Permitted, MayTouch
<1>3. CASE IsFile(r.source)
  <2>1. call' = [call EXCEPT !.phase = "done", !.answer = a, !.changed = S]
    BY <1>0, <1>3 DEF DeleteSource, Changed, Answered, Call
  <2>2. S \in SUBSET DOMAIN RealPath /\ r.target \in S
    BY <1>0
  <2>3. call.touched = {} => files'[r.target] = call.seen
    BY <1>0
  <2> HIDE DEF a, S
  <2> QED
    BY <1>0, <1>1, <1>2, <2>1, <2>2, <2>3, AnswerKeeps
<1>4. CASE ~IsFile(r.source)
  <2>1. call' = [call EXCEPT !.phase = "done", !.answer = "error", !.changed = {r.target}]
    BY <1>0, <1>4 DEF DeleteSource, Answered, Call
  <2>2. {r.target} \in SUBSET DOMAIN RealPath /\ r.source \notin {r.target}
    BY <1>0
  <2> QED
    BY <1>0, <1>1, <1>2, <2>1, <2>2, AnswerKeeps, Replies
<1> QED
  BY <1>3, <1>4

\* A tree copy stays below its target; what it replaces unasked was not there when it counted.
LEMMA StorageCopyStep == ASSUME ToolInv, StorageCopy PROVE ToolInv' /\ Obeys
<1> DEFINE r == call.request
           a == Reply(r, "result")
           S == {Moved(p, r.source, r.target) : p \in TreeCopies(r.source, r.target, r.overwrite)}
<1>0. /\ Acts({"storage_copy"}) /\ call.phase = "acting" /\ r.tool = "storage_copy" /\ call.tree
      /\ UNCHANGED <<policy, plan, run, made, foreign>>
      /\ call \in Call /\ r \in Request /\ r.source \in DOMAIN RealPath /\ r.target \in DOMAIN RealPath
      /\ r.overwrite \in BOOLEAN /\ call.changed = {} /\ ~r.dry /\ plan \in Definition
      /\ policy \in Policies /\ policy.write /\ MayTouch(r.target) /\ ToolTypes /\ CollisionsCounted
      /\ a \in Answers /\ a \notin {"refused", "rpc_error"} /\ files \in [Paths -> Contents]
  BY Replies DEF StorageCopy, Acts, ToolInv, ToolTypes, Call, Request, CallVetted, PhaseInv
<1>1. CASE ~IsDir(r.source)
  <2>1. /\ files' = files
        /\ call' = [call EXCEPT !.phase = "done", !.answer = "error", !.changed = {}]
    BY <1>0, <1>1 DEF StorageCopy, Answered, Call
  <2> QED
    BY <1>0, <2>1, AnswerKeeps, Replies, NothingChanged
<1>2. CASE IsDir(r.source)
  <2>1. /\ files' = Copied(r.source, r.target, r.overwrite)
        /\ call' = [call EXCEPT !.phase = "done", !.answer = a, !.changed = S]
    BY <1>0, <1>2 DEF StorageCopy, Changed, Answered, Call
  <2>2. S \in SUBSET DOMAIN RealPath
    BY ToolAssumption DEF TreeCopies
  <2>3. /\ files' \in [Paths -> Contents]
        /\ \A q \in Paths : files'[q] # files[q] =>
               /\ PathBelow(r.target, q) /\ files'[q] # Absent
               /\ IsFile(q) => r.overwrite
               /\ \E p \in FilesBelow(r.source) : Moved(p, r.source, r.target) = q
    BY <1>0, <2>1, CopiedFacts
  <2>4. ToolInv'
    <3> HIDE DEF a, S
    <3> QED
      BY <1>0, <2>1, <2>2, <2>3, AnswerKeeps
  <2>5. ASSUME NEW q \in Paths, files'[q] # files[q]
        PROVE  Permitted(q)
    <3>1. MayTouch(q) /\ files'[q] # Absent
      BY <1>0, <2>3, <2>5, BelowFacts
    <3>2. ASSUME files[q] # Absent, ~policy.overwrite
          PROVE  LateCollision(q)
      <4>1. PICK p \in FilesBelow(r.source) : Moved(p, r.source, r.target) = q
        BY <2>3, <2>5
      <4>2. IsFile(q) /\ r.overwrite
        BY <2>3, <2>5, <3>2 DEF IsFile
      <4>3. {p, q} \intersect call.touched # {}
        BY <1>0, <3>2, <4>1, <4>2 DEF CollisionsCounted, Collides
      <4> QED
        BY <1>0, <4>1, <4>3 DEF LateCollision
    <3> QED
      BY <1>0, <3>1, <3>2 DEF Permitted, MayTouch
  <2> QED
    BY <2>4, <2>5 DEF Obeys, ServerChanges
<1> QED
  BY <1>1, <1>2

\* pipeline_create stores the definition that was checked.
LEMMA PipelineCreateStep == ASSUME ToolInv, PipelineCreate PROVE ToolInv' /\ Obeys
<1> DEFINE r == call.request
           a == Reply(r, "result")
<1>0. /\ r.tool = "pipeline_create" /\ UNCHANGED <<policy, files, run, made, foreign>>
      /\ call \in Call /\ r.document \in Definition /\ call.changed = {}
      /\ plan \in Definition /\ files \in [Paths -> Contents]
      /\ a \in Answers /\ a \notin {"refused", "rpc_error"}
  BY Replies DEF PipelineCreate, Acts, ToolInv, ToolTypes, Call, Request, PhaseInv
<1>1. CASE plan # NoPlan /\ ~call.replaced
  <2>1. plan' = plan /\ call' = [call EXCEPT !.phase = "done", !.answer = "error", !.changed = {}]
    BY <1>0, <1>1 DEF PipelineCreate, Answered, Call
  <2> QED
    BY <1>0, <2>1, AnswerKeeps, Replies, NothingChanged
<1>2. CASE ~(plan # NoPlan /\ ~call.replaced)
  <2>1. plan' = r.document /\ call' = [call EXCEPT !.phase = "done", !.answer = a, !.changed = {}]
    BY <1>0, <1>2 DEF PipelineCreate, Answered, Call
  <2> HIDE DEF a
  <2> QED
    BY <1>0, <2>1, AnswerKeeps, NothingChanged
<1> QED
  BY <1>1, <1>2

\* A run starts with the tasks of the definition that was checked just now.
LEMMA PipelineRunStep == ASSUME ToolInv, PipelineRun PROVE ToolInv' /\ Obeys
<1> DEFINE r == call.request
           a == Reply(r, "result")
<1>0. /\ Acts({"pipeline_run"}) /\ r.tool = "pipeline_run" /\ plan # NoPlan
      /\ UNCHANGED <<policy, files, plan, made, foreign>>
      /\ run' = [tasks |-> plan.tasks, step |-> "check", nested |-> plan.nested, status |-> "running"]
      /\ call \in Call /\ r \in Request /\ call.changed = {} /\ ~r.dry /\ plan \in Definition
      /\ ToolTypes /\ PlanVetted /\ a \in Answers /\ a \notin {"refused", "rpc_error"}
  BY Replies DEF PipelineRun, Acts, ToolInv, ToolTypes, Call, CallVetted, PhaseInv
<1>1. run' \in Run
  BY <1>0 DEF Run, Definition
<1>2. RunVetted' /\ OnlyAllowedTasks'
  <2>1. /\ \A i \in DOMAIN plan.tasks : plan.tasks[i].name \in AllowedActions
        /\ plan.nested \subseteq Nestable
    BY <1>0 DEF PlanVetted, ActionRefusals, Unless
  <2> QED
    BY <1>0, <2>1 DEF RunVetted, OnlyAllowedTasks, AllowedActions, DefaultPipelineActions, Nestable
<1>3. Obeys
  BY <1>0, NothingChanged
<1>4. /\ call' \in Call /\ call'.phase \in {"waiting", "done"} /\ call'.request = r /\ call'.changed = {}
  <2>1. call' \in {[call EXCEPT !.phase = "done", !.answer = a], [call EXCEPT !.phase = "waiting"]}
    BY DEF PipelineRun, Answered
  <2> QED
    BY <1>0, <2>1 DEF Call, Phases
<1>5. ToolTypes'
  BY <1>0, <1>1, <1>4 DEF ToolTypes
<1>6. CallVetted' /\ CollisionsCounted' /\ PhaseInv' /\ PlanVetted' /\ OutcomeIsTrue'
  BY <1>0, <1>4 DEF CallVetted, CollisionsCounted, PhaseInv, PlanVetted, OutcomeIsTrue, Acts
<1> QED
  BY <1>2, <1>3, <1>5, <1>6 DEF ToolInv

\* The caller that waited is told how the run ended.
LEMMA RunEndedStep == ASSUME ToolInv, RunEnded PROVE ToolInv' /\ Obeys
<1> DEFINE a == IF run.status = "succeeded" THEN Reply(call.request, "result") ELSE "error"
<1>1. /\ call.request.tool = "pipeline_run" /\ UNCHANGED <<policy, files, plan, run, made, foreign>>
      /\ call \in Call /\ call.changed = {} /\ plan \in Definition /\ files \in [Paths -> Contents]
      /\ a \in Answers /\ a \notin {"refused", "rpc_error"}
  BY Replies DEF RunEnded, ToolInv, ToolTypes, PhaseInv
<1>2. call' = [call EXCEPT !.phase = "done", !.answer = a, !.changed = {}]
  BY <1>1 DEF RunEnded, Answered, Call
<1> HIDE DEF a
<1> QED
  BY <1>1, <1>2, AnswerKeeps, NothingChanged

LEMMA NoTasks == <<>> \in Seq(Task)
OBVIOUS

\* The next task of a run is looked at, and may write only if its checks found nothing.
LEMMA RunCheckStep == ASSUME ToolInv, RunCheck PROVE ToolInv' /\ Obeys
<1>0. /\ UNCHANGED <<policy, files, plan, call, made, foreign>> /\ run.tasks # <<>>
      /\ run \in Run /\ ToolTypes /\ OnlyAllowedTasks
  BY DEF RunCheck, ToolInv, ToolTypes
<1>1. Head(run.tasks) \in Task
  BY <1>0 DEF Run
<1>2. run' \in Run /\ RunVetted' /\ OnlyAllowedTasks'
  <2>1. CASE TaskProblem(Head(run.tasks)) = ""
    <3>1. run' = [run EXCEPT !.step = "write"]
      BY <2>1 DEF RunCheck
    <3>2. TaskVetted(Head(run.tasks))
      BY <1>1, <2>1, VettedTasks
    <3>3. run' \in Run /\ run'.tasks = run.tasks /\ run'.nested = run.nested
      BY <1>0, <3>1 DEF Run
    <3> QED
      BY <1>0, <3>2, <3>3
      DEF RunVetted, TaskVetted, MayTouch, OnlyAllowedTasks, AllowedActions, DefaultPipelineActions, Nestable
  <2>2. CASE TaskProblem(Head(run.tasks)) # ""
    <3>1. run' = [run EXCEPT !.tasks = <<>>, !.status = "failed"]
      BY <2>2 DEF RunCheck
    <3>2. run' \in Run /\ run'.tasks = <<>>
      BY <1>0, <3>1, NoTasks DEF Run
    <3> QED
      BY <3>2 DEF RunVetted, OnlyAllowedTasks
  <2> QED
    BY <2>1, <2>2
<1>3. ToolTypes'
  BY <1>0, <1>2 DEF ToolTypes
<1>4. CallVetted' /\ CollisionsCounted' /\ PhaseInv' /\ PlanVetted' /\ OutcomeIsTrue'
  BY <1>0 DEF ToolInv, CallVetted, IsTransfer, MayTouch, CollisionsCounted, Collides, FilesBelow, IsFile, PhaseInv,
              PlanVetted, Acts, ActionRefusals, AllowedActions, DefaultPipelineActions, Nestable, OutcomeIsTrue
<1> QED
  BY <1>0, <1>2, <1>3, <1>4, NothingChanged DEF ToolInv

\* A definition that was checked stays so while the message that read it is in hand.
LEMMA PlanKept ==
    ASSUME PlanVetted, UNCHANGED <<policy, plan>>, call'.phase = call.phase, call'.request = call.request
    PROVE  PlanVetted'
BY DEF PlanVetted, Acts, ActionRefusals, AllowedActions, DefaultPipelineActions, Nestable

\* A task that was checked writes; the message in hand is told what changed.
LEMMA RunWriteStep == ASSUME ToolInv, RunWrite PROVE ToolInv' /\ Obeys
<1> DEFINE t == Head(run.tasks)
           S == {p \in Paths : files'[p] # files[p]}
<1>0. /\ UNCHANGED <<policy, plan, made, foreign>> /\ call' = Touched(S) /\ run.tasks # <<>> /\ run.step = "write"
      /\ run \in Run /\ ToolTypes /\ OnlyAllowedTasks /\ call \in Call /\ TaskVetted(t)
      /\ files \in [Paths -> Contents] /\ t \in Task
  BY DEF RunWrite, ToolInv, ToolTypes, RunVetted, Run
<1>1. /\ files' \in [Paths -> Contents] /\ Obeys
      /\ run' \in Run /\ run'.step = "check" /\ OnlyAllowedTasks'
  <2>1. CASE TaskBlocked(t)
    <3>1. files' = files /\ run' = [run EXCEPT !.tasks = <<>>, !.step = "check", !.status = "failed"]
      BY <2>1 DEF RunWrite
    <3>2. run' \in Run /\ run'.step = "check" /\ run'.tasks = <<>>
      BY <1>0, <3>1, NoTasks DEF Run
    <3> QED
      BY <1>0, <3>1, <3>2, NothingChanged DEF OnlyAllowedTasks
  <2>2. CASE ~TaskBlocked(t)
    <3>1. /\ files' = TaskEffect(t)
          /\ run' = [run EXCEPT !.tasks = Tail(@), !.step = "check",
                                !.status = IF Len(run.tasks) = 1 THEN "succeeded" ELSE @]
      BY <2>2 DEF RunWrite
    <3>2. files' \in [Paths -> Contents] /\ Obeys
      BY <1>0, <2>2, <3>1, TaskEffects DEF Obeys, ServerChanges, Permitted, MayTouch
    <3>6. Tail(run.tasks) \in Seq(Task)
      BY <1>0 DEF Run
    <3>3. /\ run' \in Run /\ run'.step = "check" /\ run'.tasks = Tail(run.tasks) /\ run'.nested = run.nested
      BY <1>0, <3>1, <3>6 DEF Run
    <3>4. \A i \in DOMAIN run'.tasks : i + 1 \in DOMAIN run.tasks /\ run'.tasks[i] = run.tasks[i + 1]
      BY <1>0, <3>3 DEF Run
    <3>5. OnlyAllowedTasks'
      BY <1>0, <3>3, <3>4 DEF OnlyAllowedTasks, AllowedActions, DefaultPipelineActions, Nestable
    <3> QED
      BY <3>2, <3>3, <3>5
  <2> QED
    BY <2>1, <2>2
<1>2. call' \in Call /\ CallVetted' /\ CollisionsCounted' /\ PhaseInv' /\ OutcomeIsTrue'
  <2>1. S \in SUBSET Paths /\ \A p \in Paths : files'[p] # files[p] => p \in S
    OBVIOUS
  <2> HIDE DEF S
  <2> QED
    BY <1>0, <1>1, <2>1, TouchedKeeps DEF ToolInv
<1>3. ToolTypes'
  BY <1>0, <1>1, <1>2 DEF ToolTypes
<1>4. PlanVetted'
  <2>1. call'.phase = call.phase /\ call'.request = call.request
    BY <1>0 DEF Touched, Call
  <2> QED
    BY <1>0, <2>1, PlanKept DEF ToolInv
<1>5. RunVetted'
  BY <1>1 DEF RunVetted
<1> QED
  BY <1>1, <1>2, <1>3, <1>4, <1>5 DEF ToolInv

\* Another client writes.
LEMMA ForeignWriteStep ==
    ASSUME ToolInv, NEW p \in Paths, NEW c \in Foreign, ForeignWrite(p, c) PROVE ToolInv' /\ Obeys
<1>0. /\ UNCHANGED <<policy, plan, run, made>> /\ foreign' = foreign + 1 /\ call' = Touched({p})
      /\ files' = [files EXCEPT ![p] = c] /\ files \in [Paths -> Contents] /\ call \in Call /\ foreign \in Nat
  BY DEF ForeignWrite, ToolInv, ToolTypes
<1>1. files' \in [Paths -> Contents] /\ \A q \in Paths : files'[q] # files[q] => q \in {p}
  BY <1>0 DEF Contents
<1>2. call' \in Call /\ CallVetted' /\ CollisionsCounted' /\ PhaseInv' /\ OutcomeIsTrue'
  <2>1. {p} \in SUBSET Paths
    OBVIOUS
  <2> QED
    BY <1>0, <1>1, <2>1, TouchedKeeps DEF ToolInv
<1>3. call'.phase = call.phase /\ call'.request = call.request
  BY <1>0 DEF Touched, Call
<1>4. ToolTypes'
  BY <1>0, <1>1, <1>2 DEF ToolInv, ToolTypes
<1> QED
  BY <1>0, <1>2, <1>3, <1>4, PlanKept, RunKept, ForeignChange DEF ToolInv

\* Another client edits the stored definition.
LEMMA ForeignPlanStep ==
    ASSUME ToolInv, NEW d \in Documents, ForeignPlan(d) PROVE ToolInv' /\ Obeys
<1>0. /\ UNCHANGED <<policy, files, call, run, made>> /\ foreign' = foreign + 1 /\ plan' \in Definition
      /\ foreign \in Nat /\ ~Acts({"pipeline_run"})
  BY ToolAssumption DEF ForeignPlan, ToolInv, ToolTypes
<1>1. ToolTypes'
  BY <1>0 DEF ToolInv, ToolTypes
<1>2. CallVetted' /\ CollisionsCounted' /\ PhaseInv' /\ PlanVetted' /\ OutcomeIsTrue'
  BY <1>0 DEF ToolInv, CallVetted, IsTransfer, MayTouch, CollisionsCounted, Collides, FilesBelow, IsFile, PhaseInv,
              PlanVetted, Acts, OutcomeIsTrue
<1> QED
  BY <1>0, <1>1, <1>2, RunKept, ForeignChange DEF ToolInv

\* Everything the server and its surroundings do
LEMMA ToolSteps == ASSUME ToolInv, ToolNext PROVE ToolInv' /\ Obeys
<1>1. ASSUME NEW r \in Requests, Receive(r)
      PROVE  ToolInv' /\ Obeys
  BY <1>1, ReceiveStep, NothingChanged DEF Receive
<1> QED
  BY <1>1, FileWriteStep, TransferStep, CompareStep, DeleteSourceStep, StorageCopyStep, PipelineCreateStep,
     PipelineRunStep, RunEndedStep, RunCheckStep, RunWriteStep, ForeignWriteStep, ForeignPlanStep
  DEF ToolNext, ServerStep

\* The server starts with nothing in hand.
LEMMA ToolStarts == ToolInit => ToolInv
<1> SUFFICES ASSUME ToolInit PROVE ToolInv
  OBVIOUS
<1>1. Silent \in Request /\ NoPlan \in Definition /\ NoPlan.tasks = <<>>
  <2>1. NoPlan \in Definition /\ NoPlan.tasks = <<>>
    BY NoTasks DEF NoPlan, Definition
  <2>2. <<>> \in DOMAIN RealPath
    BY ToolAssumption
  <2> QED
    BY <2>1, <2>2 DEF Silent, Request, Word
<1>2. /\ call \in Call /\ call.phase = "done" /\ call.changed = {} /\ call.answer = "none"
  <2>1. IsTree(Silent) = FALSE
    BY DEF IsTree, Silent
  <2> QED
    BY <1>1, <2>1 DEF ToolInit, NewCall, Call, Phases, Answers, Contents
<1>3. ToolTypes
  BY <1>1, <1>2 DEF ToolInit, ToolTypes, Contents, Run
<1>4. OutcomeIsTrue
  BY <1>2 DEF OutcomeIsTrue
<1> QED
  BY <1>2, <1>3, <1>4 DEF ToolInv, ToolInit, CallVetted, CollisionsCounted, PhaseInv, PlanVetted, Acts, RunVetted,
                          OnlyAllowedTasks

LEMMA ToolAlways == ToolSpec => []ToolInv
<1>1. ASSUME ToolInv, UNCHANGED toolVars
      PROVE  ToolInv'
  <2>1. ToolTypes' /\ OutcomeIsTrue' /\ PhaseInv'
    BY <1>1 DEF toolVars, ToolInv, ToolTypes, OutcomeIsTrue, PhaseInv, IsTransfer
  <2>2. CallVetted' /\ PlanVetted'
    BY <1>1, PlanKept DEF toolVars, ToolInv, CallVetted, IsTransfer, MayTouch
  <2>3. CollisionsCounted'
    BY <1>1 DEF toolVars, ToolInv, CollisionsCounted, Collides, FilesBelow, IsFile
  <2> QED
    BY <1>1, <2>1, <2>2, <2>3, RunKept DEF toolVars, ToolInv
<1>2. ToolInv /\ [ToolNext]_toolVars => ToolInv'
  BY <1>1, ToolSteps
<1> QED
  BY <1>2, ToolStarts, PTL DEF ToolSpec

-----------------------------------------------------------------------------
(* ToolServer: reads in parts *)

ReadSpec == ReadInit /\ [][ReadNext]_readVars

\* A set of numbers that is bounded and not empty has a largest one.
LEMMA BoundedSetsHaveMax ==
    ASSUME NEW k \in Nat, NEW T, T \subseteq 0..k, T # {}
    PROVE  Max(T) \in T /\ \A n \in T : n <= Max(T)
<1> DEFINE L == {k - n : n \in T}
           R == OpToRel(<, Nat)
<1>1. L \subseteq Nat /\ L # {}
  <2>1. ASSUME NEW n \in T PROVE k - n \in Nat
    <3>1. n \in 0..k
      OBVIOUS
    <3> QED
      BY <3>1
  <2>2. PICK n \in T : TRUE
    OBVIOUS
  <2>3. k - n \in L
    OBVIOUS
  <2> QED
    BY <2>1, <2>3
<1>2. IsWellFoundedOn(R, Nat)
  BY NatLessThanWellFounded
<1>3. \E x \in L : \A y \in L : ~ (<<y, x>> \in R)
  <2> HIDE DEF L, R
  <2> QED
    BY <1>1, <1>2, WFMin
<1>4. \A x, y \in Nat : x < y => <<x, y>> \in R
  BY DEF OpToRel
<1>5. \E n \in T : \A m \in T : n >= m
  <2> HIDE DEF R
  <2>1. PICK n \in T : \A y \in L : ~ (<<y, k - n>> \in R)
    BY <1>3
  <2>2. ASSUME NEW m \in T PROVE n >= m
    <3>1. k - m \in L /\ k - n \in Nat /\ k - m \in Nat /\ n \in Nat /\ m \in Nat
      BY <1>1
    <3>2. ~ (k - m < k - n)
      BY <1>4, <2>1, <3>1
    <3> QED
      BY <3>1, <3>2
  <2> QED
    BY <2>2
<1> QED
  BY <1>5 DEF Max

\* The last boundary of a text is its size.
LEMMA SizeFacts ==
    ASSUME NEW t \in Texts
    PROVE  Size(t) \in t /\ Size(t) \in Nat /\ \A n \in t : n <= Size(t)
<1>1. \E n \in t : \A m \in t : n >= m
  BY ToolAssumption
<1> QED
  BY <1>1, ToolAssumption DEF Size, Max

Scan == [matches : SUBSET Nat, bytes : Nat, skipped : SUBSET Nat, stopped : BOOLEAN]

Candidate == [size : Nat \union {-1}, readable : BOOLEAN, text : BOOLEAN, hit : BOOLEAN]

ReadTypes ==
    /\ reader \in [text : Texts, limit : Limits, sized : BOOLEAN, base64 : BOOLEAN, offset : Nat, got : Seq(Nat),
                   kind : {"file", "list"}, state : {"reading", "searching", "complete", "stuck"}]
    /\ search \in [state : {"none", "idle", "searching", "answered"}, at : Nat, scan : Scan,
                   of : [candidates : Seq(Candidate), limit : Nat, budget : Nat]]

\* A reader has what is before its offset, and a text is never left within a character.
ReaderInv ==
    /\ reader.offset <= Size(reader.text)
    /\ reader.got = [i \in 1..reader.offset |-> i]
    /\ reader.kind = "file" /\ ~reader.base64 => reader.offset \in reader.text
    /\ reader.state = "complete" => reader.offset = Size(reader.text)

IsHit(i) == LET f == search.of.candidates[i] IN f.readable /\ f.text /\ f.hit

\* A search has found every hit among the candidates it has passed, or skipped a file.
SearchInv ==
    /\ search.at <= Len(search.of.candidates)
    /\ search.scan.matches \subseteq 1..search.at
    /\ \A i \in search.scan.matches : IsHit(i)
    /\ search.scan.skipped = {} => \A i \in 1..search.at : IsHit(i) => i \in search.scan.matches
    /\ search.scan.bytes <= search.of.budget
    /\ Cardinality(search.scan.matches) <= search.of.limit
    /\ search.state = "answered" /\ ~search.scan.stopped => search.at = Len(search.of.candidates)

ReadInv == ReadTypes /\ ReaderInv /\ SearchInv

\* The next piece continues the one before.
LEMMA PiecesJoin ==
    ASSUME NEW a \in Nat, NEW u \in Nat
    PROVE  [i \in 1..a |-> i] \o [i \in 1..u |-> a + i] = [i \in 1..(a + u) |-> i]
<1> DEFINE s == [i \in 1..a |-> i]
           t == [i \in 1..u |-> a + i]
           w == [i \in 1..(a + u) |-> i]
<1>1. s \in Seq(Nat) /\ t \in Seq(Nat) /\ w \in Seq(Nat) /\ Len(s) = a /\ Len(t) = u /\ Len(w) = a + u
  OBVIOUS
<1>2. /\ \A i \in 1..a : s[i] = i
      /\ \A i \in 1..u : t[i] = a + i
      /\ \A i \in 1..(a + u) : w[i] = i
  OBVIOUS
<1> HIDE DEF s, t, w
<1>3. /\ s \o t \in Seq(Nat) /\ Len(s \o t) = a + u
      /\ \A i \in 1..(a + u) : (s \o t)[i] = IF i <= a THEN s[i] ELSE t[i - a]
  BY <1>1, ConcatProperties
<1>4. \A i \in 1..(a + u) : (s \o t)[i] = w[i]
  BY <1>2, <1>3
<1>5. s \o t = w
  BY <1>1, <1>3, <1>4, SeqEqual
<1> QED
  BY <1>5 DEF s, t, w

\* A page of a file: what it hands out ends where a character ends, or with the file.
LEMMA FileReadStep == ASSUME ReadInv, FileRead PROVE ReadInv'
<1> DEFINE text == reader.text
           bytes == ReadWindow(text, reader.offset, reader.limit)
           complete == IF reader.sized THEN reader.offset + bytes >= Size(text) ELSE bytes < reader.limit
           used == IF reader.base64 THEN bytes ELSE Decoded(text, reader.offset, bytes, complete)
<1>1. /\ text \in Texts /\ Size(text) \in text /\ Size(text) \in Nat /\ reader.limit \in Nat /\ text \subseteq Nat
      /\ reader.offset \in Nat /\ reader.offset <= Size(text) /\ (~reader.base64 => reader.offset \in text)
  BY SizeFacts, ToolAssumption DEF ReadInv, ReadTypes, ReaderInv, FileRead
<1>2. bytes \in Nat /\ reader.offset + bytes <= Size(text) /\ (complete => reader.offset + bytes = Size(text))
  BY <1>1 DEF ReadWindow, Least
<1>3. /\ used \in Nat /\ used <= bytes /\ (complete => used = bytes)
      /\ ~reader.base64 => reader.offset + used \in text
  <2>1. CASE reader.base64 \/ complete
    <3> HIDE DEF bytes, complete
    <3> QED
      BY <1>1, <1>2, <2>1 DEF Decoded
  <2>2. CASE ~reader.base64 /\ ~complete
    <3> DEFINE N == {n \in 0..bytes : reader.offset + n \in text}
    <3>1. used = Max(N)
      BY <2>2 DEF Decoded
    <3>2. N \subseteq 0..bytes /\ 0 \in N
      <4> HIDE DEF bytes
      <4> QED
        BY <1>1, <1>2, <2>2
    <3>3. Max(N) \in N
      <4> HIDE DEF N, bytes
      <4> QED
        BY <1>2, <3>2, BoundedSetsHaveMax
    <3>4. used \in 0..bytes /\ reader.offset + used \in text
      <4> HIDE DEF bytes, used
      <4> QED
        BY <3>1, <3>3
    <3> HIDE DEF bytes, used, complete
    <3> QED
      BY <1>2, <2>2, <3>4
  <2> QED
    BY <2>1, <2>2
<1>4. reader' = [reader EXCEPT !.got = @ \o [i \in 1..used |-> reader.offset + i], !.offset = @ + used,
                              !.state = IF complete THEN "complete" ELSE IF used = 0 THEN "stuck" ELSE @]
  BY <1>1 DEF FileRead, NextOffset
<1>5. reader'.got = [i \in 1..(reader.offset + used) |-> i] /\ reader'.got \in Seq(Nat)
  <2> HIDE DEF used, complete
  <2>1. reader'.got = [i \in 1..reader.offset |-> i] \o [i \in 1..used |-> reader.offset + i]
    BY <1>4 DEF ReadInv, ReadTypes, ReaderInv
  <2>2. [i \in 1..(reader.offset + used) |-> i] \in Seq(Nat)
    BY <1>1, <1>3
  <2> QED
    BY <1>1, <1>3, <2>1, <2>2, PiecesJoin
<1>6. search' = search
  BY DEF FileRead
<1> HIDE DEF bytes, used, complete
<1>7. /\ reader'.text = text /\ reader'.kind = reader.kind /\ reader'.base64 = reader.base64
      /\ reader'.offset = reader.offset + used /\ (reader'.state = "complete" => complete)
  BY <1>4 DEF ReadInv, ReadTypes, FileRead
<1>8. ReadTypes'
  <2>1. reader' = [reader EXCEPT !.got = reader'.got, !.offset = reader.offset + used, !.state = reader'.state]
        /\ reader'.state \in {"reading", "complete", "stuck"}
    BY <1>4, <1>7 DEF ReadInv, ReadTypes, FileRead
  <2>2. reader' \in [text : Texts, limit : Limits, sized : BOOLEAN, base64 : BOOLEAN, offset : Nat, got : Seq(Nat),
                     kind : {"file", "list"}, state : {"reading", "searching", "complete", "stuck"}]
    <3>1. reader.offset + used \in Nat
      BY <1>1, <1>3
    <3> QED
      BY <1>5, <2>1, <3>1 DEF ReadInv, ReadTypes
  <2> QED
    BY <1>6, <2>2 DEF ReadInv, ReadTypes
<1>9. ReaderInv'
  BY <1>1, <1>2, <1>3, <1>5, <1>7 DEF ReaderInv
<1> QED
  BY <1>6, <1>8, <1>9 DEF ReadInv, SearchInv, IsHit

\* A page of a list likewise, which has no characters to respect.
LEMMA ListPageStep == ASSUME ReadInv, ListPage(2) PROVE ReadInv'
<1> DEFINE page == Cut(Size(reader.text), reader.offset, ClampResults(reader.limit, 2))
<1>1. /\ reader.text \in Texts /\ Size(reader.text) \in Nat /\ reader.limit \in Nat
      /\ reader.offset \in Nat /\ reader.offset <= Size(reader.text)
  BY SizeFacts, ToolAssumption DEF ReadInv, ReadTypes, ReaderInv
<1>2. /\ page.count \in Nat /\ reader.offset + page.count <= Size(reader.text)
      /\ ~page.truncated => reader.offset + page.count = Size(reader.text)
  <2> DEFINE limit == ClampResults(reader.limit, 2)
             left == IF reader.offset > Size(reader.text) THEN 0 ELSE Size(reader.text) - reader.offset
  <2>1. limit \in Nat
    BY <1>1 DEF ClampResults, Least
  <2>2. left = Size(reader.text) - reader.offset /\ left \in Nat
    BY <1>1
  <2>3. /\ page.count = Least(limit, left)
        /\ ~page.truncated => ~(reader.offset + Least(limit, left) < Size(reader.text))
    BY DEF Cut
  <2> HIDE DEF limit, left, page
  <2> QED
    BY <1>1, <2>1, <2>2, <2>3 DEF Least
<1>3. reader' = [reader EXCEPT !.got = @ \o [i \in 1..page.count |-> reader.offset + i], !.offset = @ + page.count,
                              !.state = IF page.truncated THEN @ ELSE "complete"]
  BY DEF ListPage
<1> HIDE DEF page
<1>4. reader'.got = [i \in 1..(reader.offset + page.count) |-> i] /\ reader'.got \in Seq(Nat)
  <2>1. reader'.got = [i \in 1..reader.offset |-> i] \o [i \in 1..page.count |-> reader.offset + i]
    BY <1>3 DEF ReadInv, ReadTypes, ReaderInv
  <2>2. [i \in 1..(reader.offset + page.count) |-> i] \in Seq(Nat)
    BY <1>1, <1>2
  <2> QED
    BY <1>1, <1>2, <2>1, <2>2, PiecesJoin
<1>5. /\ reader'.text = reader.text /\ reader'.kind = "list" /\ reader'.offset = reader.offset + page.count
      /\ (reader'.state = "complete" => ~page.truncated)
  BY <1>3 DEF ReadInv, ReadTypes, ListPage
<1>6. ReadTypes'
  <2>1. reader' = [reader EXCEPT !.got = reader'.got, !.offset = reader.offset + page.count, !.state = reader'.state]
        /\ reader'.state \in {"reading", "complete"}
    BY <1>3, <1>5 DEF ReadInv, ReadTypes, ListPage
  <2>2. reader' \in [text : Texts, limit : Limits, sized : BOOLEAN, base64 : BOOLEAN, offset : Nat, got : Seq(Nat),
                     kind : {"file", "list"}, state : {"reading", "searching", "complete", "stuck"}]
    <3>1. reader.offset + page.count \in Nat
      BY <1>1, <1>2
    <3> QED
      BY <1>4, <2>1, <3>1 DEF ReadInv, ReadTypes
  <2> QED
    BY <2>2 DEF ReadInv, ReadTypes, ListPage
<1>7. ReaderInv'
  BY <1>1, <1>2, <1>4, <1>5 DEF ReaderInv
<1> QED
  BY <1>6, <1>7 DEF ReadInv, SearchInv, IsHit, ListPage

\* A search that goes on one file: what it cannot look into is skipped, and what it finds is counted.
LEMMA ContentMatchesStep == ASSUME ReadInv, ContentMatches PROVE ReadInv'
<1> DEFINE s == search.of
           next == search.at + 1
           f == s.candidates[next]
<1>1. ReadTypes /\ ReaderInv /\ SearchInv /\ reader' = reader
  BY DEF ReadInv, ContentMatches
<1>2. CASE search.at = Len(s.candidates)
  <2>1. search' = [search EXCEPT !.state = "answered"]
    BY <1>2 DEF ContentMatches
  <2> QED
    BY <1>1, <1>2, <2>1 DEF ReadInv, ReadTypes, ReaderInv, SearchInv, IsHit
<1>3. CASE search.at # Len(s.candidates) /\ StopsAt(search.scan, s.limit)
  <2>1. search' = [search EXCEPT !.state = "answered", !.scan.stopped = TRUE]
    BY <1>3 DEF ContentMatches
  <2> QED
    BY <1>1, <2>1 DEF ReadInv, ReadTypes, ReaderInv, SearchInv, IsHit, Scan
<1>4. CASE search.at # Len(s.candidates) /\ ~StopsAt(search.scan, s.limit)
  <2>1. search' = [search EXCEPT !.at = next, !.scan = Searched(f, next, @, s.budget)]
    BY <1>4 DEF ContentMatches
  <2>2. /\ next \in Nat /\ next \in 1..Len(s.candidates) /\ f \in Candidate /\ s.budget \in Nat /\ s.limit \in Nat
        /\ search.scan \in Scan
    BY <1>1, <1>4 DEF ReadTypes, SearchInv
  <2>3. CASE ~Fits(f, search.scan, s.budget) \/ ~f.readable
    <3>1. search' = [search EXCEPT !.at = next, !.scan.skipped = @ \union {next}]
      BY <2>1, <2>3, <2>2 DEF Searched, ReadTypes, Scan
    <3>2. /\ search'.at = next /\ search'.of = s /\ search'.state = search.state
          /\ search'.scan = [search.scan EXCEPT !.skipped = @ \union {next}]
      <4> HIDE DEF next
      <4> QED
        BY <1>1, <3>1 DEF ReadTypes
    <3>3. /\ search'.scan.matches = search.scan.matches /\ search'.scan.bytes = search.scan.bytes
          /\ next \in search'.scan.skipped
      <4> HIDE DEF next
      <4> QED
        BY <2>2, <3>2 DEF Scan
    <3>4. ReadTypes'
      <4> HIDE DEF next
      <4> QED
        BY <1>1, <2>2, <3>1 DEF ReadTypes, Scan
    <3>5. 1..search.at \subseteq 1..next
      BY <1>1 DEF ReadTypes
    <3>6. SearchInv'
      <4> HIDE DEF f
      <4> QED
        BY <1>1, <2>2, <3>2, <3>3, <3>5 DEF SearchInv, IsHit, ContentMatches
    <3> QED
      BY <1>1, <3>4, <3>6 DEF ReadInv, ReaderInv
  <2>4. CASE Fits(f, search.scan, s.budget) /\ f.readable
    <3> DEFINE m == IF f.text /\ f.hit THEN search.scan.matches \union {next} ELSE search.scan.matches
               k == IF f.text THEN search.scan.skipped ELSE search.scan.skipped \union {next}
               b == search.scan.bytes + f.size
    <3>1. search' = [search EXCEPT !.at = next, !.scan = [@ EXCEPT !.bytes = b, !.skipped = k, !.matches = m]]
      <4>1. Searched(f, next, search.scan, s.budget) = [search.scan EXCEPT !.bytes = b, !.skipped = k, !.matches = m]
        BY <2>4 DEF Searched
      <4> HIDE DEF m, b, k, f, next
      <4> QED
        BY <1>1, <2>1, <4>1 DEF ReadTypes
    <3>2. b \in Nat /\ b <= s.budget
      BY <2>2, <2>4 DEF Fits, Candidate, Scan
    <3>3. Cardinality(m) <= s.limit
      <4>1. IsFiniteSet(search.scan.matches)
        <5>1. IsFiniteSet(1..search.at)
          BY <1>1, FS_Interval DEF ReadTypes
        <5> QED
          BY <1>1, <5>1, FS_Subset DEF SearchInv
      <4>2. Cardinality(search.scan.matches) \in Nat /\ Cardinality(search.scan.matches) < s.limit
        BY <1>1, <1>4, <2>2, <4>1, FS_CardinalityType DEF StopsAt
      <4>3. Cardinality(search.scan.matches \union {next}) <= Cardinality(search.scan.matches) + 1
        BY <4>1, <4>2, FS_AddElement
      <4>4. IsFiniteSet(search.scan.matches \union {next}) /\ Cardinality(search.scan.matches \union {next}) \in Nat
        BY <4>1, FS_AddElement, FS_CardinalityType
      <4> HIDE DEF f, next, s
      <4>5. CASE m = search.scan.matches
        BY <2>2, <4>2, <4>5
      <4>6. CASE m = search.scan.matches \union {next}
        BY <2>2, <4>2, <4>3, <4>4, <4>6
      <4> QED
        BY <4>5, <4>6
    <3>4. m \subseteq 1..next /\ k \subseteq Nat
      BY <1>1, <2>2 DEF ReadTypes, SearchInv, Scan
    <3>5. \A i \in 1..next : i \in 1..search.at \/ i = next
      BY <1>1 DEF ReadTypes
    <3>6. \A i \in m : i \in search.scan.matches \/ (i = next /\ f.text /\ f.hit)
      <4> HIDE DEF next
      <4> QED
        OBVIOUS
    <3>7. k = {} => search.scan.skipped = {} /\ f.text
      <4> HIDE DEF f, next
      <4> QED
        OBVIOUS
    <3>8. search.scan.matches \subseteq m /\ (f.text /\ f.hit => next \in m)
      <4> HIDE DEF f, next
      <4> QED
        OBVIOUS
    <3>9. /\ search'.at = next /\ search'.of = s /\ search'.state = search.state
          /\ search'.scan.matches = m /\ search'.scan.bytes = b /\ search'.scan.skipped = k
      <4> HIDE DEF m, b, k, next
      <4>1. search'.scan = [search.scan EXCEPT !.bytes = b, !.skipped = k, !.matches = m]
        BY <1>1, <3>1 DEF ReadTypes
      <4> QED
        BY <1>1, <2>2, <3>1, <4>1 DEF ReadTypes, Scan
    <3>10. \A i : IsHit(i)' <=> IsHit(i)
      BY <3>9 DEF IsHit
    <3>11. IsHit(next) <=> f.text /\ f.hit
      BY <2>4 DEF IsHit
    <3>12. ReadTypes'
      <4> HIDE DEF m, b, k, next
      <4> QED
        <5>1. [search.scan EXCEPT !.bytes = b, !.skipped = k, !.matches = m] \in Scan
          <6>1. m \in SUBSET Nat /\ k \in SUBSET Nat
            BY <2>2, <3>4
          <6> QED
            BY <2>2, <3>2, <6>1 DEF Scan
        <5> QED
          BY <1>1, <2>2, <3>1, <5>1 DEF ReadTypes
    <3>13. SearchInv'
      <4> HIDE DEF m, b, k, f
      <4>1. search'.scan.matches \subseteq 1..search'.at /\ search'.at <= Len(search'.of.candidates)
        BY <2>2, <3>4, <3>9
      <4>2. \A i \in search'.scan.matches : IsHit(i)'
        BY <1>1, <3>6, <3>9, <3>10, <3>11 DEF SearchInv
      <4>3. search'.scan.skipped = {} => \A i \in 1..search'.at : IsHit(i)' => i \in search'.scan.matches
        <5> HIDE DEF next
        <5> QED
          BY <1>1, <3>5, <3>7, <3>8, <3>9, <3>10, <3>11 DEF SearchInv
      <4>4. search'.state # "answered"
        BY <3>9 DEF ContentMatches
      <4> QED
        BY <3>2, <3>3, <3>9, <4>1, <4>2, <4>3, <4>4 DEF SearchInv
    <3> QED
      BY <1>1, <3>12, <3>13 DEF ReadInv, ReaderInv
  <2> QED
    BY <2>3, <2>4
<1> QED
  BY <1>2, <1>3, <1>4

\* Every step of a reader and of a search keeps their invariant.
LEMMA ReadSteps == ASSUME ReadInv, [ReadNext]_readVars PROVE ReadInv'
<1>1. ASSUME NEW s \in Searches, FileSearch(s) PROVE ReadInv'
  <2>1. search' = [state |-> "searching", of |-> s, at |-> 0, scan |-> Fresh] /\ reader' = reader
    BY <1>1 DEF FileSearch
  <2>2. s \in [candidates : Seq(Candidate), limit : Nat, budget : Nat]
    BY ToolAssumption DEF Candidate
  <2>3. Fresh \in Scan
    BY DEF Fresh, Scan
  <2>4. Cardinality({}) = 0 /\ Len(s.candidates) \in Nat
    BY <2>2, FS_EmptySet
  <2>5. ReadTypes'
    BY <2>1, <2>2, <2>3 DEF ReadInv, ReadTypes
  <2>6. SearchInv'
    <3>1. /\ search'.at = 0 /\ search'.scan = Fresh /\ search'.state = "searching" /\ search'.of.candidates = s.candidates
          /\ search'.of.budget \in Nat /\ search'.of.limit \in Nat
      BY <2>1, <2>2
    <3> QED
      BY <2>4, <3>1 DEF SearchInv, Fresh
  <2> QED
    BY <2>1, <2>5, <2>6 DEF ReadInv, ReaderInv
<1>2. CASE UNCHANGED readVars
  BY <1>2 DEF readVars, ReadInv, ReadTypes, ReaderInv, SearchInv, IsHit
<1> QED
  BY <1>1, <1>2, FileReadStep, ListPageStep, ContentMatchesStep DEF ReadNext

\* It holds before anything was read.
LEMMA ReadStarts == ReadInit => ReadInv
<1> SUFFICES ASSUME ReadInit PROVE ReadInv
  OBVIOUS
<1>1. reader.text \in Texts /\ reader.offset = 0 /\ reader.got = <<>>
  BY DEF ReadInit
<1>2. Size(reader.text) \in Nat /\ 0 \in reader.text
  BY <1>1, SizeFacts, ToolAssumption
<1>3. ReaderInv
  BY <1>1, <1>2 DEF ReadInit, ReaderInv
<1>4. Fresh \in Scan /\ Cardinality({}) = 0
  BY FS_EmptySet DEF Fresh, Scan
<1>5. PICK st \in {"none", "idle"} :
          search = [state |-> st, of |-> [candidates |-> <<>>, limit |-> 1, budget |-> 0], at |-> 0, scan |-> Fresh]
  BY DEF ReadInit
<1>6. ReadTypes
  <2>1. <<>> \in Seq(Candidate) /\ <<>> \in Seq(Nat)
    OBVIOUS
  <2>2. search \in [state : {"none", "idle", "searching", "answered"}, at : Nat, scan : Scan,
                    of : [candidates : Seq(Candidate), limit : Nat, budget : Nat]]
    BY <1>4, <1>5, <2>1
  <2> QED
    BY <2>1, <2>2 DEF ReadInit, ReadTypes
<1>7. SearchInv
  <2>1. search.at = 0 /\ search.scan = Fresh /\ search.state # "answered" /\ search.of.candidates = <<>>
        /\ search.of.limit = 1 /\ search.of.budget = 0
    BY <1>5
  <2> QED
    BY <1>4, <2>1 DEF SearchInv, Fresh
<1> QED
  BY <1>3, <1>6, <1>7 DEF ReadInv

\* It implies what the reader was promised.
LEMMA PartsDo == ReadInv => PartsAddUp
<1> SUFFICES ASSUME ReadInv PROVE PartsAddUp
  OBVIOUS
<1>1. Len(reader.got) = reader.offset
  BY DEF ReadInv, ReadTypes, ReaderInv
<1>2. DOMAIN search.of.candidates = 1..Len(search.of.candidates)
  BY DEF ReadInv, ReadTypes
<1> QED
  BY <1>1, <1>2 DEF ReadInv, ReadTypes, ReaderInv, SearchInv, IsHit, PartsAddUp, Complete

\* ToolsTellTheTruth: for any tree of files with links, any policy, any messages and any changes by other
\* clients, a running pipeline calls only what the policy allows and an answer says what was done; and for
\* any text, limits and searches, what is read in parts is whole.
THEOREM ToolsAreTruthful == ToolSpec /\ ReadSpec => []ToolsTellTheTruth
<1>1. ToolInv /\ ReadInv => ToolsTellTheTruth
  BY PartsDo DEF ToolInv, ToolsTellTheTruth
<1>2. ReadSpec => []ReadInv
  BY ReadStarts, ReadSteps, PTL DEF ReadSpec
<1> QED
  BY <1>1, <1>2, ToolAlways, PTL

\* PolicyObeyed, likewise: no step of the server changes a file against the policy.
THEOREM PolicyIsObeyed == ToolSpec => PolicyObeyed
<1>1. ToolInv /\ [ToolNext]_toolVars => [\A p \in Paths : ServerChanges(p) => Permitted(p)]_toolVars
  BY ToolSteps DEF Obeys
<1> QED
  BY <1>1, ToolAlways, PTL DEF ToolSpec, PolicyObeyed

-----------------------------------------------------------------------------
(* ActionServer *)

ServerSpec == ServerInit /\ [][ServerNext]_serverVars

\* What two bytes of length stand for.
LEMMA ValueOfTwo == ASSUME NEW s \in Seq(Nat), Len(s) = 2 PROVE Value(s) = 256 * s[1] + s[2]
<1> DEFINE F(v) == [i \in 0..Len(s) |-> IF i = 0 THEN 0 ELSE 256 * v[i - 1] + s[i]]
           w == [i \in 0..2 |-> IF i = 0 THEN 0 ELSE IF i = 1 THEN s[1] ELSE 256 * s[1] + s[2]]
           v == CHOOSE x : x = F(x)
<1>1. s[1] \in Nat /\ s[2] \in Nat
  OBVIOUS
<1>2. w = F(w)
  BY <1>1
<1>3. v = F(v)
  <2> HIDE DEF F, w
  <2> QED
    BY <1>2
<1>4. Value(s) = v[2]
  BY DEF Value
<1>5. v[0] = 0 /\ v[1] = 256 * v[0] + s[1] /\ v[2] = 256 * v[1] + s[2]
  <2> HIDE DEF v
  <2> QED
    BY <1>3
<1> QED
  BY <1>1, <1>4, <1>5

\* What eight bytes of length stand for, of which only the last three can be other than zero.
LEMMA ValueOfEight ==
    ASSUME NEW s \in Seq(Nat), Len(s) = 8, \A i \in 1..5 : s[i] = 0
    PROVE  Value(s) = 256 * (256 * s[6] + s[7]) + s[8]
<1> DEFINE F(v) == [i \in 0..Len(s) |-> IF i = 0 THEN 0 ELSE 256 * v[i - 1] + s[i]]
           w == [i \in 0..8 |-> IF i < 6 THEN 0 ELSE IF i = 6 THEN s[6] ELSE IF i = 7 THEN 256 * s[6] + s[7]
                                ELSE 256 * (256 * s[6] + s[7]) + s[8]]
           v == CHOOSE x : x = F(x)
<1>1. \A i \in 1..8 : s[i] \in Nat
  BY ElementOfSeq
<1>2. w = F(w)
  BY <1>1
<1>3. v = F(v)
  <2> HIDE DEF F, w
  <2> QED
    BY <1>2
<1>4. Value(s) = v[8]
  BY DEF Value
<1>5. v[0] = 0 /\ \A i \in 1..8 : v[i] = 256 * v[i - 1] + s[i]
  <2> HIDE DEF v
  <2> QED
    BY <1>3
<1>6. v[1] = 0 /\ v[2] = 0 /\ v[3] = 0 /\ v[4] = 0 /\ v[5] = 0
  <2> HIDE DEF v
  <2> QED
    BY <1>5
<1>7. v[6] = s[6] /\ v[7] = 256 * s[6] + s[7] /\ v[8] = 256 * (256 * s[6] + s[7]) + s[8]
  <2> HIDE DEF v
  <2> QED
    BY <1>1, <1>5, <1>6
<1> QED
  BY <1>1, <1>4, <1>7

\* Quotient and remainder
LEMMA Division == ASSUME NEW m \in Nat PROVE 256 * (m \div 256) + (m % 256) = m
  BY SMT

\* A length that the three low bytes hold
InThreeBytes(n) == n < 16777216

\* The bytes of a number of two bytes, and those of a number of three in a field of eight
LEMMA BytesOfTwo == ASSUME NEW n \in Nat, n < 65536 PROVE 256 * ((n \div 256) % 256) + ((n \div 1) % 256) = n
  BY SMT

LEMMA BytesOfThree ==
    ASSUME NEW n \in Nat, InThreeBytes(n)
    PROVE  256 * (256 * ((n \div 65536) % 256) + ((n \div 256) % 256)) + ((n \div 1) % 256) = n
<1> DEFINE c == n \div 256
           a == n \div 65536
           d == n \div 1
<1>1. a = c \div 256 /\ a % 256 = a /\ d = n /\ a \in Nat /\ c \in Nat
  BY SMT DEF InThreeBytes
<1>2. 256 * c + (n % 256) = n
  BY Division
<1> HIDE DEF a, c, d
<1>3. 256 * (c \div 256) + (c % 256) = c
  BY <1>1, Division
<1>4. 256 * (256 * (a % 256) + (c % 256)) + (d % 256) = n
  BY <1>1, <1>2, <1>3
<1> QED
  BY <1>4, SMT DEF a, c, d

Byte(n, k) == (n \div k) % 256

\* Two numbers before a sequence
LEMMA Prepended ==
    ASSUME NEW p \in Seq(Nat), Len(p) = 2, NEW s \in Seq(Nat)
    PROVE  Len(p \o s) = Len(s) + 2 /\ (p \o s)[2] = p[2] /\ SubSeq(p \o s, 3, Len(s) + 2) = s
<1> DEFINE h == p \o s
           t == SubSeq(h, 3, Len(s) + 2)
<1>1. Len(s) \in Nat
  BY LenProperties
<1>2. /\ h \in Seq(Nat) /\ Len(h) = Len(s) + 2
      /\ \A i \in 1..(Len(s) + 2) : h[i] = IF i <= 2 THEN p[i] ELSE s[i - 2]
  <2>1. /\ h \in Seq(Nat) /\ Len(h) = Len(p) + Len(s)
        /\ \A i \in 1..(Len(p) + Len(s)) : h[i] = IF i <= Len(p) THEN p[i] ELSE s[i - Len(p)]
    BY ConcatProperties
  <2> HIDE DEF h
  <2>2. Len(p) + Len(s) = Len(s) + 2
    BY <1>1
  <2> QED
    BY <2>1, <2>2
<1> HIDE DEF h
<1>3. \A i \in 3..(Len(s) + 2) : h[i] \in Nat
  BY <1>1, <1>2, ElementOfSeq
<1>4. t \in Seq(Nat) /\ Len(t) = Len(s) /\ \A i \in 1..Len(s) : t[i] = h[3 + i - 1]
  BY <1>1, <1>3, SubSeqProperties
<1> HIDE DEF t
<1>5. ASSUME NEW i \in 1..Len(s) PROVE t[i] = s[i]
  <2>1. 3 + i - 1 = i + 2 /\ i + 2 \in 1..(Len(s) + 2) /\ ~(i + 2 <= 2) /\ (i + 2) - 2 = i
    BY <1>1
  <2> QED
    BY <1>2, <1>4, <2>1
<1>6. t = s
  BY <1>4, <1>5, SeqEqual
<1> QED
  BY <1>1, <1>2, <1>6 DEF h, t

\* The header of a frame is read back at every length: short, with two bytes of length and with eight.
LEMMA HeadersReadBack ==
    ASSUME NEW n \in Nat, InThreeBytes(n)
    PROVE  ReadFrame(Header(n)).header = Len(Header(n)) /\ ReadFrame(Header(n)).payload = n
<1>1. CASE n < 126
  BY <1>1, SMT DEF Header, ReadFrame
<1>2. CASE n >= 126 /\ n < 65536
  <2> DEFINE b == BigEndian(n, 2)
             p == <<129, 126>>
             h == p \o b
  <2>1. b \in Seq(Nat) /\ Len(b) = 2 /\ b[1] = Byte(n, 256) /\ b[2] = Byte(n, 1)
    BY SMT DEF BigEndian, Place, Byte
  <2>2. Value(b) = n
    <3> HIDE DEF b
    <3>1. Value(b) = 256 * b[1] + b[2]
      BY <2>1, ValueOfTwo, SMT
    <3> QED
      BY <1>2, <2>1, <3>1, BytesOfTwo, SMT DEF Byte
  <2>3. Len(h) = 4 /\ h[2] = 126 /\ SubSeq(h, 3, 4) = b
    <3>1. p \in Seq(Nat) /\ Len(p) = 2 /\ p[2] = 126
      BY SMT
    <3> HIDE DEF b, p
    <3>2. Len(h) = Len(b) + 2 /\ h[2] = p[2] /\ SubSeq(h, 3, Len(b) + 2) = b
      BY <2>1, <3>1, Prepended
    <3> QED
      BY <2>1, <3>1, <3>2, SMT
  <2>4. Header(n) = h
    BY <1>2, SMT DEF Header
  <2> HIDE DEF h, b
  <2>5. h[2] % 128 = 126
    BY <2>3, SMT
  <2>6. ReadFrame(h).header = 4 /\ ReadFrame(h).payload = Value(SubSeq(h, 3, 4))
    BY <2>5, SMT DEF ReadFrame
  <2> QED
    BY <2>2, <2>3, <2>4, <2>6
<1>3. CASE n >= 65536
  <2> DEFINE b == BigEndian(n, 8)
             p == <<129, 127>>
             h == p \o b
  <2>1. b \in Seq(Nat) /\ Len(b) = 8
    BY SMT DEF BigEndian, Place
  <2>2. \A i \in 1..5 : b[i] = 0
    BY SMT DEF BigEndian, Place
  <2>3. b[6] = Byte(n, 65536) /\ b[7] = Byte(n, 256) /\ b[8] = Byte(n, 1)
    BY SMT DEF BigEndian, Place, Byte
  <2>4. Value(b) = n
    <3> HIDE DEF b
    <3>1. Value(b) = 256 * (256 * b[6] + b[7]) + b[8]
      BY <2>1, <2>2, ValueOfEight
    <3> QED
      BY <2>3, <3>1, BytesOfThree, SMT DEF Byte
  <2>5. Len(h) = 10 /\ h[2] = 127 /\ SubSeq(h, 3, 10) = b
    <3>1. p \in Seq(Nat) /\ Len(p) = 2 /\ p[2] = 127
      BY SMT
    <3> HIDE DEF b, p
    <3>2. Len(h) = Len(b) + 2 /\ h[2] = p[2] /\ SubSeq(h, 3, Len(b) + 2) = b
      BY <2>1, <3>1, Prepended
    <3>3. Len(b) + 2 = 10
      BY <2>1
    <3> QED
      BY <3>1, <3>2, <3>3
  <2>6. Header(n) = h
    BY <1>3, SMT DEF Header
  <2> HIDE DEF h, b
  <2>7. h[2] % 128 = 127
    BY <2>5, SMT
  <2>8. ReadFrame(h).header = 10 /\ ReadFrame(h).payload = Value(SubSeq(h, 3, 10))
    BY <2>7, SMT DEF ReadFrame
  <2> QED
    BY <2>4, <2>5, <2>6, <2>8
<1> QED
  BY <1>1, <1>2, <1>3, SMT

FrameOf(n) == [header |-> Header(n), length |-> n]

Statuses == {0, 200, 400, 401, 403, 404, 500}

Exchange ==
    [request : Posts, state : {"sent", "running", "replied", "dead"}, status : Statuses, at : Nat,
     heard : {"waiting", "result", "error", "unknown"}]

\* The registered actions among the first entries of a request
Called(r, n) == {r.entries[i].name : i \in 1..n} \intersect Known

\* What is known of a request p that has run these names, while its handler and its client go on: nothing
\* has run before the handler has let it pass or when it is answered with an error, every entry that was
\* reached has been called, the client has heard the answer or none, and a list ran what is permitted.
AnswerFits(p, names) ==
    /\ p.state = "sent" => names = {} /\ p.at = 0
    /\ p.state = "running" => p.at <= Len(p.request.entries) /\ Called(p.request, p.at) \subseteq names
                              /\ Enforce(Checked(p.request))
    /\ p.state = "replied" => IF p.status = 200 THEN Called(p.request, Len(p.request.entries)) \subseteq names
                              ELSE p.status >= 400 /\ names = {}
    /\ p.heard = "result" => p.state = "replied" /\ p.status < 400
    /\ p.heard = "error" => p.state = "replied" /\ p.status >= 400
    /\ p.request.body = "list" => \A n \in names : IsAllowed(n)

PostInv ==
    /\ post \in [Clients -> Exchange]
    /\ ran = [c \in Clients |-> ran[c]]
    /\ \A c \in Clients : AnswerFits(post[c], ran[c])

FramesInv == stream.frames \in Seq({FrameOf(n) : n \in Lengths})

ServerInv == PostInv /\ LabelsBounded /\ FramesInv

\* What is refused is refused with an error; what is not has passed the access list.
LEMMA Refusing ==
    ASSUME NEW r
    PROVE  /\ Refusal(r) \in {0, 400, 401, 403, 404, 500}
           /\ Refusal(r) = 0 => Enforce(Checked(r))
BY DEF Refusal

\* A label beyond the bound is "other" and adds nothing.
LEMMA LabelStep == ASSUME LabelsBounded, NEW v, RecordLabel(v) PROVE LabelsBounded'
<1> DEFINE b == BoundedLabel(labels.known, v)
<1>1. labels' = [known |-> b.known, shown |-> labels.shown \union {b.label}]
  BY DEF RecordLabel
<1>2. CASE v \in labels.known
  BY <1>1, <1>2 DEF LabelsBounded, BoundedLabel
<1>3. CASE v \notin labels.known /\ Cardinality(labels.known) < MaxLabelValues
  <2>1. IsFiniteSet(labels.known \union {v}) /\ Cardinality(labels.known \union {v}) = Cardinality(labels.known) + 1
    BY <1>3, FS_AddElement DEF LabelsBounded
  <2>2. Cardinality(labels.known) \in Nat
    BY FS_CardinalityType DEF LabelsBounded
  <2> QED
    BY <1>1, <1>3, <2>1, <2>2, ServerAssumption DEF LabelsBounded, BoundedLabel
<1>4. CASE v \notin labels.known /\ ~(Cardinality(labels.known) < MaxLabelValues)
  BY <1>1, <1>4 DEF LabelsBounded, BoundedLabel
<1> QED
  BY <1>2, <1>3, <1>4

\* One exchange goes on; the others are left alone.
LEMMA OneExchange ==
    ASSUME PostInv, NEW c \in Clients, NEW p \in Exchange, NEW names, AnswerFits(p, names), acl' = acl,
           post' = [post EXCEPT ![c] = p], ran' = [ran EXCEPT ![c] = names]
    PROVE  PostInv'
<1>1. post' \in [Clients -> Exchange]
  BY DEF PostInv
<1>2. ran' = [d \in Clients |-> ran'[d]]
  BY DEF PostInv
<1>3. ASSUME NEW d \in Clients PROVE AnswerFits(post[d], ran[d])' 
  <2>1. AnswerFits(post'[d], ran'[d])
    BY <1>3 DEF PostInv
  <2> QED
    BY <2>1 DEF AnswerFits, Called, Enforce, Checked, NestedActionNames, IsAllowed
<1> QED
  BY <1>1, <1>2, <1>3 DEF PostInv, Exchange, Statuses

Exch(r, s, k, n, h) == [request |-> r, state |-> s, status |-> k, at |-> n, heard |-> h]

\* What a step of an exchange changes
LEMMA ExchangeParts ==
    ASSUME NEW q \in Exchange
    PROVE  /\ q = Exch(q.request, q.state, q.status, q.at, q.heard)
           /\ \A n : [q EXCEPT !.at = n] = Exch(q.request, q.state, q.status, n, q.heard)
           /\ \A h : [q EXCEPT !.heard = h] = Exch(q.request, q.state, q.status, q.at, h)
           /\ \A s : [q EXCEPT !.state = s] = Exch(q.request, s, q.status, q.at, q.heard)
           /\ \A s, k : Now(q, s, k) = Exch(q.request, s, k, q.at, q.heard)
<1>1. q = Exch(q.request, q.state, q.status, q.at, q.heard)
  BY DEF Exchange, Exch
<1>2. ASSUME NEW r, NEW s0, NEW k0, NEW n0, NEW h0, NEW s, NEW k
      PROVE  Now(Exch(r, s0, k0, n0, h0), s, k) = Exch(r, s, k, n0, h0)
  <2> DEFINE old == Exch(r, s0, k0, n0, h0)
             half == Exch(r, s, k0, n0, h0)
  <2>1. [old EXCEPT !.state = s] = half
    BY DEF Exch
  <2>2. [half EXCEPT !.status = k] = Exch(r, s, k, n0, h0)
    BY DEF Exch
  <2>3. Now(old, s, k) = Exch(r, s, k, n0, h0)
    <3> HIDE DEF old, half
    <3> QED
      BY <2>1, <2>2 DEF Now
  <2> QED
    BY <2>3
<1>3. ASSUME NEW n PROVE [q EXCEPT !.at = n] = Exch(q.request, q.state, q.status, n, q.heard)
  BY DEF Exchange, Exch
<1>4. ASSUME NEW h PROVE [q EXCEPT !.heard = h] = Exch(q.request, q.state, q.status, q.at, h)
  BY DEF Exchange, Exch
<1>5. ASSUME NEW s PROVE [q EXCEPT !.state = s] = Exch(q.request, s, q.status, q.at, q.heard)
  BY DEF Exchange, Exch
<1>6. ASSUME NEW s, NEW k PROVE Now(q, s, k) = Exch(q.request, s, k, q.at, q.heard)
  <2> DEFINE e == Exch(q.request, q.state, q.status, q.at, q.heard)
  <2>1. Now(e, s, k) = Exch(q.request, s, k, q.at, q.heard)
    BY ONLY <1>2
  <2>2. q = e
    BY <1>1
  <2> HIDE DEF e
  <2> QED
    BY <2>1, <2>2
<1> QED
  BY <1>1, <1>3, <1>4, <1>5, <1>6

\* An entry that was called is among the names.
LEMMA CalledNext ==
    ASSUME NEW r \in Posts, NEW n \in Nat, n < Len(r.entries), NEW names, NEW more \in MayRun(r.entries[n + 1]),
           Called(r, n) \subseteq names
    PROVE  Called(r, n + 1) \subseteq names \union more
<1>1. r.entries[n + 1].name \in Known => r.entries[n + 1].name \in more
  BY DEF MayRun
<1>2. \A i \in 1..(n + 1) : i \in 1..n \/ i = n + 1
  OBVIOUS
<1> QED
  BY <1>1, <1>2 DEF Called

\* What a list that passed the access list may run is permitted.
LEMMA MayRunAllowed ==
    ASSUME NEW r \in Posts, NEW i \in 1..Len(r.entries), NEW more \in MayRun(r.entries[i]),
           r.body = "list", Enforce(Checked(r)), NoName \notin Known
    PROVE  \A n \in more : IsAllowed(n)
<1>1. Enforce(r.entries) /\ i \in DOMAIN r.entries
  BY ServerAssumption DEF Checked
<1>2. more # {} => r.entries[i].name \in Known
  BY DEF MayRun
<1>3. more \subseteq {r.entries[i].name} \union NestedActionNames(r.entries[i])
  BY DEF MayRun
<1> QED
  BY <1>1, <1>2, <1>3 DEF Enforce

\* Only the handler of a request runs its actions, each once it has been let through.
LEMMA PostSteps == ASSUME PostInv, Exchanges PROVE PostInv'
<1> SUFFICES ASSUME NEW c \in Clients,
                    DoPost(c) \/ RunEntry(c) \/ SendResults(c) \/ HandlerDies(c) \/ ClientHears(c) \/ ClientGivesUp(c)
             PROVE  PostInv'
  BY DEF Exchanges
<1> DEFINE q == post[c]
           names == ran[c]
<1>1. q \in Exchange /\ AnswerFits(q, names) /\ c \in DOMAIN post /\ ran = [ran EXCEPT ![c] = names]
  BY DEF PostInv
<1>2. /\ q.request \in Posts /\ q.state \in {"sent", "running", "replied", "dead"} /\ q.status \in Statuses
      /\ q.at \in Nat /\ q.heard \in {"waiting", "result", "error", "unknown"}
  BY <1>1 DEF Exchange
<1>3. Len(q.request.entries) \in Nat
  BY <1>2, ServerAssumption
<1>4. CASE DoPost(c)
  <2> DEFINE k == Refusal(q.request)
             s == IF k = 0 THEN "running" ELSE "replied"
             p == Exch(q.request, s, k, q.at, q.heard)
  <2>1. q.state = "sent" /\ post' = [post EXCEPT ![c] = Now(q, s, k)] /\ acl' = acl /\ ran' = ran
    BY <1>4 DEF DoPost
  <2>2. k \in {0, 400, 401, 403, 404, 500} /\ (k = 0 => Enforce(Checked(q.request)))
    BY Refusing
  <2>3. Now(q, s, k) = p
    BY ONLY <1>1, ExchangeParts
  <2> HIDE DEF k
  <2>4. p \in Exchange
    BY <1>2, <2>2 DEF Exchange, Exch, Statuses
  <2>5. AnswerFits(p, names)
    <3>1. Called(q.request, 0) = {}
      BY DEF Called
    <3> QED
      BY <1>1, <1>2, <1>3, <2>1, <2>2, <3>1 DEF AnswerFits, Exch
  <2> HIDE DEF p
  <2> QED
    BY <1>1, <2>1, <2>3, <2>4, <2>5, OneExchange
<1>5. CASE RunEntry(c)
  <2> DEFINE p == Exch(q.request, q.state, q.status, q.at + 1, q.heard)
  <2>1. /\ q.state = "running" /\ q.at < Len(q.request.entries)
        /\ post' = [post EXCEPT ![c] = [q EXCEPT !.at = q.at + 1]] /\ acl' = acl
    BY <1>5 DEF RunEntry
  <2>2. PICK more \in MayRun(q.request.entries[q.at + 1]) : ran' = [ran EXCEPT ![c] = names \union more]
    BY <1>5 DEF RunEntry
  <2>3. [q EXCEPT !.at = q.at + 1] = p
    BY <1>1, ExchangeParts
  <2>4. Called(q.request, q.at + 1) \subseteq names \union more
    BY <1>1, <1>2, <2>1, CalledNext DEF AnswerFits
  <2>5. q.request.body = "list" => \A n \in names \union more : IsAllowed(n)
    <3>1. q.at + 1 \in 1..Len(q.request.entries)
      BY <1>2, <1>3, <2>1
    <3>2. Enforce(Checked(q.request)) /\ (q.request.body = "list" => \A n \in names : IsAllowed(n))
      BY <1>1, <2>1 DEF AnswerFits
    <3> HIDE DEF q, names
    <3> QED
      BY <1>2, <3>1, <3>2, MayRunAllowed, ServerAssumption DEF NoName
  <2>6. AnswerFits(p, names \union more)
    BY <1>1, <1>2, <1>3, <2>1, <2>4, <2>5 DEF AnswerFits, Exch
  <2>7. p \in Exchange
    BY <1>2 DEF Exchange, Exch
  <2> HIDE DEF p
  <2> QED
    BY <2>1, <2>2, <2>3, <2>6, <2>7, OneExchange
<1>6. CASE SendResults(c)
  <2> DEFINE p == Exch(q.request, "replied", 200, q.at, q.heard)
  <2>1. /\ q.state = "running" /\ q.at = Len(q.request.entries) /\ acl' = acl /\ ran' = ran
        /\ post' = [post EXCEPT ![c] = Now(q, "replied", 200)]
    BY <1>6 DEF SendResults
  <2>2. Now(q, "replied", 200) = p
    BY ONLY <1>1, ExchangeParts
  <2>3. AnswerFits(p, names)
    BY <1>1, <1>2, <2>1 DEF AnswerFits, Exch
  <2>4. p \in Exchange
    BY <1>2 DEF Exchange, Exch, Statuses
  <2> HIDE DEF p
  <2> QED
    BY <1>1, <2>1, <2>2, <2>3, <2>4, OneExchange
<1>7. CASE HandlerDies(c)
  <2> DEFINE p == Exch(q.request, "dead", q.status, q.at, q.heard)
  <2>1. q.state = "running" /\ acl' = acl /\ ran' = ran /\ post' = [post EXCEPT ![c] = [q EXCEPT !.state = "dead"]]
    BY <1>7 DEF HandlerDies
  <2>2. [q EXCEPT !.state = "dead"] = p
    BY <1>1, ExchangeParts
  <2>3. AnswerFits(p, names)
    BY <1>1, <1>2, <2>1 DEF AnswerFits, Exch
  <2>4. p \in Exchange
    BY <1>2 DEF Exchange, Exch
  <2> HIDE DEF p
  <2> QED
    BY <1>1, <2>1, <2>2, <2>3, <2>4, OneExchange
<1>8. CASE ClientHears(c) \/ ClientGivesUp(c)
  <2>1. PICK h : /\ post' = [post EXCEPT ![c] = [q EXCEPT !.heard = h]] /\ acl' = acl /\ ran' = ran
                 /\ h = "unknown" \/ (h = DecodeResponse(q.status) /\ q.state = "replied")
    BY <1>8 DEF ClientHears, ClientGivesUp
  <2> DEFINE p == Exch(q.request, q.state, q.status, q.at, h)
  <2>2. [q EXCEPT !.heard = h] = p
    BY <1>1, ExchangeParts
  <2>3. AnswerFits(p, names)
    BY <1>1, <1>2, <2>1 DEF AnswerFits, Exch, DecodeResponse, Statuses
  <2>4. p \in Exchange
    BY <1>2, <2>1 DEF Exchange, Exch, DecodeResponse
  <2> HIDE DEF p
  <2> QED
    BY <1>1, <2>1, <2>2, <2>3, <2>4, OneExchange
<1> QED
  BY <1>4, <1>5, <1>6, <1>7, <1>8

\* Every step of the server and its clients keeps the invariant.
LEMMA ServerSteps == ASSUME ServerInv, [ServerNext]_serverVars PROVE ServerInv'
<1> USE DEF ServerInv
<1>1. CASE Exchanges
  BY <1>1, PostSteps DEF Exchanges, DoPost, RunEntry, SendResults, HandlerDies, ClientHears, ClientGivesUp,
                         LabelsBounded, FramesInv
<1>2. ASSUME NEW v \in LabelValues, RecordLabel(v) PROVE ServerInv'
  BY <1>2, LabelStep DEF RecordLabel, PostInv, AnswerFits, FramesInv, Called, Enforce, Checked, NestedActionNames, IsAllowed
<1>3. ASSUME NEW n \in Lengths, SendFrame(n) PROVE ServerInv'
  <2>1. FramesInv'
    BY <1>3, AppendProperties DEF SendFrame, FramesInv, FrameOf
  <2> QED
    BY <1>3, <2>1 DEF SendFrame, PostInv, AnswerFits, LabelsBounded, Called, Enforce, Checked, NestedActionNames, IsAllowed
<1>4. CASE StreamEnds
  BY <1>4 DEF StreamEnds, PostInv, AnswerFits, LabelsBounded, FramesInv, Called, Enforce, Checked, NestedActionNames, IsAllowed
<1>5. CASE UNCHANGED serverVars
  BY <1>5 DEF serverVars, PostInv, AnswerFits, LabelsBounded, FramesInv, Called, Enforce, Checked, NestedActionNames, IsAllowed
<1> QED
  BY <1>1, <1>2, <1>3, <1>4, <1>5 DEF ServerNext

\* It holds when the server starts.
LEMMA ServerStarts == ServerInit => ServerInv
<1> SUFFICES ASSUME ServerInit PROVE ServerInv
  OBVIOUS
<1>1. LabelsBounded
  BY FS_EmptySet, ServerAssumption DEF ServerInit, LabelsBounded
<1>2. PostInv
  BY DEF ServerInit, PostInv, Exchange, Statuses, AnswerFits
<1>3. FramesInv
  BY DEF ServerInit, FramesInv
<1> QED
  BY <1>1, <1>2, <1>3 DEF ServerInv

\* ServersAnswer: for any access list, requests and clients, labels and payloads, what a client hears is
\* what was run, a scrape shows a bounded number of labels, and a frame is read back as it was sent.
THEOREM AnswersAreTrue == ServerSpec => []ServersAnswer
<1>1. ServerInv => ServersAnswer
  <2> SUFFICES ASSUME ServerInv PROVE ServersAnswer
    OBVIOUS
  <2>1. HeardIsTrue
    <3> SUFFICES ASSUME NEW c \in Clients
                 PROVE  LET sent == post[c].request
                        IN  /\ post[c].heard = "result" =>
                                   {sent.entries[i].name : i \in DOMAIN sent.entries} \intersect Known \subseteq ran[c]
                            /\ post[c].heard = "error" => ran[c] = {}
                            /\ sent.body = "list" => \A n \in ran[c] : IsAllowed(n)
      BY DEF HeardIsTrue
    <3>1. AnswerFits(post[c], ran[c]) /\ post[c] \in Exchange
      BY DEF ServerInv, PostInv
    <3>2. DOMAIN post[c].request.entries = 1..Len(post[c].request.entries)
      BY <3>1, ServerAssumption DEF Exchange
    <3> QED
      BY <3>1, <3>2 DEF AnswerFits, Exchange, Statuses, Called
  <2>2. ASSUME NEW i \in DOMAIN stream.frames
        PROVE  /\ ReadFrame(stream.frames[i].header).header = Len(stream.frames[i].header)
               /\ ReadFrame(stream.frames[i].header).payload = stream.frames[i].length
    <3>1. PICK n \in Lengths : stream.frames[i] = FrameOf(n)
      BY <2>2 DEF ServerInv, FramesInv
    <3>2. n \in Nat /\ InThreeBytes(n)
      BY ServerAssumption DEF InThreeBytes
    <3>3. FrameOf(n).header = Header(n) /\ FrameOf(n).length = n
      BY DEF FrameOf
    <3> QED
      BY <3>1, <3>2, <3>3, HeadersReadBack
  <2> QED
    BY <2>1, <2>2 DEF ServerInv, ServersAnswer, FramesAgree
<1> QED
  BY <1>1, ServerSteps, ServerStarts, PTL DEF ServerSpec
=============================================================================
