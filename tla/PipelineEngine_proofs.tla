----------------------- MODULE PipelineEngine_proofs -----------------------
(* Proofs about PipelineEngine for every plan: any finite set of tasks, any    *)
(* dependencies, conditions, timeouts and retry policies, any number of        *)
(* workers, a store that may fail and a coordinator that may be interrupted.   *)
EXTENDS PipelineEngine, FiniteSetTheorems, WellFoundedInduction, TLAPS

\* The groups of variables that actions leave unchanged
USE DEF run, queues, books, engine, outside, events, flightVars, store, history, Goto

-----------------------------------------------------------------------------
(* Types *)

\* A checkpoint of tasks keeps the types.
LEMMA SaveTasksTypes ==
    ASSUME TypeOK, NEW S, NEW STATE s, s \in TaskStatus, SaveTasks(S, s)
    PROVE  stored' \in [Tasks -> TaskStatus] /\ storedRun' = storedRun /\ recorded' = recorded
  BY DEF TypeOK, SaveTasks

\* A checkpoint of the run keeps the types.
LEMMA SaveRunTypes ==
    ASSUME TypeOK, status' \in [Tasks -> TaskStatus], runStatus' \in RunStatus,
           \/ SaveRun(status', runStatus') \/ SaveRun(status', "failed") \/ SaveRun(status', "running")
    PROVE  /\ stored' \in [Tasks -> TaskStatus]
           /\ storedRun' \in RunStatus \union {"absent"}
           /\ recorded' \in BOOLEAN
  BY DEF TypeOK, SaveRun, RunStatus

\* What a locked _settle writes keeps the types.
LEMMA SettleTypes ==
    ASSUME TypeOK, NEW t \in Tasks, NEW STATE s, s \in TaskStatus, NEW STATE e,
           e \in TaskStatus \union {"none", "started", "retrying"}, Settle(t, s, e)
    PROVE  /\ settled' \in [Tasks -> BOOLEAN]
           /\ status' \in [Tasks -> TaskStatus]
           /\ stored' \in [Tasks -> TaskStatus]
           /\ storedRun' = storedRun
           /\ recorded' = recorded
           /\ said' \in [Tasks -> TaskStatus \union {"none", "started", "retrying"}]
<1>1. settled' \in [Tasks -> BOOLEAN] /\ status' \in [Tasks -> TaskStatus]
  BY DEF Settle, TypeOK
<1>2. SaveTasks({t}, s) \/ UNCHANGED store
  BY DEF Settle, SaveTask
<1>3. stored' \in [Tasks -> TaskStatus] /\ storedRun' = storedRun /\ recorded' = recorded
  BY <1>2, SaveTasksTypes DEF TypeOK
<1>4. said' \in [Tasks -> TaskStatus \union {"none", "started", "retrying"}]
  BY DEF Settle, TypeOK
<1> QED
  BY <1>1, <1>3, <1>4

\* A verdict of _gate is a final state a task may end in without having run.
LEMMA VerdictTypes ==
    ASSUME NEW t \in Tasks, NEW v \in Gate(t) \ {Admitted}
    PROVE  v.status \in {"skipped", "failed"} /\ v.reason \in Reason
  BY PlanAssumption DEF Gate, ConditionVerdicts, SeenBefore, Verdict, Admitted, Reason, WhenKind

\* The words the engine writes into records are members of TaskStatus and RunStatus.
LEMMA StatusWords ==
    /\ \A s \in {"cancelled", "failed", "timeout", "succeeded", "running", "pending", "skipped"} :
          s \in TaskStatus
    /\ \A s \in {"running", "succeeded", "failed", "cancelled"} : s \in RunStatus
  BY DEF TaskStatus, OpenStatus, FailureStatus, RunStatus

\* A run starts well typed, from whatever a resume carries over.
LEMMA InitTypes == Init => TypeOK
<1> SUFFICES ASSUME Init PROVE TypeOK
  OBVIOUS
<1>1. \A t \in Tasks : Cardinality(Deps[t] \ carried) \in Nat
  BY PlanAssumption, FS_Subset, FS_CardinalityType
<1>2. carried \subseteq Tasks
  BY PlanAssumption DEF Init
<1>3. status \in [Tasks -> TaskStatus] /\ stored \in [Tasks -> TaskStatus]
  BY StatusWords DEF Init
<1>4. attempts \in [Tasks -> Nat] /\ blocked \in [Tasks -> Int]
  BY <1>1 DEF Init
<1> QED
  BY <1>2, <1>3, <1>4 DEF Init, TypeOK, EnginePc, WorkerPc, RunStatus, Reason

\* Every step of Engine.execute keeps the types.
LEMMA CoordinatorTypes == TypeOK /\ Coordinator => TypeOK'
<1> SUFFICES ASSUME TypeOK, Coordinator PROVE TypeOK'
  OBVIOUS
<1> USE StatusWords
<1>1. CASE Start
  BY <1>1, SaveRunTypes DEF Start, TypeOK, EnginePc
<1>2. CASE LoopEnds
  BY <1>2 DEF LoopEnds, TypeOK, EnginePc
<1>3. CASE LoopTurns
  BY <1>3 DEF LoopTurns, TypeOK, EnginePc
<1>4. CASE ObserveCancel
  BY <1>4, SaveTasksTypes DEF ObserveCancel, TypeOK, EnginePc
<1>5. CASE AdmitDone
  BY <1>5 DEF AdmitDone, TypeOK, EnginePc
<1>6. CASE LaunchDone
  BY <1>6 DEF LaunchDone, TypeOK, EnginePc
<1>7. CASE AwaitNothing
  BY <1>7 DEF AwaitNothing, Late, TypeOK, EnginePc
<1>8. CASE ExpireDone
  BY <1>8 DEF ExpireDone, TypeOK, EnginePc
<1>9. CASE Conclude
  BY <1>9, SaveRunTypes DEF Conclude, RunVerdict, TypeOK, EnginePc
<1>10. CASE Tell
  BY <1>10 DEF Tell, TypeOK, EnginePc
<1>11. CASE MarkDone
  BY <1>11 DEF MarkDone, TypeOK, EnginePc
<1>12. CASE AbortClose
  <2>1. status' \in [Tasks -> TaskStatus] /\ runStatus' \in RunStatus
    BY <1>12 DEF AbortClose, TypeOK
  <2> QED
    BY <1>12, <2>1, SaveRunTypes DEF AbortClose, TypeOK, EnginePc
<1>13. ASSUME NEW t \in Tasks, CoordinatorTask(t) PROVE TypeOK'
  <2>1. CASE AdmitToRun(t)
    BY <2>1 DEF AdmitToRun, TypeOK
  <2>2. CASE AdmitToEnd(t)
    <3>1. PICK v \in Gate(t) \ {Admitted} :
             /\ status' = [status EXCEPT ![t] = v.status]
             /\ reason' = [reason EXCEPT ![t] = v.reason]
             /\ SaveTask(t, v.status)
             /\ said' = IF v.status = "failed" THEN [said EXCEPT ![t] = "failed"] ELSE said
      BY <2>2 DEF AdmitToEnd
    <3>2. v.status \in TaskStatus /\ v.reason \in Reason
      BY VerdictTypes
    <3>3. stored' \in [Tasks -> TaskStatus] /\ storedRun' = storedRun /\ recorded' = recorded
      BY <3>1, <3>2, SaveTasksTypes DEF SaveTask
    <3>4. blocked' \in [Tasks -> Int] /\ ready' \subseteq Tasks
      BY <2>2 DEF AdmitToEnd, Release, BlockedAfter, Unblocked, Dependents, TypeOK
    <3> QED
      BY <2>2, <3>1, <3>2, <3>3, <3>4 DEF AdmitToEnd, TypeOK
  <2>3. CASE LaunchTask(t)
    BY <2>3 DEF LaunchTask, TypeOK, WorkerPc
  <2>4. CASE AwaitLanding(t)
    <3>1. blocked' \in [Tasks -> Int] /\ ready' \subseteq Tasks
      BY <2>4 DEF AwaitLanding, Release, BlockedAfter, Unblocked, Dependents, TypeOK
    <3> QED
      BY <2>4, <3>1 DEF AwaitLanding, Late, TypeOK, EnginePc
  <2>5. CASE ExpireSettled(t)
    BY <2>5 DEF ExpireSettled, TypeOK
  <2>6. CASE ExpireAbandon(t)
    BY <2>6 DEF ExpireAbandon, TypeOK
  <2>7. CASE TimeOut(t)
    <3>1. blocked' \in [Tasks -> Int] /\ ready' \subseteq Tasks
      BY <2>7 DEF TimeOut, Release, BlockedAfter, Unblocked, Dependents, TypeOK
    <3>2. stored' \in [Tasks -> TaskStatus] /\ storedRun' = storedRun /\ recorded' = recorded
      BY <2>7, SaveTasksTypes DEF TimeOut, SaveTask
    <3> QED
      BY <2>7, <3>1, <3>2 DEF TimeOut, TypeOK
  <2>8. CASE AbortFlight(t)
    BY <2>8 DEF AbortFlight, TypeOK
  <2> QED
    BY <1>13, <2>1, <2>2, <2>3, <2>4, <2>5, <2>6, <2>7, <2>8 DEF CoordinatorTask
<1> QED
  BY <1>1, <1>2, <1>3, <1>4, <1>5, <1>6, <1>7, <1>8, <1>9, <1>10, <1>11, <1>12, <1>13
  DEF Coordinator

\* Every step of a task thread (Worker.__call__) keeps the types.
LEMMA ThreadTypes == ASSUME TypeOK, NEW t \in Tasks, Thread(t) PROVE TypeOK'
<1> USE StatusWords
<1>1. CASE BeginCancelled(t)
  BY <1>1, SettleTypes DEF BeginCancelled, TypeOK, WorkerPc
<1>2. CASE BeginAbandoned(t)
  BY <1>2 DEF BeginAbandoned, TypeOK, WorkerPc
<1>3. CASE Begin(t)
  <2>1. SaveTasks({t}, status[t]) \/ UNCHANGED store
    BY <1>3 DEF Begin, SaveTask
  <2>2. stored' \in [Tasks -> TaskStatus] /\ storedRun' = storedRun /\ recorded' = recorded
    BY <2>1, SaveTasksTypes DEF TypeOK
  <2>3. deadline' \in [Tasks -> {"none", "set", "past"}] /\ attempts' \in [Tasks -> Nat]
    BY <1>3 DEF Begin, TypeOK
  <2>4. wpc' \in [Tasks -> WorkerPc]
    BY <1>3 DEF Begin, TypeOK, WorkerPc
  <2>5. said' \in [Tasks -> TaskStatus \union {"none", "started", "retrying"}]
    BY <1>3 DEF Begin, TypeOK
  <2> QED
    BY <1>3, <2>2, <2>3, <2>4, <2>5 DEF Begin, TypeOK
<1>4. CASE Invoke(t)
  BY <1>4 DEF Invoke, TypeOK, WorkerPc
<1>5. CASE Finish(t)
  <2>1. Outcome(wpc[t]) \in TaskStatus
    BY <1>5 DEF Finish, Outcome
  <2> QED
    BY <1>5, <2>1, SettleTypes DEF Finish, TypeOK, WorkerPc
<1>6. CASE GiveUp(t)
  <2>1. Settle(t, "failed", "failed") \/ Settle(t, "cancelled", "cancelled")
    BY <1>6 DEF GiveUp
  <2> QED
    BY <1>6, <2>1, SettleTypes DEF GiveUp, TypeOK, WorkerPc
<1>7. CASE TryAgain(t)
  <2>1. SaveTasks({t}, status[t]) \/ UNCHANGED store
    BY <1>7 DEF TryAgain, SaveTask
  <2>2. stored' \in [Tasks -> TaskStatus] /\ storedRun' = storedRun /\ recorded' = recorded
    BY <2>1, SaveTasksTypes DEF TypeOK
  <2> QED
    BY <1>7, <2>2 DEF TryAgain, TypeOK, WorkerPc
<1>8. CASE Land(t)
  BY <1>8 DEF Land, TypeOK, WorkerPc
<1> QED
  BY <1>1, <1>2, <1>3, <1>4, <1>5, <1>6, <1>7, <1>8 DEF Thread, Runtime

\* Every step of the run, a cancellation and the clock included, keeps the types.
LEMMA NextTypes == TypeOK /\ [Next]_vars => TypeOK'
<1> SUFFICES ASSUME TypeOK, [Next]_vars PROVE TypeOK'
  OBVIOUS
<1>1. CASE Interrupt
  BY <1>1 DEF Interrupt, TypeOK, EnginePc
<1>2. ASSUME NEW t \in Tasks, LaunchFails(t) PROVE TypeOK'
  BY <1>2, StatusWords DEF LaunchFails, TypeOK, EnginePc
<1>3. ASSUME NEW t \in Tasks, DeadlinePasses(t) PROVE TypeOK'
  BY <1>3 DEF DeadlinePasses, TypeOK
<1>4. CASE Cancel
  BY <1>4 DEF Cancel, TypeOK
<1>5. CASE UNCHANGED vars
  BY <1>5 DEF vars, TypeOK
<1> QED
  BY <1>1, <1>2, <1>3, <1>4, <1>5, CoordinatorTypes, ThreadTypes DEF Next, Over

\* Every variable of the engine keeps the type its counterpart in the code has, for every
\* plan and every interleaving of coordinator and task threads.
THEOREM TypeCorrect == Spec => []TypeOK
  BY InitTypes, NextTypes, PTL DEF Spec

-----------------------------------------------------------------------------
(* The flight invariant *)

\* A run starts with no flight, and its counts are those of _prepare.
LEMMA InitFlights == Init => FlightInv
<1> SUFFICES ASSUME Init PROVE FlightInv
  OBVIOUS
<1>1. \A t \in ready : blocked[t] = 0
  <2> SUFFICES ASSUME NEW t \in ready PROVE blocked[t] = 0
    OBVIOUS
  <2>1. t \in Tasks /\ Deps[t] \ carried = {}
    BY DEF Init
  <2> QED
    BY <2>1, FS_EmptySet DEF Init
<1> QED
  BY <1>1 DEF Init, FlightInv, PendingIsUntouched, QueuesArePending, SettledOrAbandoned,
      OpenThreadsAreRunning, UnsettledIsRunning, SweepOnTheBooks, OneStory, Working, Closing,
      ClosingEvent, TaskStatus, OpenStatus, FailureStatus, IsFinal

\* A release counts down, and makes ready only pending tasks that waited for this one last.
LEMMA ReleaseCounts ==
    ASSUME TypeOK, NEW t \in Tasks, Release(t)
    PROVE  /\ \A u \in Tasks : blocked'[u] \in Int /\ blocked'[u] <= blocked[u]
           /\ ready' \subseteq Tasks
           /\ \A u \in ready' : \/ u \in ready
                                \/ status[u] = "pending" /\ blocked'[u] = 0 /\ blocked[u] = 1
<1>1. \A u \in Tasks : blocked'[u] = IF t \in Deps[u] THEN blocked[u] - 1 ELSE blocked[u]
  BY DEF Release, BlockedAfter
<1>2. \A u \in ready' : u \in ready \/ u \in Unblocked(t)
  BY DEF Release
<1>3. \A u \in Unblocked(t) : u \in Tasks /\ t \in Deps[u] /\ status[u] = "pending" /\ blocked[u] - 1 = 0
  BY DEF Unblocked, Dependents, BlockedAfter
<1> QED
  BY <1>1, <1>2, <1>3 DEF TypeOK

\* The coordinator keeps queues, flights, records and events in step.
LEMMA CoordinatorFlights == TypeOK /\ FlightInv /\ Coordinator => FlightInv'
<1> SUFFICES ASSUME TypeOK, FlightInv, Coordinator PROVE FlightInv'
  OBVIOUS
<1> USE DEF FlightInv, PendingIsUntouched, QueuesArePending, SettledOrAbandoned,
      OpenThreadsAreRunning, UnsettledIsRunning, SweepOnTheBooks, OneStory, Working, Closing,
      IsFinal, OpenStatus, ClosingEvent
<1>1. CASE Start
  BY <1>1 DEF Start, TypeOK, SaveRun
<1>2. CASE LoopEnds
  BY <1>2 DEF LoopEnds, TypeOK, Busy
<1>3. CASE LoopTurns
  BY <1>3 DEF LoopTurns, TypeOK
<1>4. CASE ObserveCancel
  BY <1>4 DEF ObserveCancel, TypeOK, SaveTasks, Pending
<1>5. CASE AdmitDone
  BY <1>5 DEF AdmitDone, TypeOK
<1>6. CASE LaunchDone
  BY <1>6 DEF LaunchDone, TypeOK
<1>7. CASE AwaitNothing
  BY <1>7 DEF AwaitNothing, TypeOK, Late
<1>8. CASE ExpireDone
  BY <1>8 DEF ExpireDone, TypeOK
<1>9. CASE Conclude
  BY <1>9 DEF Conclude, TypeOK, SaveRun
<1>10. CASE Tell
  BY <1>10 DEF Tell, TypeOK
<1>11. CASE MarkDone
  BY <1>11 DEF MarkDone, TypeOK
<1>12. CASE AbortClose
  BY <1>12 DEF AbortClose, TypeOK, SaveRun
<1>13. ASSUME NEW t \in Tasks, CoordinatorTask(t) PROVE FlightInv'
  <2>1. CASE AdmitToRun(t)
    BY <2>1, PlanAssumption DEF AdmitToRun, TypeOK
  <2>2. CASE AdmitToEnd(t)
    BY <2>2, PlanAssumption, VerdictTypes DEF AdmitToEnd, TypeOK, Release, Unblocked, Dependents, BlockedAfter, SaveTask, SaveTasks
  <2>3. CASE LaunchTask(t)
    BY <2>3, PlanAssumption DEF LaunchTask, TypeOK
  <2>4. CASE AwaitLanding(t)
    <3>1. Release(t) \/ UNCHANGED <<blocked, ready>>
      BY <2>4 DEF AwaitLanding
    <3>2. /\ \A u \in Tasks : blocked'[u] \in Int /\ blocked'[u] <= blocked[u]
          /\ ready' \subseteq Tasks
          /\ \A u \in ready' : \/ u \in ready
                               \/ status[u] = "pending" /\ blocked'[u] = 0 /\ blocked[u] = 1
      BY <3>1, ReleaseCounts DEF TypeOK
    <3>3. \A u \in ready' : u \notin waiting
      BY <2>4, <3>2 DEF AwaitLanding, TypeOK
    <3>4. /\ pc = "await" /\ pc' = "expire" /\ flights' = flights \ {t} /\ sweep' \subseteq flights'
          /\ t \in inbox /\ inbox' = inbox \ {t}
          /\ UNCHANGED <<waiting, status, wpc, settled, abandoned, said, stored, returned, carried>>
      BY <2>4 DEF AwaitLanding, Late
    <3>20. PendingIsUntouched'
      BY <3>1, <3>2, <3>3, <3>4 DEF TypeOK
    <3>21. QueuesArePending'
      BY <3>2, <3>3, <3>4 DEF TypeOK
    <3>22. SettledOrAbandoned'
      BY <3>1, <3>2, <3>3, <3>4 DEF TypeOK
    <3>23. OpenThreadsAreRunning'
      BY <3>1, <3>2, <3>3, <3>4 DEF TypeOK
    <3>24. UnsettledIsRunning'
      BY <3>1, <3>2, <3>3, <3>4 DEF TypeOK
    <3>25. SweepOnTheBooks'
      BY <3>1, <3>2, <3>3, <3>4 DEF TypeOK
    <3>26. OneStory'
      BY <3>1, <3>2, <3>3, <3>4 DEF TypeOK
    <3> QED
      BY <3>20, <3>21, <3>22, <3>23, <3>24, <3>25, <3>26
  <2>5. CASE ExpireSettled(t)
    BY <2>5, PlanAssumption DEF ExpireSettled, TypeOK
  <2>6. CASE ExpireAbandon(t)
    BY <2>6, PlanAssumption DEF ExpireAbandon, TypeOK
  <2>7. CASE TimeOut(t)
    BY <2>7, PlanAssumption DEF TimeOut, TypeOK, Release, Unblocked, Dependents, BlockedAfter, SaveTask, SaveTasks
  <2>8. CASE AbortFlight(t)
    <3>1. /\ pc = "abort" /\ pc' = "abort" /\ sweep' = sweep \ {t} /\ t \in sweep
          /\ UNCHANGED <<queues, flights, inbox, status, wpc, settled, said, stored, returned, carried>>
      BY <2>8 DEF AbortFlight
    <3>2. /\ abandoned' \in [Tasks -> BOOLEAN] /\ abandoned'[t] = ~settled[t]
          /\ \A u \in Tasks \ {t} : abandoned'[u] = abandoned[u]
      BY <2>8 DEF AbortFlight, TypeOK
    <3>20. PendingIsUntouched'
      BY <3>1, <3>2 DEF TypeOK
    <3>21. QueuesArePending'
      BY <3>1, <3>2 DEF TypeOK
    <3>22. SettledOrAbandoned'
      BY <3>1, <3>2 DEF TypeOK
    <3>23. OpenThreadsAreRunning'
      BY <3>1, <3>2 DEF TypeOK
    <3>24. UnsettledIsRunning'
      BY <3>1, <3>2 DEF TypeOK
    <3>25. SweepOnTheBooks'
      BY <3>1, <3>2 DEF TypeOK
    <3>26. OneStory'
      BY <3>1, <3>2 DEF TypeOK
    <3> QED
      BY <3>20, <3>21, <3>22, <3>23, <3>24, <3>25, <3>26
  <2> QED
    BY <1>13, <2>1, <2>2, <2>3, <2>4, <2>5, <2>6, <2>7, <2>8 DEF CoordinatorTask
<1> QED
  BY <1>1, <1>2, <1>3, <1>4, <1>5, <1>6, <1>7, <1>8, <1>9, <1>10, <1>11, <1>12, <1>13
  DEF Coordinator

\* A task thread keeps flights, records and events in step, abandoned or not.
LEMMA ThreadFlights == ASSUME TypeOK, FlightInv, NEW t \in Tasks, Thread(t) PROVE FlightInv'
<1> USE DEF FlightInv, PendingIsUntouched, QueuesArePending, SettledOrAbandoned,
      OpenThreadsAreRunning, UnsettledIsRunning, SweepOnTheBooks, OneStory, Working, Closing,
      IsFinal, OpenStatus, ClosingEvent
<1>1. CASE BeginCancelled(t)
  BY <1>1 DEF BeginCancelled, TypeOK, Settle, MaySettle, SaveTask, SaveTasks
<1>2. CASE BeginAbandoned(t)
  BY <1>2 DEF BeginAbandoned, TypeOK
<1>3. CASE Begin(t)
  <2>1. wpc[t] = "begin" /\ status[t] = "running" /\ t \in flights /\ ~settled[t]
    BY <1>3 DEF Begin
  <2>2. /\ wpc' \in [Tasks -> WorkerPc] /\ wpc'[t] \in {"call", "refused"}
        /\ \A u \in Tasks \ {t} : wpc'[u] = wpc[u]
    BY <1>3 DEF Begin, TypeOK, WorkerPc
  <2>3. \A u \in Tasks : said'[u] \in {said[u], "started"}
    BY <1>3 DEF Begin, TypeOK
  <2>4. \A u \in Tasks : stored'[u] = stored[u] \/ (u = t /\ stored'[u] = status[u])
    BY <1>3 DEF Begin, TypeOK, SaveTask, SaveTasks
  <2>5. UNCHANGED <<pc, queues, books, status, settled, abandoned, history>>
    BY <1>3 DEF Begin
  <2>20. PendingIsUntouched'
    BY <2>1, <2>2, <2>3, <2>4, <2>5 DEF TypeOK, TaskStatus, FailureStatus
  <2>21. QueuesArePending'
    BY <2>1, <2>2, <2>3, <2>4, <2>5 DEF TypeOK, TaskStatus, FailureStatus
  <2>22. SettledOrAbandoned'
    BY <2>1, <2>2, <2>3, <2>4, <2>5 DEF TypeOK, TaskStatus, FailureStatus
  <2>23. OpenThreadsAreRunning'
    BY <2>1, <2>2, <2>3, <2>4, <2>5 DEF TypeOK, TaskStatus, FailureStatus
  <2>24. UnsettledIsRunning'
    BY <2>1, <2>2, <2>3, <2>4, <2>5 DEF TypeOK, TaskStatus, FailureStatus
  <2>25. SweepOnTheBooks'
    BY <2>1, <2>2, <2>3, <2>4, <2>5 DEF TypeOK, TaskStatus, FailureStatus
  <2>26. OneStory'
    BY <2>1, <2>2, <2>3, <2>4, <2>5 DEF TypeOK, TaskStatus, FailureStatus
  <2> QED
    BY <2>20, <2>21, <2>22, <2>23, <2>24, <2>25, <2>26
<1>4. CASE Invoke(t)
  <2>1. status[t] = "running" \/ abandoned[t]
    BY <1>4 DEF Invoke
  <2>2. PICK outcome \in {"returned", "raised", "refused", "stopped"} :
           /\ wpc' = [wpc EXCEPT ![t] = outcome]
           /\ returned' = IF outcome = "returned" THEN [returned EXCEPT ![t] = TRUE] ELSE returned
    BY <1>4 DEF Invoke
  <2>4. wpc'[t] = outcome /\ \A u \in Tasks \ {t} : wpc'[u] = wpc[u]
    BY <2>2 DEF TypeOK
  <2>5. \A u \in Tasks : returned[u] => returned'[u]
    BY <2>2 DEF TypeOK
  <2>6. outcome = "returned" => returned'[t]
    BY <2>2 DEF TypeOK
  <2>3. wpc[t] = "call" /\ UNCHANGED <<pc, queues, books, status, settled, abandoned, said, stored, carried>>
    BY <1>4 DEF Invoke
  <2>20. PendingIsUntouched'
    BY <2>1, <2>3, <2>4, <2>5, <2>6 DEF TypeOK
  <2>21. QueuesArePending'
    BY <2>1, <2>3, <2>4, <2>5, <2>6 DEF TypeOK
  <2>22. SettledOrAbandoned'
    BY <2>1, <2>3, <2>4, <2>5, <2>6 DEF TypeOK
  <2>23. OpenThreadsAreRunning'
    BY <2>1, <2>3, <2>4, <2>5, <2>6 DEF TypeOK
  <2>24. UnsettledIsRunning'
    BY <2>1, <2>3, <2>4, <2>5, <2>6 DEF TypeOK
  <2>25. SweepOnTheBooks'
    BY <2>1, <2>3, <2>4, <2>5, <2>6 DEF TypeOK
  <2>26. OneStory'
    BY <2>1, <2>3, <2>4, <2>5, <2>6 DEF TypeOK
  <2> QED
    BY <2>20, <2>21, <2>22, <2>23, <2>24, <2>25, <2>26
<1>5. CASE Finish(t)
  BY <1>5 DEF Finish, TypeOK, Outcome, Settle, MaySettle, SaveTask, SaveTasks
<1>6. CASE GiveUp(t)
  BY <1>6 DEF GiveUp, TypeOK, Settle, MaySettle, SaveTask, SaveTasks
<1>7. CASE TryAgain(t)
  <2>1. wpc[t] = "raised" /\ ~settled[t] /\ (~abandoned[t] => status[t] = "running" /\ t \in flights)
    BY <1>7 DEF TryAgain
  <2>2. /\ wpc' \in [Tasks -> WorkerPc] /\ wpc[t] # "none"
        /\ wpc'[t] \in {"landing", "begin", "refused"} /\ (wpc'[t] = "landing" => abandoned[t])
        /\ \A u \in Tasks \ {t} : wpc'[u] = wpc[u]
    BY <1>7 DEF TryAgain, TypeOK, WorkerPc
  <2>3. \A u \in Tasks : said'[u] \in {said[u], "retrying"}
    BY <1>7 DEF TryAgain, TypeOK
  <2>4. \A u \in Tasks : stored'[u] = stored[u] \/ (u = t /\ stored'[u] = status[u])
    BY <1>7 DEF TryAgain, TypeOK, SaveTask, SaveTasks
  <2>5. UNCHANGED <<pc, queues, books, status, settled, abandoned, history>>
    BY <1>7 DEF TryAgain
  <2>20. PendingIsUntouched'
    BY <2>1, <2>2, <2>3, <2>4, <2>5 DEF TypeOK, TaskStatus, FailureStatus
  <2>21. QueuesArePending'
    BY <2>1, <2>2, <2>3, <2>4, <2>5 DEF TypeOK, TaskStatus, FailureStatus
  <2>22. SettledOrAbandoned'
    BY <2>1, <2>2, <2>3, <2>4, <2>5 DEF TypeOK, TaskStatus, FailureStatus
  <2>23. OpenThreadsAreRunning'
    BY <2>1, <2>2, <2>3, <2>4, <2>5 DEF TypeOK, TaskStatus, FailureStatus
  <2>24. UnsettledIsRunning'
    BY <2>1, <2>2, <2>3, <2>4, <2>5 DEF TypeOK, TaskStatus, FailureStatus
  <2>25. SweepOnTheBooks'
    BY <2>1, <2>2, <2>3, <2>4, <2>5 DEF TypeOK, TaskStatus, FailureStatus
  <2>26. OneStory'
    BY <2>1, <2>2, <2>3, <2>4, <2>5 DEF TypeOK, TaskStatus, FailureStatus
  <2> QED
    BY <2>20, <2>21, <2>22, <2>23, <2>24, <2>25, <2>26
<1>8. CASE Land(t)
  BY <1>8 DEF Land, TypeOK
<1> QED
  BY <1>1, <1>2, <1>3, <1>4, <1>5, <1>6, <1>7, <1>8 DEF Thread, Runtime

\* The flight invariant is inductive on top of the types.
LEMMA NextFlights == TypeOK /\ FlightInv /\ [Next]_vars => FlightInv'
<1> SUFFICES ASSUME TypeOK, FlightInv, [Next]_vars PROVE FlightInv'
  OBVIOUS
<1> USE DEF FlightInv, PendingIsUntouched, QueuesArePending, SettledOrAbandoned,
      OpenThreadsAreRunning, UnsettledIsRunning, SweepOnTheBooks, OneStory, Working, Closing,
      IsFinal, OpenStatus, ClosingEvent
<1>1. CASE Interrupt
  BY <1>1 DEF Interrupt, TypeOK
<1>2. ASSUME NEW t \in Tasks, LaunchFails(t) PROVE FlightInv'
  BY <1>2 DEF LaunchFails, TypeOK
<1>3. ASSUME NEW t \in Tasks, DeadlinePasses(t) PROVE FlightInv'
  BY <1>3 DEF DeadlinePasses, TypeOK
<1>4. CASE Cancel
  BY <1>4 DEF Cancel, TypeOK
<1>5. CASE UNCHANGED vars
  BY <1>5 DEF vars, TypeOK
<1> QED
  BY <1>1, <1>2, <1>3, <1>4, <1>5, CoordinatorFlights, ThreadFlights DEF Next, Over

\* The flight invariant holds in every reachable state, for every plan.
THEOREM FlightInvariant == Spec => []FlightInv
  BY InitTypes, NextTypes, InitFlights, NextFlights, PTL DEF Spec

-----------------------------------------------------------------------------
(* What follows from it *)

\* A success in the store is a success: what Pipeline.resume carries over really ran.
THEOREM StoredSuccess == Spec => []StoredSuccessIsReal
<1>1. FlightInv => StoredSuccessIsReal
  BY DEF FlightInv, OneStory, StoredSuccessIsReal
<1> QED
  BY <1>1, FlightInvariant, PTL

\* The step that settles a flight starts from a running task and ends in a final state.
LEMMA SettleKeeps ==
    ASSUME TypeOK, FlightInv, NEW t \in Tasks, wpc[t] # "none", NEW STATE s, NEW STATE e, Settle(t, s, e)
    PROVE  \A u \in Tasks : IsFinal(status[u]) => status'[u] = status[u] /\ said'[u] = said[u]
  BY DEF Settle, MaySettle, SaveTask, SaveTasks, FlightInv, OpenThreadsAreRunning, TypeOK, IsFinal, OpenStatus

\* No step rewrites the outcome of a task that is over, or says anything more about it.
LEMMA OutcomeKept ==
    ASSUME TypeOK, FlightInv, [Next]_vars
    PROVE  \A u \in Tasks : IsFinal(status[u]) => status'[u] = status[u] /\ said'[u] = said[u]
<1> USE DEF IsFinal, OpenStatus
<1>1. CASE UNCHANGED <<status, said>>
  BY <1>1
<1>2. CASE ObserveCancel \/ AbortClose
  BY <1>2 DEF ObserveCancel, AbortClose, Pending, TypeOK
<1>3. ASSUME NEW t \in Tasks, AdmitToEnd(t) \/ LaunchTask(t) \/ LaunchFails(t)
      PROVE  \A u \in Tasks : IsFinal(status[u]) => status'[u] = status[u] /\ said'[u] = said[u]
  <2>1. status[t] = "pending"
    BY <1>3 DEF AdmitToEnd, LaunchTask, LaunchFails, FlightInv, QueuesArePending, Working
  <2> QED
    BY <1>3, <2>1 DEF AdmitToEnd, LaunchTask, LaunchFails, TypeOK
<1>4. ASSUME NEW t \in Tasks, TimeOut(t)
      PROVE  \A u \in Tasks : IsFinal(status[u]) => status'[u] = status[u] /\ said'[u] = said[u]
  <2>1. t \in flights /\ ~settled[t]
    BY <1>4 DEF TimeOut, FlightInv, SweepOnTheBooks, SettledOrAbandoned
  <2>2. status[t] = "running"
    BY <1>4, <2>1 DEF TimeOut, FlightInv, UnsettledIsRunning, Working
  <2> QED
    BY <1>4, <2>2 DEF TimeOut, TypeOK
<1>5. ASSUME NEW t \in Tasks, Begin(t) \/ TryAgain(t)
      PROVE  \A u \in Tasks : IsFinal(status[u]) => status'[u] = status[u] /\ said'[u] = said[u]
  <2>1. wpc[t] \in {"begin", "raised"} /\ status' = status
    BY <1>5 DEF Begin, TryAgain
  <2>2. UNCHANGED said \/ ~abandoned[t]
    BY <1>5 DEF Begin, TryAgain
  <2>3. ~abandoned[t] => status[t] = "running"
    BY <2>1 DEF FlightInv, OpenThreadsAreRunning, SettledOrAbandoned
  <2>4. \A u \in Tasks : u # t => said'[u] = said[u]
    BY <1>5 DEF Begin, TryAgain, TypeOK
  <2> QED
    BY <2>1, <2>2, <2>3, <2>4
<1>6. ASSUME NEW t \in Tasks, BeginCancelled(t) \/ Finish(t) \/ GiveUp(t)
      PROVE  \A u \in Tasks : IsFinal(status[u]) => status'[u] = status[u] /\ said'[u] = said[u]
  <2>1. wpc[t] # "none"
    BY <1>6 DEF BeginCancelled, Finish, GiveUp
  <2>2. \/ Settle(t, "cancelled", said[t]) \/ Settle(t, Outcome(wpc[t]), Outcome(wpc[t]))
        \/ Settle(t, "failed", "failed") \/ Settle(t, "cancelled", "cancelled")
    BY <1>6 DEF BeginCancelled, Finish, GiveUp
  <2> QED
    BY <2>1, <2>2, SettleKeeps
<1>7. CASE Coordinator
  <2>1. CASE \E t \in Tasks : CoordinatorTask(t)
    BY <2>1, <1>1, <1>3, <1>4 DEF CoordinatorTask, AdmitToRun, AwaitLanding, ExpireSettled,
       ExpireAbandon, AbortFlight
  <2> QED
    BY <2>1, <1>1, <1>2, <1>7 DEF Coordinator, Start, LoopEnds, LoopTurns, AdmitDone, LaunchDone,
       AwaitNothing, ExpireDone, Conclude, Tell, MarkDone
<1>8. ASSUME NEW t \in Tasks, Thread(t)
      PROVE  \A u \in Tasks : IsFinal(status[u]) => status'[u] = status[u] /\ said'[u] = said[u]
  BY <1>8, <1>1, <1>5, <1>6 DEF Thread, Runtime, BeginAbandoned, Invoke, Land
<1> QED
  BY <1>1, <1>3, <1>7, <1>8 DEF Next, Over, vars, Interrupt, DeadlinePasses, Cancel

\* TaskStatus.is_final for every plan: no late thread, no cancellation, no timeout and no
\* _abort rewrites the outcome of a task.
THEOREM OutcomesAreFinal == Spec => FinalIsFinal
<1>1. TypeOK /\ FlightInv /\ [Next]_vars
         => [\A t \in Tasks : IsFinal(status[t]) => status'[t] = status[t]]_vars
  BY OutcomeKept
<1> QED
  BY <1>1, TypeCorrect, FlightInvariant, PTL DEF Spec, FinalIsFinal

\* The closing event of a task is its last one and agrees with its outcome for good.
THEOREM ClosingEventsAreLast == Spec => EndOfTaskToldOnce
<1>1. ASSUME TypeOK, FlightInv, [Next]_vars
      PROVE  \A t \in Tasks : said[t] \in ClosingEvent =>
                 said'[t] = said[t] /\ status'[t] = said[t]
  <2> SUFFICES ASSUME NEW t \in Tasks, said[t] \in ClosingEvent
               PROVE  said'[t] = said[t] /\ status'[t] = said[t]
    OBVIOUS
  <2>1. status[t] = said[t] /\ IsFinal(status[t])
    BY <1>1 DEF FlightInv, OneStory, ClosingEvent, IsFinal
  <2> QED
    BY <1>1, <2>1, OutcomeKept
<1>2. TypeOK /\ FlightInv /\ [Next]_vars
         => [\A t \in Tasks : said[t] \in ClosingEvent =>
                 said'[t] = said[t] /\ status'[t] = said[t]]_vars
  BY <1>1
<1> QED
  BY <1>2, TypeCorrect, FlightInvariant, PTL DEF Spec, EndOfTaskToldOnce

\* Once the run is closed every thread still alive is settled or abandoned, and such a
\* thread records nothing.
LEMMA ClosedStays == ASSUME TypeOK, FlightInv, [Next]_vars PROVE StaysClosed
<1>1. pc \in Closing => \A t \in Tasks : wpc[t] # "none" => settled[t] \/ abandoned[t]
  BY DEF FlightInv, OpenThreadsAreRunning, SweepOnTheBooks
<1>2. ASSUME NEW t \in Tasks, Thread(t), pc \in Closing
      PROVE  UNCHANGED <<status, attempts, stored, said>>
  <2>1. wpc[t] # "none" /\ ~MaySettle(t)
    BY <1>1, <1>2 DEF Thread, Runtime, BeginCancelled, BeginAbandoned, Begin, Finish, GiveUp,
       TryAgain, Land, Invoke, MaySettle
  <2>2. wpc[t] \in {"begin", "raised"} => abandoned[t]
    BY <2>1 DEF MaySettle, FlightInv, SettledOrAbandoned
  <2>3. ~Begin(t) /\ (TryAgain(t) => UNCHANGED <<status, attempts, stored, said>>)
    BY <2>2 DEF Begin, TryAgain
  <2> QED
    BY <1>2, <2>1, <2>3 DEF Thread, Runtime, BeginCancelled, BeginAbandoned, Finish, GiveUp, Land,
       Invoke, Settle
<1>4. CASE Coordinator
  BY <1>4 DEF StaysClosed, Coordinator, CoordinatorTask, Start, LoopEnds, LoopTurns, ObserveCancel,
     AdmitDone, LaunchDone, AwaitNothing, ExpireDone, Conclude, Tell, MarkDone, AbortClose,
     AdmitToRun, AdmitToEnd, LaunchTask, AwaitLanding, ExpireSettled, ExpireAbandon, TimeOut,
     AbortFlight
<1>5. ASSUME NEW t \in Tasks, Thread(t) PROVE StaysClosed
  <2>1. UNCHANGED <<runStatus, runSaid, storedRun>>
    BY <1>5 DEF Thread, Runtime, BeginCancelled, BeginAbandoned, Begin, Finish, GiveUp, TryAgain,
       Land, Invoke, Settle, SaveTask, SaveTasks
  <2> QED
    BY <1>2, <1>5, <2>1 DEF StaysClosed, Closing
<1> QED
  BY <1>4, <1>5 DEF Next, Over, vars, Interrupt, LaunchFails, DeadlinePasses, Cancel, StaysClosed

\* A closed run stays as it was closed, whatever its abandoned task threads still do.
THEOREM ClosedRunsStay == Spec => NothingAfterTheEnd
<1>1. TypeOK /\ FlightInv /\ [Next]_vars => [StaysClosed]_vars
  BY ClosedStays
<1> QED
  BY <1>1, TypeCorrect, FlightInvariant, PTL DEF Spec, NothingAfterTheEnd

-----------------------------------------------------------------------------
(* The run invariant: phases and books *)

\* A task thread leaves the coordinator's books alone, and only settles what is in the air.
LEMMA ThreadEffect ==
    ASSUME TypeOK, FlightInv, NEW t \in Tasks, Thread(t)
    PROVE  /\ UNCHANGED <<pc, queues, flights, sweep, cancelSeen, outside, runStatus, reason, abandoned,
                          recorded, storedRun, runSaid, carried>>
           /\ \A u \in Tasks : settled[u] => settled'[u]
           /\ \A u \in Tasks : status'[u] = status[u]
                 \/ /\ u = t /\ t \in flights /\ status[t] = "running" /\ ~settled[t] /\ ~abandoned[t] /\ settled'[t]
                    /\ status'[t] \in {"succeeded", "failed", "cancelled"}
<1>1. /\ UNCHANGED <<pc, queues, flights, sweep, cancelSeen, outside, runStatus, reason, abandoned, runSaid, carried>>
      /\ wpc[t] # "none"
  BY DEF Thread, Runtime, BeginCancelled, BeginAbandoned, Begin, Finish, GiveUp, TryAgain, Land, Invoke
<1>2. ASSUME NEW STATE s, s \in {"succeeded", "failed", "cancelled"}, NEW STATE e, Settle(t, s, e)
      PROVE  /\ UNCHANGED <<recorded, storedRun>>
             /\ \A u \in Tasks : settled[u] => settled'[u]
             /\ \A u \in Tasks : status'[u] = status[u]
                 \/ /\ u = t /\ t \in flights /\ status[t] = "running" /\ ~settled[t] /\ ~abandoned[t] /\ settled'[t]
                    /\ status'[t] \in {"succeeded", "failed", "cancelled"}
  <2>1. MaySettle(t) => t \in flights /\ status[t] = "running" /\ ~settled[t] /\ ~abandoned[t]
    BY <1>1 DEF MaySettle, FlightInv, OpenThreadsAreRunning
  <2>2. UNCHANGED <<recorded, storedRun>>
    BY <1>2 DEF Settle, SaveTask, SaveTasks
  <2> QED
    BY <1>2, <2>1, <2>2 DEF Settle, TypeOK
<1>3. CASE Invoke(t) \/ BeginAbandoned(t) \/ Begin(t) \/ TryAgain(t) \/ Land(t)
  BY <1>1, <1>3 DEF Invoke, BeginAbandoned, Begin, TryAgain, Land, SaveTask, SaveTasks
<1>4. CASE BeginCancelled(t) \/ Finish(t) \/ GiveUp(t)
  <2>1. Outcome(wpc[t]) \in {"succeeded", "failed", "cancelled"} \/ ~ Finish(t)
    BY DEF Finish, Outcome
  <2>2. \/ Settle(t, "cancelled", said[t])
        \/ Finish(t) /\ Settle(t, Outcome(wpc[t]), Outcome(wpc[t]))
        \/ Settle(t, "failed", "failed") \/ Settle(t, "cancelled", "cancelled")
    BY <1>4 DEF BeginCancelled, Finish, GiveUp
  <2> QED
    BY <1>1, <1>2, <2>1, <2>2
<1> QED
  BY <1>3, <1>4 DEF Thread, Runtime

\* A run starts unclosed, with nothing in the air.
LEMMA InitPhases == Init => PhasesInOrder /\ RunningOnTheBooks
  BY DEF Init, PhasesInOrder, RunningOnTheBooks, Turning, Working, Closing, Pending

\* Phases keep their order.
LEMMA NextPhases ==
    ASSUME TypeOK, FlightInv, PhasesInOrder, [Next]_vars
    PROVE  PhasesInOrder'
<1> USE DEF PhasesInOrder, Turning, Working, Closing, Pending
<1>1. CASE UNCHANGED vars
  BY <1>1 DEF vars
<1>2. CASE Interrupt \/ Cancel
  BY <1>2 DEF Interrupt, Cancel
<1>3. ASSUME NEW t \in Tasks, Thread(t) PROVE PhasesInOrder'
  <2>1. \A u \in Tasks : status'[u] = "pending" => status[u] = "pending"
    BY <1>3, ThreadEffect
  <2> QED
    BY <1>3, <2>1, ThreadEffect DEF TypeOK
<1>4. ASSUME NEW t \in Tasks, LaunchFails(t) \/ DeadlinePasses(t) PROVE PhasesInOrder'
  <2>1. \A u \in Tasks : status'[u] = "pending" => status[u] = "pending"
    BY <1>4 DEF LaunchFails, DeadlinePasses, TypeOK
  <2> QED
    BY <1>4, <2>1 DEF LaunchFails, DeadlinePasses
<1>5. CASE Start \/ LoopEnds \/ LoopTurns \/ AdmitDone \/ LaunchDone \/ AwaitNothing \/ ExpireDone \/ Tell \/ MarkDone
  BY <1>5 DEF Start, LoopEnds, LoopTurns, AdmitDone, LaunchDone, AwaitNothing, ExpireDone, Tell, MarkDone
<1>6. CASE ObserveCancel
  BY <1>6 DEF ObserveCancel
<1>7. CASE Conclude
  BY <1>7 DEF Conclude, RunVerdict, FlightInv, SweepOnTheBooks
<1>8. CASE AbortClose
  <2>1. \A u \in Tasks : status'[u] # "pending"
    BY <1>8 DEF AbortClose, IsFinal, OpenStatus
  <2> QED
    BY <1>8, <2>1 DEF AbortClose, FlightInv, SweepOnTheBooks
<1>9. ASSUME NEW t \in Tasks, CoordinatorTask(t) PROVE PhasesInOrder'
  <2>1. UNCHANGED <<runStatus, cancelSeen, outside>> /\ pc \in Working \union {"abort"}
        /\ pc' \in Working \union {"abort"} /\ (pc = "abort" <=> pc' = "abort")
    BY <1>9 DEF CoordinatorTask, AdmitToRun, AdmitToEnd, LaunchTask, AwaitLanding, ExpireSettled, ExpireAbandon,
       TimeOut, AbortFlight
  <2>2. \A u \in Tasks : status'[u] = "pending" => status[u] = "pending"
    BY <1>9, VerdictTypes DEF CoordinatorTask, AdmitToRun, AdmitToEnd, LaunchTask, AwaitLanding, ExpireSettled,
       ExpireAbandon, TimeOut, AbortFlight, TypeOK
  <2>3. pc = "abort" => flights' = flights /\ settled' = settled /\ \A u \in flights : abandoned[u] /\ ~settled[u] => abandoned'[u]
    BY <1>9 DEF CoordinatorTask, AdmitToRun, AdmitToEnd, LaunchTask, AwaitLanding, ExpireSettled, ExpireAbandon,
       TimeOut, AbortFlight, TypeOK
  <2> QED
    BY <2>1, <2>2, <2>3
<1> QED
  BY <1>1, <1>2, <1>3, <1>4, <1>5, <1>6, <1>7, <1>8, <1>9 DEF Next, Coordinator, Over

\* Running tasks stay on the books.
LEMMA NextRunning ==
    ASSUME TypeOK, FlightInv, PhasesInOrder, RunningOnTheBooks, [Next]_vars
    PROVE  RunningOnTheBooks'
<1> USE DEF RunningOnTheBooks, Turning, Working
<1>1. CASE UNCHANGED vars
  BY <1>1 DEF vars
<1>2. CASE Interrupt \/ Cancel
  BY <1>2 DEF Interrupt, Cancel
<1>3. ASSUME NEW t \in Tasks, Thread(t) PROVE RunningOnTheBooks'
  <2>1. \A u \in Tasks : status'[u] = "running" => status[u] = "running"
    BY <1>3, ThreadEffect
  <2> QED
    BY <1>3, <2>1, ThreadEffect
<1>4. ASSUME NEW t \in Tasks, LaunchFails(t) \/ DeadlinePasses(t) PROVE RunningOnTheBooks'
  BY <1>4 DEF LaunchFails, DeadlinePasses
<1>5. CASE Start \/ LoopEnds \/ LoopTurns \/ AdmitDone \/ LaunchDone \/ ExpireDone \/ Tell \/ MarkDone
  BY <1>5 DEF Start, LoopEnds, LoopTurns, AdmitDone, LaunchDone, ExpireDone, Tell, MarkDone
<1>6. CASE ObserveCancel
  BY <1>6 DEF ObserveCancel, Pending
<1>7. CASE Conclude \/ AbortClose
  BY <1>7 DEF Conclude, AbortClose
<1>8. CASE AwaitNothing
  BY <1>8 DEF AwaitNothing
<1>9. ASSUME NEW t \in Tasks, CoordinatorTask(t) PROVE RunningOnTheBooks'
  <2>1. CASE AdmitToRun(t)
    BY <2>1 DEF AdmitToRun
  <2>2. CASE AdmitToEnd(t)
    BY <2>2, VerdictTypes DEF AdmitToEnd, TypeOK
  <2>3. CASE LaunchTask(t)
    BY <2>3 DEF LaunchTask, TypeOK, FlightInv, QueuesArePending, PendingIsUntouched
  <2>4. CASE AwaitLanding(t)
    <3>1. settled[t] \/ abandoned[t]
      BY <2>4 DEF AwaitLanding, FlightInv, SettledOrAbandoned
    <3>2. status[t] = "running" => t \in flights /\ abandoned[t]
      BY <2>4, <3>1 DEF AwaitLanding, FlightInv, SettledOrAbandoned, IsFinal, OpenStatus
    <3> QED
      BY <2>4, <3>2 DEF AwaitLanding
  <2>5. CASE ExpireSettled(t) \/ ExpireAbandon(t)
    BY <2>5 DEF ExpireSettled, ExpireAbandon, TypeOK
  <2>6. CASE TimeOut(t)
    BY <2>6 DEF TimeOut, TypeOK
  <2>7. CASE AbortFlight(t)
    BY <2>7 DEF AbortFlight
  <2> QED
    BY <1>9, <2>1, <2>2, <2>3, <2>4, <2>5, <2>6, <2>7 DEF CoordinatorTask
<1> QED
  BY <1>1, <1>2, <1>3, <1>4, <1>5, <1>6, <1>7, <1>8, <1>9 DEF Next, Coordinator, Over
-----------------------------------------------------------------------------
(* The run invariant: counts *)

\* The dependencies of u that have not been released
Unreleased(u) == {d \in Deps[u] : ~Released(d)}

\* A plan has finitely many dependencies.
LEMMA UnreleasedFinite ==
    ASSUME NEW u \in Tasks
    PROVE  IsFiniteSet(Unreleased(u)) /\ Cardinality(Unreleased(u)) \in Nat
<1>1. Unreleased(u) \subseteq Tasks
  BY PlanAssumption DEF Unreleased
<1> QED
  BY <1>1, PlanAssumption, FS_Subset, FS_CardinalityType

\* _release counts exactly the dependency that has just been released.
LEMMA ReleaseExact ==
    ASSUME TypeOK, NEW t \in Tasks, blocked' = BlockedAfter(t),
           \A u \in Tasks : blocked[u] = Cardinality(Unreleased(u)),
           ~Released(t), Released(t)', \A d \in Tasks \ {t} : Released(d)' <=> Released(d)
    PROVE  \A u \in Tasks : blocked'[u] = Cardinality(Unreleased(u)')
<1> SUFFICES ASSUME NEW u \in Tasks PROVE blocked'[u] = Cardinality(Unreleased(u)')
  OBVIOUS
<1>0. Deps[u] \subseteq Tasks
  BY PlanAssumption
<1>1. CASE t \in Deps[u]
  <2>1. Unreleased(u)' = Unreleased(u) \ {t} /\ t \in Unreleased(u)
    BY <1>0, <1>1 DEF Unreleased
  <2>2. Cardinality(Unreleased(u) \ {t}) = Cardinality(Unreleased(u)) - 1
    BY <2>1, UnreleasedFinite, FS_RemoveElement
  <2> QED
    BY <1>1, <2>1, <2>2 DEF BlockedAfter
<1>2. CASE t \notin Deps[u]
  <2>1. Unreleased(u)' = Unreleased(u)
    BY <1>0, <1>2 DEF Unreleased
  <2> QED
    BY <1>2, <2>1 DEF BlockedAfter
<1> QED
  BY <1>1, <1>2

\* A step that releases nothing leaves the counts exact.
LEMMA SameReleases ==
    ASSUME BlockedExact, UNCHANGED <<blocked, cancelSeen, interrupted>>,
           \A d \in Tasks : Released(d)' <=> Released(d)
    PROVE  BlockedExact'
<1>1. \A u \in Tasks : {d \in Deps[u] : ~Released(d)}' = {d \in Deps[u] : ~Released(d)}
  BY PlanAssumption
<1> QED
  BY <1>1 DEF BlockedExact

\* Releasing a task that has just ended keeps the counts exact and forgets no dependent.
LEMMA ReleaseKeeps ==
    ASSUME TypeOK, FlightInv, BlockedExact, NothingForgotten, NEW t \in Tasks, Release(t),
           pc \in Working, pc' \in Working, UNCHANGED <<cancelSeen, interrupted, waiting>>,
           ~Released(t), Released(t)', \A d \in Tasks \ {t} : Released(d)' <=> Released(d),
           \A u \in Tasks : status'[u] = "pending" => status[u] = "pending" /\ u # t
    PROVE  BlockedExact' /\ NothingForgotten'
<1>1. blocked' = BlockedAfter(t) /\ ready' = (ready \ {t}) \union Unblocked(t)
  BY DEF Release
<1>2. BlockedExact'
  <2>1. CASE ~cancelSeen /\ ~interrupted
    <3>1. \A u \in Tasks : blocked[u] = Cardinality(Unreleased(u))
      BY <2>1 DEF BlockedExact, Unreleased
    <3>2. \A u \in Tasks : blocked'[u] = Cardinality(Unreleased(u)')
      BY <1>1, <3>1, ReleaseExact
    <3> QED
      BY <3>2 DEF BlockedExact, Unreleased
  <2>2. CASE cancelSeen \/ interrupted
    BY <2>2 DEF BlockedExact
  <2> QED
    BY <2>1, <2>2
<1>3. ASSUME ~cancelSeen, NEW u \in Tasks, status'[u] = "pending", blocked'[u] = 0
      PROVE  u \in ready' \union waiting'
  <2>1. status[u] = "pending" /\ u # t
    BY <1>3
  <2>2. CASE t \in Deps[u]
    BY <1>1, <1>3, <2>1, <2>2 DEF Unblocked, Dependents
  <2>3. CASE t \notin Deps[u]
    <3>1. blocked[u] = 0
      BY <1>1, <1>3, <2>3 DEF BlockedAfter
    <3> QED
      BY <1>1, <1>3, <2>1, <3>1 DEF NothingForgotten, Pending
  <2> QED
    BY <2>2, <2>3
<1> QED
  BY <1>2, <1>3 DEF NothingForgotten, Pending, Working, Closing

\* A set of tasks that is not empty has one of the lowest level.
LEMMA LowestTask ==
    ASSUME NEW T, T \subseteq Tasks, T # {}
    PROVE  \E t \in T : \A u \in T : ~ (Level[u] < Level[t])
<1> DEFINE L == {Level[t] : t \in T}
           R == OpToRel(<, Nat)
<1>1. L \subseteq Nat /\ L # {}
  BY PlanAssumption
<1>2. IsWellFoundedOn(R, Nat)
  BY NatLessThanWellFounded
<1>3. \E x \in L : \A y \in L : ~ (<<y, x>> \in R)
  <2> HIDE DEF L, R
  <2> QED
    BY <1>1, <1>2, WFMin
<1>4. \A x, y \in Nat : x < y => <<x, y>> \in R
  BY DEF OpToRel
<1> HIDE DEF R
<1> QED
  BY <1>1, <1>3, <1>4

\* When the queues are empty and nothing is in the air, every task is over: of the tasks that are
\* left, one of the lowest level would have had all its dependencies released.
LEMMA EmptyQueuesMeanOver ==
    ASSUME TypeOK, PhasesInOrder, RunningOnTheBooks, BlockedExact, NothingForgotten,
           pc \in Working, ~Busy
    PROVE  \A t \in Tasks : IsFinal(status[t])
<1>1. \A t \in Tasks : status[t] # "running"
  BY DEF RunningOnTheBooks, Turning, Busy
<1>2. Pending = {}
  <2>1. CASE cancelSeen
    BY <2>1 DEF PhasesInOrder
  <2>2. ASSUME ~cancelSeen, Pending # {} PROVE FALSE
    <3>1. PICK t \in Pending : \A u \in Pending : ~ (Level[u] < Level[t])
      <4>1. Pending \subseteq Tasks
        BY DEF Pending
      <4> QED
        BY <2>2, <4>1, LowestTask
    <3>2. t \in Tasks
      BY DEF Pending
    <3>3. \A d \in Deps[t] : d \in Tasks /\ d \notin Pending
      BY <3>1, <3>2, PlanAssumption
    <3>4. \A d \in Deps[t] : Released(d)
      BY <1>1, <3>3 DEF Pending, Released, IsFinal, OpenStatus, Busy
    <3>5. {d \in Deps[t] : ~Released(d)} = {}
      BY <3>4
    <3>6. blocked[t] = 0
      BY <2>2, <3>2, <3>5, FS_EmptySet DEF BlockedExact, PhasesInOrder, Turning
    <3> QED
      BY <2>2, <3>6 DEF NothingForgotten, Busy
  <2> QED
    BY <2>1, <2>2
<1> QED
  BY <1>1, <1>2 DEF Pending, IsFinal, OpenStatus

\* A run starts with exact counts.
LEMMA InitCounts == Init => BlockedExact /\ NothingForgotten
<1> SUFFICES ASSUME Init PROVE BlockedExact /\ NothingForgotten
  OBVIOUS
<1>1. \A t \in Tasks : {d \in Deps[t] : ~Released(d)} = Deps[t] \ carried
  BY PlanAssumption DEF Init, Released, IsFinal, OpenStatus
<1>2. BlockedExact
  BY <1>1 DEF Init, BlockedExact
<1>3. \A t \in Pending : blocked[t] = 0 => t \in ready
  <2> SUFFICES ASSUME NEW t \in Tasks, t \notin carried, Cardinality(Deps[t] \ carried) = 0
               PROVE  Deps[t] \subseteq carried
    BY DEF Init, Pending
  <2>1. IsFiniteSet(Deps[t] \ carried)
    BY PlanAssumption, FS_Subset
  <2> QED
    BY <2>1, FS_EmptySet
<1> QED
  BY <1>2, <1>3 DEF Init, NothingForgotten, Closing

\* Every step keeps the counts exact and forgets no task.
LEMMA NextCounts ==
    ASSUME TypeOK, FlightInv, PhasesInOrder, RunningOnTheBooks, BlockedExact, NothingForgotten, [Next]_vars
    PROVE  BlockedExact' /\ NothingForgotten'
<1> DEFINE Kept == BlockedExact' /\ NothingForgotten'
<1>0. ASSUME UNCHANGED <<blocked, ready, waiting, cancelSeen, interrupted>>,
             \A d \in Tasks : Released(d)' <=> Released(d),
             \A u \in Tasks : IsFinal(status[u]) => IsFinal(status'[u]),
             \A u \in Tasks : status'[u] = "pending" => status[u] = "pending",
             pc' = pc \/ pc' \in Working \/ (pc \in {"conclude"} \union Closing /\ pc' \in Closing),
             pc' \in Working => pc \in Working
      PROVE  Kept
  <2>1. BlockedExact'
    BY <1>0, SameReleases
  <2> QED
    BY <1>0, <2>1 DEF NothingForgotten, Pending, Working, Closing
<1>1. CASE UNCHANGED vars
  BY <1>0, <1>1 DEF vars, Released
<1>2. CASE Interrupt
  BY <1>2 DEF Interrupt, BlockedExact, NothingForgotten, Working, Closing
<1>3. CASE Cancel
  BY <1>0, <1>3 DEF Cancel, Released
<1>4. ASSUME NEW t \in Tasks, Thread(t) PROVE Kept
  <2>1. /\ UNCHANGED <<pc, blocked, ready, waiting, flights, cancelSeen, interrupted>>
        /\ \A u \in Tasks : status'[u] = status[u]
              \/ /\ u \in flights /\ status[u] = "running"
                 /\ status'[u] \in {"succeeded", "failed", "cancelled"}
    BY <1>4, ThreadEffect
  <2> QED
    BY <1>0, <2>1 DEF Released, IsFinal, OpenStatus
<1>5. ASSUME NEW t \in Tasks, LaunchFails(t) PROVE Kept
  BY <1>5 DEF LaunchFails, BlockedExact, NothingForgotten, Working, Closing
<1>6. ASSUME NEW t \in Tasks, DeadlinePasses(t) PROVE Kept
  BY <1>0, <1>6 DEF DeadlinePasses, Released
<1>7. CASE Start \/ LoopTurns \/ AdmitDone \/ LaunchDone \/ AwaitNothing \/ ExpireDone \/ Conclude \/ Tell \/ MarkDone
  BY <1>0, <1>7 DEF Start, LoopTurns, AdmitDone, LaunchDone, AwaitNothing, ExpireDone, Conclude, Tell, MarkDone,
     Released, Working, Closing
<1>8. CASE LoopEnds
  <2>1. \A t \in Tasks : IsFinal(status[t])
    BY <1>8, EmptyQueuesMeanOver DEF LoopEnds, Working
  <2>2. BlockedExact'
    BY <1>8, SameReleases DEF LoopEnds, Released
  <2> QED
    BY <1>8, <2>1, <2>2 DEF LoopEnds, NothingForgotten, Working, Closing
<1>9. CASE ObserveCancel
  BY <1>9 DEF ObserveCancel, BlockedExact, NothingForgotten, Working, Closing
<1>10. CASE AbortClose
  <2>1. \A t \in Tasks : IsFinal(status'[t])
    BY <1>10 DEF AbortClose, IsFinal, OpenStatus
  <2>2. interrupted /\ interrupted' = interrupted
    BY <1>10 DEF AbortClose, PhasesInOrder
  <2> QED
    BY <1>10, <2>1, <2>2 DEF AbortClose, BlockedExact, NothingForgotten, Working, Closing
<1>11. ASSUME NEW t \in Tasks, CoordinatorTask(t) PROVE Kept
  <2>1. CASE AdmitToRun(t)
    <3>1. BlockedExact'
      BY <2>1, SameReleases DEF AdmitToRun, Released
    <3> QED
      BY <2>1, <3>1 DEF AdmitToRun, NothingForgotten, Pending, Working, Closing
  <2>2. CASE AdmitToEnd(t)
    <3>1. status[t] = "pending" /\ t \notin flights /\ pc = "admit"
      BY <2>2 DEF AdmitToEnd, FlightInv, QueuesArePending, PendingIsUntouched, Working
    <3>2. status'[t] \in {"skipped", "failed"} /\ \A u \in Tasks \ {t} : status'[u] = status[u]
      BY <2>2, VerdictTypes DEF AdmitToEnd, TypeOK
    <3>3. Release(t) /\ UNCHANGED <<pc, waiting, flights, cancelSeen, interrupted>>
      BY <2>2 DEF AdmitToEnd
    <3>4. ~Released(t) /\ Released(t)' /\ \A d \in Tasks \ {t} : Released(d)' <=> Released(d)
      BY <3>1, <3>2, <3>3 DEF Released, IsFinal, OpenStatus
    <3> QED
      BY <3>1, <3>2, <3>3, <3>4, ReleaseKeeps DEF Working
  <2>3. CASE LaunchTask(t)
    <3>1. status[t] = "pending" /\ t \notin flights
      BY <2>3 DEF LaunchTask, FlightInv, QueuesArePending, PendingIsUntouched, Working
    <3>2. \A d \in Tasks : Released(d)' <=> Released(d)
      BY <2>3, <3>1 DEF LaunchTask, TypeOK, Released, IsFinal, OpenStatus
    <3>3. BlockedExact'
      BY <2>3, <3>2, SameReleases DEF LaunchTask
    <3> QED
      BY <2>3, <3>1, <3>3 DEF LaunchTask, TypeOK, NothingForgotten, Pending, Working, Closing
  <2>4. CASE AwaitLanding(t)
    <3>1. CASE t \in flights
      <4>1. settled[t]
        BY <2>4, <3>1 DEF AwaitLanding, FlightInv, SettledOrAbandoned, RunningOnTheBooks, Working
      <4>2. IsFinal(status[t])
        BY <4>1 DEF FlightInv, SettledOrAbandoned
      <4>3. /\ Release(t) /\ pc = "await" /\ pc' = "expire" /\ flights' = flights \ {t}
            /\ UNCHANGED <<status, waiting, cancelSeen, interrupted>>
        BY <2>4, <3>1 DEF AwaitLanding, OnTheBooks
      <4>4. ~Released(t) /\ Released(t)' /\ \A d \in Tasks \ {t} : Released(d)' <=> Released(d)
        BY <3>1, <4>2, <4>3 DEF Released
      <4>5. \A u \in Tasks : status'[u] = "pending" => status[u] = "pending" /\ u # t
        BY <4>2, <4>3 DEF IsFinal, OpenStatus
      <4> QED
        BY <4>3, <4>4, <4>5, ReleaseKeeps DEF Working
    <3>2. CASE t \notin flights
      <4>1. flights' = flights /\ UNCHANGED <<blocked, ready>>
        BY <2>4, <3>2 DEF AwaitLanding, OnTheBooks
      <4> QED
        BY <1>0, <2>4, <4>1 DEF AwaitLanding, Released, Working
    <3> QED
      BY <3>1, <3>2
  <2>5. CASE ExpireSettled(t) \/ ExpireAbandon(t) \/ AbortFlight(t)
    BY <1>0, <2>5 DEF ExpireSettled, ExpireAbandon, AbortFlight, Released
  <2>6. CASE TimeOut(t)
    <3>1. t \in flights /\ pc = "expire" /\ pc' = pc
      BY <2>6 DEF TimeOut, FlightInv, SweepOnTheBooks
    <3>2. /\ Release(t) /\ flights' = flights \ {t} /\ UNCHANGED <<waiting, cancelSeen, interrupted>>
          /\ status'[t] = "timeout" /\ \A u \in Tasks \ {t} : status'[u] = status[u]
      BY <2>6 DEF TimeOut, TypeOK
    <3>3. ~Released(t) /\ Released(t)' /\ \A d \in Tasks \ {t} : Released(d)' <=> Released(d)
      BY <3>1, <3>2 DEF Released, IsFinal, OpenStatus
    <3> QED
      BY <3>1, <3>2, <3>3, ReleaseKeeps DEF Working
  <2> QED
    BY <1>11, <2>1, <2>2, <2>3, <2>4, <2>5, <2>6 DEF CoordinatorTask
<1> QED
  BY <1>1, <1>2, <1>3, <1>4, <1>5, <1>6, <1>7, <1>8, <1>9, <1>10, <1>11 DEF Next, Coordinator, Over

-----------------------------------------------------------------------------
(* The run invariant: admissions and verdicts *)

\* Dependencies of a task in a queue are over.
LEMMA QueuedAreUnblocked ==
    ASSUME TypeOK, FlightInv, PhasesInOrder, BlockedExact, pc \in Working, NEW t \in ready \union waiting
    PROVE  t \in Tasks /\ status[t] = "pending" /\ \A d \in Deps[t] : IsFinal(status[d])
<1>1. t \in Tasks /\ status[t] = "pending" /\ blocked[t] <= 0
  BY DEF FlightInv, QueuesArePending, TypeOK
<1>2. ~cancelSeen /\ ~interrupted
  BY <1>1 DEF PhasesInOrder, Pending, Turning
<1>3. blocked[t] = Cardinality(Unreleased(t))
  BY <1>1, <1>2 DEF BlockedExact, Unreleased
<1>4. Unreleased(t) = {}
  BY <1>1, <1>3, UnreleasedFinite, FS_EmptySet
<1> QED
  BY <1>1, <1>4 DEF Unreleased, Released

\* A run starts with nothing admitted and nothing said.
LEMMA InitVerdicts == Init => AdmissionsAreJustified /\ VerdictStands
  BY DEF Init, AdmissionsAreJustified, VerdictStands, Closing

\* No step changes what the run kept from an earlier one.
LEMMA CarriedStays == ASSUME [Next]_vars PROVE carried' = carried
  BY DEF Next, Over, vars, Interrupt, LaunchFails, DeadlinePasses, Cancel, Coordinator, CoordinatorTask,
     Start, LoopEnds, LoopTurns, ObserveCancel, AdmitDone, LaunchDone, AwaitNothing, ExpireDone, Conclude, Tell,
     MarkDone, AbortClose, AdmitToRun, AdmitToEnd, LaunchTask, AwaitLanding, ExpireSettled, ExpireAbandon, TimeOut,
     AbortFlight, Thread, Runtime, BeginCancelled, BeginAbandoned, Begin, Invoke, Finish, GiveUp, TryAgain, Land

\* What justified a start stays so: outcomes, results and reasons of what is over are not rewritten.
LEMMA JustifiedStays ==
    ASSUME TypeOK, FlightInv, [Next]_vars, NEW t \in Tasks, Justified(t)
    PROVE  Justified(t)'
<1>1. \A d \in Tasks : IsFinal(status[d]) => status'[d] = status[d]
  BY OutcomeKept
<1>2. \A d \in Tasks : returned[d] => returned'[d]
  <2>1. CASE UNCHANGED returned
    BY <2>1
  <2>2. ASSUME NEW u \in Tasks, Invoke(u) PROVE \A d \in Tasks : returned[d] => returned'[d]
    BY <2>2 DEF Invoke, TypeOK
  <2> QED
    BY <2>1, <2>2 DEF Next, Over, vars, Interrupt, LaunchFails, DeadlinePasses, Cancel, Coordinator, CoordinatorTask,
       Start, LoopEnds, LoopTurns, ObserveCancel, AdmitDone, LaunchDone, AwaitNothing, ExpireDone, Conclude, Tell,
       MarkDone, AbortClose, AdmitToRun, AdmitToEnd, LaunchTask, AwaitLanding, ExpireSettled, ExpireAbandon, TimeOut,
       AbortFlight, Thread, Runtime, BeginCancelled, BeginAbandoned, Begin, Finish, GiveUp, TryAgain, Land
<1>3. carried' = carried
  BY CarriedStays
<1>4. \A d \in Tasks : IsFinal(status[d]) => reason'[d] = reason[d]
  <2>1. CASE UNCHANGED reason
    BY <2>1
  <2>2. ASSUME NEW u \in Tasks, AdmitToEnd(u) PROVE \A d \in Tasks : IsFinal(status[d]) => reason'[d] = reason[d]
    <3>1. status[u] = "pending"
      BY <2>2 DEF AdmitToEnd, FlightInv, QueuesArePending, Working
    <3> QED
      BY <2>2, <3>1 DEF AdmitToEnd, TypeOK, IsFinal, OpenStatus
  <2> QED
    BY <2>1, <2>2 DEF Next, Over, vars, Interrupt, LaunchFails, DeadlinePasses, Cancel, Coordinator, CoordinatorTask,
       Start, LoopEnds, LoopTurns, ObserveCancel, AdmitDone, LaunchDone, AwaitNothing, ExpireDone, Conclude, Tell,
       MarkDone, AbortClose, AdmitToRun, LaunchTask, AwaitLanding, ExpireSettled, ExpireAbandon, TimeOut,
       AbortFlight, Thread, Runtime, BeginCancelled, BeginAbandoned, Begin, Invoke, Finish, GiveUp, TryAgain, Land
<1>5. Deps[t] \subseteq Tasks
  BY PlanAssumption
<1> QED
  BY <1>1, <1>2, <1>3, <1>4, <1>5 DEF Justified

\* A step admits only tasks whose dependencies justify it.
LEMMA NextJustified ==
    ASSUME TypeOK, FlightInv, PhasesInOrder, BlockedExact, AdmissionsAreJustified, [Next]_vars
    PROVE  AdmissionsAreJustified'
<1> DEFINE Open(t) == t \in waiting \/ wpc[t] # "none" \/ attempts[t] > 0
<1>1. \A t \in Tasks : Open(t) /\ t \notin carried => Justified(t)'
  BY JustifiedStays DEF AdmissionsAreJustified
<1>2. carried' = carried
  BY CarriedStays
<1>3. ASSUME NEW t \in Tasks, t \notin carried, Open(t)', ~Open(t) PROVE Justified(t)'
  <2>1. AdmitToRun(t)
    <3>1. ASSUME NEW u \in Tasks, Thread(u) PROVE u # t
      BY <1>3, <3>1 DEF Thread, Runtime, BeginCancelled, BeginAbandoned, Begin, Finish, GiveUp, TryAgain, Land, Invoke
    <3>2. ASSUME NEW u \in Tasks, Thread(u) PROVE FALSE
      <4>1. wpc'[t] = wpc[t] /\ attempts'[t] = attempts[t] /\ waiting' = waiting
        BY <3>1, <3>2 DEF Thread, Runtime, BeginCancelled, BeginAbandoned, Begin, Finish, GiveUp, TryAgain, Land, Invoke,
           TypeOK
      <4> QED
        BY <1>3, <4>1
    <3>3. ASSUME NEW u \in Tasks, CoordinatorTask(u), ~AdmitToRun(t) PROVE FALSE
      <4>1. CASE AdmitToRun(u)
        BY <1>3, <3>3, <4>1 DEF AdmitToRun
      <4>2. CASE LaunchTask(u)
        BY <1>3, <4>2 DEF LaunchTask, TypeOK
      <4> QED
        BY <1>3, <3>3, <4>1, <4>2 DEF CoordinatorTask, AdmitToEnd, AwaitLanding, ExpireSettled, ExpireAbandon, TimeOut,
           AbortFlight
    <3>4. ASSUME NEW u \in Tasks, LaunchFails(u) \/ DeadlinePasses(u) PROVE FALSE
      BY <1>3, <3>4 DEF LaunchFails, DeadlinePasses
    <3> QED
      BY <1>3, <3>2, <3>3, <3>4 DEF Next, Over, vars, Interrupt, Cancel, Coordinator, Start, LoopEnds, LoopTurns,
         ObserveCancel, AdmitDone, LaunchDone, AwaitNothing, ExpireDone, Conclude, Tell, MarkDone, AbortClose
  <2>2. \A d \in Deps[t] : IsFinal(status[d])
    BY <2>1, QueuedAreUnblocked DEF AdmitToRun, Working
  <2>3. When[t] = "on_success" => DepsSatisfied(t)
    BY <2>1 DEF AdmitToRun, Gate, ConditionVerdicts, Admitted, Verdict, SeenBefore
  <2>4. \A d \in Deps[t] : d \in Tasks
    BY PlanAssumption
  <2>5. Justified(t)
    BY <2>2, <2>3, <2>4 DEF Justified, DepsSatisfied, Satisfied, FlightInv, OneStory
  <2> QED
    BY <2>5, JustifiedStays
<1> QED
  BY <1>1, <1>2, <1>3 DEF AdmissionsAreJustified

\* What a closed run says of itself stays true.
LEMMA NextVerdict ==
    ASSUME TypeOK, FlightInv, PhasesInOrder, VerdictStands, [Next]_vars
    PROVE  VerdictStands'
<1>1. StaysClosed
  BY ClosedStays
<1>2. cancelAsked => cancelAsked'
  BY DEF Next, Over, vars, Interrupt, LaunchFails, DeadlinePasses, Cancel, Coordinator, CoordinatorTask,
     Start, LoopEnds, LoopTurns, ObserveCancel, AdmitDone, LaunchDone, AwaitNothing, ExpireDone, Conclude, Tell,
     MarkDone, AbortClose, AdmitToRun, AdmitToEnd, LaunchTask, AwaitLanding, ExpireSettled, ExpireAbandon, TimeOut,
     AbortFlight, Thread, Runtime, BeginCancelled, BeginAbandoned, Begin, Invoke, Finish, GiveUp, TryAgain, Land
<1>3. CASE Conclude
  <2>1. /\ pc' = "tell" /\ runStatus' = RunVerdict(status, cancelSeen)
        /\ status' = status /\ cancelAsked' = cancelAsked /\ interrupted' = interrupted
    BY <1>3 DEF Conclude
  <2>2. recorded' => storedRun' = runStatus' /\ stored' = status'
    BY <1>3 DEF Conclude, SaveRun
  <2>3. cancelSeen => cancelAsked
    BY DEF PhasesInOrder
  <2> QED
    BY <2>1, <2>2, <2>3 DEF VerdictStands, RunVerdict, Closing
<1>4. CASE AbortClose
  <2>1. /\ pc' = "tell" /\ runStatus' = "failed" /\ interrupted'
    BY <1>4 DEF AbortClose, PhasesInOrder
  <2>2. recorded' => storedRun' = runStatus' /\ stored' = status'
    BY <1>4 DEF AbortClose, SaveRun
  <2> QED
    BY <2>1, <2>2 DEF VerdictStands, Closing
<1>5. CASE Tell \/ MarkDone
  BY <1>5 DEF Tell, MarkDone, VerdictStands, Closing
<1>6. CASE pc' = pc /\ UNCHANGED <<runStatus, runSaid, storedRun, recorded, interrupted>>
  BY <1>1, <1>2, <1>6 DEF StaysClosed, VerdictStands, Closing
<1>7. CASE pc' \notin Closing
  BY <1>7 DEF VerdictStands, Closing
<1>8. ASSUME NEW t \in Tasks, Thread(t) PROVE VerdictStands'
  <2>1. pc' = pc /\ UNCHANGED <<runStatus, runSaid, storedRun, recorded, interrupted>>
    BY <1>8, ThreadEffect DEF Thread, Runtime, BeginCancelled, BeginAbandoned, Begin, Invoke, Finish, GiveUp, TryAgain, Land
  <2> QED
    BY <1>6, <2>1
<1>9. CASE Coordinator
  BY <1>3, <1>4, <1>5, <1>7, <1>9 DEF Coordinator, CoordinatorTask, Start, LoopEnds, LoopTurns, ObserveCancel, AdmitDone,
     LaunchDone, AwaitNothing, ExpireDone, AdmitToRun, AdmitToEnd, LaunchTask, AwaitLanding, ExpireSettled, ExpireAbandon,
     TimeOut, AbortFlight, Closing
<1> QED
  BY <1>6, <1>7, <1>8, <1>9 DEF Next, Over, vars, Interrupt, LaunchFails, DeadlinePasses, Cancel, Closing

\* Counts, admissions and verdicts are right for every plan and every interleaving: from
\* _prepare to mark_done, through timeouts, cancellation, store failures and an interrupt.
THEOREM RunInvariant == Spec => []RunInv
<1>1. Init => RunInv
  BY InitPhases, InitCounts, InitVerdicts DEF RunInv
<1>2. TypeOK /\ FlightInv /\ RunInv /\ [Next]_vars => RunInv'
  BY NextPhases, NextRunning, NextCounts, NextJustified, NextVerdict DEF RunInv
<1> QED
  BY <1>1, <1>2, TypeCorrect, FlightInvariant, PTL DEF Spec

\* Engine._blocked is exact for every plan: however a landing and a timeout race, a task's end
\* releases each of its dependents once.
THEOREM CountsAreExact == Spec => []BlockedExact
  BY RunInvariant, PTL DEF RunInv

\* No task of any plan makes its first attempt before its dependencies are over, nor an
\* on_success task on a dependency that did not succeed.
THEOREM StartsJustified == Spec => []StartsAreJustified
<1>1. RunInv => StartsAreJustified
  BY DEF RunInv, AdmissionsAreJustified, StartsAreJustified, Justified
<1> QED
  BY <1>1, RunInvariant, PTL

\* Every run that releases its waiters leaves no task behind and tells the truth about itself,
\* for every acyclic plan: levels are what makes a plan acyclic.
THEOREM EndsAreConsistent == Spec => []EndIsConsistent
<1>1. RunInv => EndIsConsistent
  BY DEF RunInv, NothingForgotten, VerdictStands, EndIsConsistent, Closing
<1> QED
  BY <1>1, RunInvariant, PTL

-----------------------------------------------------------------------------
(* The engine implements the contract of a run *)

\* A task that starts or ends without having run has all its dependencies over; the rest of the
\* engine's steps change nothing the contract speaks of.
LEMMA StepImplements ==
    ASSUME TypeOK, FlightInv, RunInv, [Next]_vars
    PROVE  [Contract!Next]_(Contract!vars)
<1> DEFINE Same == UNCHANGED <<status, runStatus>> /\ (pc' = "done" <=> pc = "done")
           Goal == Contract!Next \/ UNCHANGED Contract!vars
<1> SUFFICES Goal
  OBVIOUS
<1>1. CASE Same
  BY <1>1 DEF Contract!vars
<1>2. ASSUME NEW t \in Tasks, LaunchTask(t) \/ LaunchFails(t) PROVE Contract!StartTask(t)
  <2>1. pc = "launch" /\ t \in waiting /\ runStatus' = runStatus /\ pc' # "done"
        /\ status' = [status EXCEPT ![t] = "running"]
    BY <1>2 DEF LaunchTask, LaunchFails
  <2>2. runStatus = "running" /\ status[t] = "pending" /\ \A d \in Deps[t] : IsFinal(status[d])
    BY <2>1, QueuedAreUnblocked DEF RunInv, PhasesInOrder, Turning, Working
  <2> QED
    BY <2>1, <2>2 DEF Contract!StartTask, Contract!IsFinal, Contract!OpenStatus, IsFinal, OpenStatus
<1>3. ASSUME NEW t \in Tasks, AdmitToEnd(t) PROVE Contract!EndTask(t)
  <2>1. pc = "admit" /\ t \in ready /\ runStatus' = runStatus /\ pc' = pc
    BY <1>3 DEF AdmitToEnd
  <2>2. status' = [status EXCEPT ![t] = "skipped"] \/ status' = [status EXCEPT ![t] = "failed"]
    BY <1>3, VerdictTypes DEF AdmitToEnd
  <2>3. runStatus = "running" /\ status[t] = "pending" /\ \A d \in Deps[t] : IsFinal(status[d])
    BY <2>1, QueuedAreUnblocked DEF RunInv, PhasesInOrder, Turning, Working
  <2> QED
    BY <2>1, <2>2, <2>3 DEF Contract!EndTask, Contract!IsFinal, Contract!OpenStatus, IsFinal, OpenStatus
<1>4. ASSUME NEW t \in Tasks, TimeOut(t) PROVE Contract!EndTask(t)
  <2>1. pc = "expire" /\ t \in sweep /\ abandoned[t] /\ runStatus' = runStatus /\ pc' = pc
        /\ status' = [status EXCEPT ![t] = "timeout"]
    BY <1>4 DEF TimeOut
  <2>2. t \in flights /\ ~settled[t]
    BY <2>1 DEF FlightInv, SweepOnTheBooks, SettledOrAbandoned
  <2>3. runStatus = "running" /\ status[t] = "running"
    BY <2>1, <2>2 DEF FlightInv, UnsettledIsRunning, RunInv, PhasesInOrder, Turning, Working
  <2> QED
    BY <2>1, <2>3 DEF Contract!EndTask, Contract!FailureStatus
<1>5. ASSUME NEW t \in Tasks, Thread(t) PROVE Goal
  <2>1. pc' = pc /\ runStatus' = runStatus
    BY <1>5, ThreadEffect
  <2>2. CASE status' = status
    BY <1>1, <2>1, <2>2
  <2>3. CASE status' # status
    <3>1. /\ t \in flights /\ status[t] = "running" /\ ~settled[t] /\ ~abandoned[t]
          /\ status'[t] \in {"succeeded", "failed", "cancelled"}
          /\ \A u \in Tasks \ {t} : status'[u] = status[u]
      BY <1>5, <2>3, ThreadEffect, ThreadTypes DEF TypeOK
    <3>2. status' = [status EXCEPT ![t] = status'[t]]
      BY <1>5, <3>1, ThreadTypes DEF TypeOK
    <3>3. runStatus = "running"
      BY <3>1 DEF RunInv, PhasesInOrder
    <3>4. Contract!EndTask(t)
      BY <2>1, <3>1, <3>2, <3>3 DEF Contract!EndTask, Contract!FailureStatus
    <3> QED
      BY <3>4 DEF Contract!Next
  <2> QED
    BY <2>2, <2>3
<1>6. CASE ObserveCancel
  <2>1. runStatus = "running"
    BY <1>6 DEF ObserveCancel, RunInv, PhasesInOrder, Turning, Working
  <2>2. Contract!CancelPending
    BY <1>6, <2>1 DEF ObserveCancel, Pending, Contract!CancelPending
  <2> QED
    BY <2>2 DEF Contract!Next
<1>7. CASE Conclude
  <2>1. runStatus = "running" /\ \A t \in Tasks : IsFinal(status[t])
    BY <1>7 DEF Conclude, RunInv, PhasesInOrder, NothingForgotten, Turning
  <2>2. Contract!Close
    BY <1>7, <2>1 DEF Conclude, RunVerdict, IsFinal, OpenStatus, IsFailure, FailureStatus, Contract!Close, Contract!IsFinal,
       Contract!OpenStatus, Contract!IsFailure, Contract!FailureStatus
  <2> QED
    BY <2>2 DEF Contract!Next
<1>8. CASE AbortClose
  <2>1. Contract!Abort
    BY <1>8 DEF AbortClose, IsFinal, OpenStatus, Contract!Abort, Contract!IsFinal, Contract!OpenStatus
  <2> QED
    BY <2>1 DEF Contract!Next
<1>9. CASE MarkDone
  <2>1. runStatus # "running"
    BY <1>9 DEF MarkDone, RunInv, PhasesInOrder, Closing
  <2>2. Contract!ReleaseWaiters
    BY <1>9, <2>1 DEF MarkDone, Contract!ReleaseWaiters
  <2> QED
    BY <2>2 DEF Contract!Next
<1>10. ASSUME NEW t \in Tasks, CoordinatorTask(t) PROVE Goal
  <2>1. CASE AdmitToRun(t) \/ AwaitLanding(t) \/ ExpireSettled(t) \/ ExpireAbandon(t) \/ AbortFlight(t)
    BY <1>1, <2>1 DEF AdmitToRun, AwaitLanding, ExpireSettled, ExpireAbandon, AbortFlight
  <2> QED
    BY <1>2, <1>3, <1>4, <1>10, <2>1 DEF CoordinatorTask, Contract!Next
<1>11. CASE Coordinator
  <2>1. CASE Start \/ LoopEnds \/ LoopTurns \/ AdmitDone \/ LaunchDone \/ AwaitNothing \/ ExpireDone \/ Tell
    BY <1>1, <2>1 DEF Start, LoopEnds, LoopTurns, AdmitDone, LaunchDone, AwaitNothing, ExpireDone, Tell
  <2> QED
    BY <1>6, <1>7, <1>8, <1>9, <1>10, <1>11, <2>1 DEF Coordinator
<1>12. CASE UNCHANGED vars \/ Interrupt \/ Cancel
  BY <1>1, <1>12 DEF vars, Interrupt, Cancel
<1>13. ASSUME NEW t \in Tasks, LaunchFails(t) \/ DeadlinePasses(t) PROVE Goal
  <2>1. CASE LaunchFails(t)
    BY <1>2, <2>1 DEF Contract!Next
  <2>2. CASE DeadlinePasses(t)
    BY <1>1, <2>2 DEF DeadlinePasses
  <2> QED
    BY <1>13, <2>1, <2>2
<1> QED
  BY <1>5, <1>11, <1>12, <1>13 DEF Next, Over

\* The engine, with all its threads, queues, timeouts, cancellations and interrupts, implements
\* PipelineRunContract for every plan: whoever holds a PipelineRun may reason from the contract.
THEOREM EngineImplementsContract == Spec => ImplementsContract
<1>1. Init => Contract!Init
  <2> SUFFICES ASSUME Init PROVE Contract!Init
    OBVIOUS
  <2>1. status \in [Tasks -> {"pending", "succeeded"}] /\ runStatus = "running" /\ pc # "done"
    BY DEF Init
  <2> QED
    BY <2>1 DEF Contract!Init
<1>2. TypeOK /\ FlightInv /\ RunInv /\ [Next]_vars => [Contract!Next]_(Contract!vars)
  BY StepImplements
<1> QED
  BY <1>1, <1>2, TypeCorrect, FlightInvariant, RunInvariant, PTL DEF Spec, ImplementsContract, Contract!Spec
=============================================================================
