------------------------ MODULE PipelineRunContract ------------------------
(* What one pipeline run promises to whoever holds its PipelineRun: the      *)
(* callers of run, start, wait and cancel, and the scheduler.  Threads,      *)
(* queues, tokens and deadlines are gone; a task is only what its status     *)
(* says and a run is only what its tasks and its own status say.             *)
EXTENDS PipelineModel

CONSTANTS Tasks, Deps

VARIABLES
    status,     \* status[t]: TaskRun.status
    runStatus,  \* PipelineRun.status
    over        \* PipelineRun.done: waiters are released

vars == <<status, runStatus, over>>

Init ==
    /\ status \in [Tasks -> {"pending", "succeeded"}]
    /\ runStatus = "running"
    /\ over = FALSE

\* A task starts once everything it depends on is over.
StartTask(t) ==
    /\ runStatus = "running"
    /\ status[t] = "pending"
    /\ \A d \in Deps[t] : IsFinal(status[d])
    /\ status' = [status EXCEPT ![t] = "running"]
    /\ UNCHANGED <<runStatus, over>>

\* A task ends once, from running or without having run.
EndTask(t) ==
    /\ runStatus = "running"
    /\ \/ /\ status[t] = "pending"
          /\ \A d \in Deps[t] : IsFinal(status[d])
          /\ status' = [status EXCEPT ![t] = "skipped"]
       \/ /\ status[t] = "pending"
          /\ \A d \in Deps[t] : IsFinal(status[d])
          /\ status' = [status EXCEPT ![t] = "failed"]
       \/ /\ status[t] = "running"
          /\ \E s \in FailureStatus \union {"succeeded"} : status' = [status EXCEPT ![t] = s]
    /\ UNCHANGED <<runStatus, over>>

\* A cancellation ends, in one go, everything that has not started.
CancelPending ==
    /\ runStatus = "running"
    /\ status' = [t \in Tasks |-> IF status[t] = "pending" THEN "cancelled" ELSE status[t]]
    /\ UNCHANGED <<runStatus, over>>

\* The run closes when every task is over, and its status is the tasks' verdict.
Close ==
    /\ runStatus = "running"
    /\ \A t \in Tasks : IsFinal(status[t])
    /\ \/ /\ runStatus' = "succeeded"
          /\ \A t \in Tasks : ~IsFailure(status[t])
       \/ /\ runStatus' = "failed"
          /\ \E t \in Tasks : IsFailure(status[t])
       \/ /\ runStatus' = "cancelled"
          /\ \E t \in Tasks : status[t] = "cancelled"
    /\ UNCHANGED <<status, over>>

\* An interrupted run ends what is open and fails, whatever it was about to say.
Abort ==
    /\ ~over
    /\ status' = [t \in Tasks |-> IF IsFinal(status[t]) THEN status[t] ELSE "cancelled"]
    /\ runStatus' = "failed"
    /\ UNCHANGED over

ReleaseWaiters ==
    /\ ~over /\ runStatus # "running"
    /\ over' = TRUE
    /\ UNCHANGED <<status, runStatus>>

Next ==
    \/ \E t \in Tasks : StartTask(t) \/ EndTask(t)
    \/ CancelPending \/ Close \/ Abort \/ ReleaseWaiters

Spec == Init /\ [][Next]_vars
=============================================================================
