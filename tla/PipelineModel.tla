---------------------------- MODULE PipelineModel ----------------------------
(* The value types of automation_file/pipeline/model.py that the runtime      *)
(* branches on: where a task stands, where a run stands, why a task was       *)
(* skipped and what may gate a task.  Everything else a TaskRun carries       *)
(* (results, error texts, time stamps) is data no decision of the engine      *)
(* reads and is left out.                                                     *)
EXTENDS Integers, FiniteSets

\* TaskStatus.  PLANNED belongs to dry runs, which never reach the engine.
OpenStatus == {"pending", "running"}
FailureStatus == {"failed", "timeout", "cancelled"}
TaskStatus == OpenStatus \union FailureStatus \union {"succeeded", "skipped"}

\* TaskStatus.is_final and TaskStatus.is_failure
IsFinal(s) == s \notin OpenStatus
IsFailure(s) == s \in FailureStatus

RunStatus == {"running", "succeeded", "failed", "cancelled"}

\* The REASON_* constants of a skipped task ("none": not skipped).
Reason == {"none", "condition", "upstream_failed", "upstream_skipped", "idempotent"}

\* Task.when: the three named conditions, or a user callable.
WhenKind == {"on_success", "on_failure", "always", "callable"}

\* TaskRun.satisfied: a dependent can count on the task.
Satisfied(status, reason) ==
    \/ status = "succeeded"
    \/ status = "skipped" /\ reason = "idempotent"
=============================================================================
