-------------------------- MODULE MCPipelineEngine --------------------------
(* Small plans for PipelineEngine. *)
EXTENDS PipelineEngine

\* Two extracts that may overlap, a load of both results, and a cleanup that runs when
\* an extract or the load did not succeed.
FlowTasks == {"orders", "prices", "load", "cleanup"}
FlowDeps ==
    [t \in FlowTasks |->
        CASE t = "load" -> {"orders", "prices"} [] t = "cleanup" -> {"load", "prices"} [] OTHER -> {}]
FlowLevel == [t \in FlowTasks |-> CASE t = "load" -> 1 [] t = "cleanup" -> 2 [] OTHER -> 0]
FlowWhen == [t \in FlowTasks |-> IF t = "cleanup" THEN "on_failure" ELSE "on_success"]
FlowAttempts == [t \in FlowTasks |-> IF t = "orders" THEN 2 ELSE 1]

\* Two sources joined by a third task, which asks the store first
JoinTasks == {"left", "right", "join"}
JoinDeps == [t \in JoinTasks |-> IF t = "join" THEN {"left", "right"} ELSE {}]
JoinLevel == [t \in JoinTasks |-> IF t = "join" THEN 1 ELSE 0]
JoinWhen == [t \in JoinTasks |-> IF t = "right" THEN "callable" ELSE "on_success"]
JoinAttempts == [t \in JoinTasks |-> 1]
JoinCarried == {{}, {"left"}, {"left", "join"}}
=============================================================================
