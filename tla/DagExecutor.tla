----------------------------- MODULE DagExecutor -----------------------------
(* execute_action_dag of core/dag_executor.py: nodes run on a thread pool in  *)
(* dependency order; a failure skips what depends on it, or with              *)
(* fail_fast=False nothing.                                                   *)
(*                                                                            *)
(* _build_graph has accepted the graph: ids are unique, dependencies known    *)
(* and acyclic.  The coordinator submits everything that is ready and then    *)
(* waits for one or more futures; nodes end on the pool meanwhile.            *)
EXTENDS Integers, FiniteSets

CONSTANTS
    Nodes,
    Deps,        \* Deps[n]: depends_on
    Actionless,  \* the nodes whose action is not a list
    MaxWorkers

VARIABLES
    failFast,  \* the parameter fail_fast of the call
    pc,        \* where the coordinator is: "submit", "wait", "drain" or "done"
    indegree,  \* _DagRun.indegree
    result,    \* _DagRun.results ("none": no entry)
    ready,     \* _DagRun.ready
    inFlight,  \* _DagRun.in_flight
    batch,     \* the futures wait() has returned
    working,   \* submitted nodes a pool thread has picked up
    future,    \* future[n]: whether the node's future is done, and how
    begun      \* history: how often the node's action was called

dagVars == <<failFast, pc, indegree, result, ready, inFlight, batch, working, future, begun>>

Result == {"none", "value", "error", "skipped"}

Dependents(n) == {m \in Nodes : n \in Deps[m]}

\* _build_graph and _DagRun.__init__
DagInit ==
    /\ failFast \in BOOLEAN
    /\ pc = "submit"
    /\ indegree = [n \in Nodes |-> Cardinality(Deps[n])]
    /\ result = [n \in Nodes |-> "none"]
    /\ ready = {n \in Nodes : Deps[n] = {}}
    /\ inFlight = {}
    /\ batch = {}
    /\ working = {}
    /\ future = [n \in Nodes |-> "pending"]
    /\ begun = [n \in Nodes |-> 0]

-----------------------------------------------------------------------------

\* Bug: the dependents of what is skipped are forgotten.
SkippedShallow(n) == {m \in Dependents(n) : result[m] = "none"}

\* _mark_skipped goes down from the dependents of n through all that has no result yet.
Skipped(n) ==
    LET open == {m \in Nodes \ {n} : result[m] = "none"}
        Closed(S) == \A m \in open : Deps[m] \intersect (S \union {n}) # {} => m \in S
    IN  {m \in open : \A S \in SUBSET open : Closed(S) => m \in S}

\* n has its result, and what failed takes the nodes of S along.
Settle(n, value, S) ==
    /\ result' = [m \in Nodes |-> IF m = n THEN value ELSE IF m \in S THEN "skipped" ELSE result[m]]
    /\ indegree' = [m \in Nodes |-> indegree[m] - Cardinality(Deps[m] \intersect ({n} \union S))]

\* submit, of a node without an action list
SubmitActionless(n) ==
    /\ pc = "submit" /\ n \in ready \intersect Actionless
    /\ ready' = ready \ {n}
    /\ IF failFast THEN \E S \in {Skipped(n)} : Settle(n, "error", S)
       ELSE result' = [result EXCEPT ![n] = "error"] /\ UNCHANGED indegree
    /\ UNCHANGED <<failFast, pc, inFlight, batch, working, future, begun>>

Submit(n) ==
    /\ pc = "submit" /\ n \in ready \ Actionless
    /\ ready' = ready \ {n}
    /\ inFlight' = inFlight \union {n}
    /\ UNCHANGED <<failFast, pc, indegree, result, batch, working, future, begun>>

\* Nothing is ready: wait for a future, or end when there is none.
SubmitDone ==
    /\ pc = "submit" /\ ready = {}
    /\ pc' = IF inFlight = {} THEN "done" ELSE "wait"
    /\ UNCHANGED <<failFast, indegree, result, ready, inFlight, batch, working, future, begun>>

\* The pool: max_workers threads call the actions.
Begin(n) ==
    /\ n \in inFlight \ working /\ future[n] = "pending"
    /\ Cardinality(working) < MaxWorkers
    /\ working' = working \union {n}
    /\ begun' = [begun EXCEPT ![n] = @ + 1]
    /\ UNCHANGED <<failFast, pc, indegree, result, ready, inFlight, batch, future>>

Finish(n, value) ==
    /\ n \in working
    /\ working' = working \ {n}
    /\ future' = [future EXCEPT ![n] = value]
    /\ UNCHANGED <<failFast, pc, indegree, result, ready, inFlight, batch, begun>>

\* The dependents of n that wait for nothing else
ReadyAfter(n) == {m \in Dependents(n) : indegree[m] = 1 /\ result[m] = "none"}

\* wait(FIRST_COMPLETED): every future that is done when it returns
Wait ==
    /\ pc = "wait"
    /\ batch' = {n \in inFlight : future[n] # "pending"}
    /\ batch' # {}
    /\ pc' = "drain"
    /\ UNCHANGED <<failFast, indegree, result, ready, inFlight, working, future, begun>>

\* drain_completed and _complete: one future of the batch
Complete(n) ==
    /\ pc = "drain" /\ n \in batch
    /\ batch' = batch \ {n}
    /\ inFlight' = inFlight \ {n}
    /\ LET failed == future[n] = "error" IN
       /\ \E S \in {IF failed /\ failFast THEN Skipped(n) ELSE {}} : Settle(n, future[n], S)
       /\ ready' = IF failed /\ failFast THEN ready ELSE ready \union ReadyAfter(n)
    /\ UNCHANGED <<failFast, pc, working, future, begun>>

DrainDone ==
    /\ pc = "drain" /\ batch = {}
    /\ pc' = "submit"
    /\ UNCHANGED <<failFast, indegree, result, ready, inFlight, batch, working, future, begun>>

Over == pc = "done" /\ UNCHANGED dagVars

DagNext ==
    \/ \E n \in Nodes : SubmitActionless(n) \/ Submit(n) \/ Begin(n) \/ Complete(n)
    \/ \E n \in Nodes, v \in {"value", "error"} : Finish(n, v)
    \/ SubmitDone \/ Wait \/ DrainDone \/ Over

DagSpec == DagInit /\ [][DagNext]_dagVars

-----------------------------------------------------------------------------

DagTypeOK ==
    /\ failFast \in BOOLEAN
    /\ pc \in {"submit", "wait", "drain", "done"}
    /\ indegree \in [Nodes -> Int]
    /\ result \in [Nodes -> Result]
    /\ ready \subseteq Nodes
    /\ inFlight \subseteq Nodes
    /\ batch \subseteq inFlight
    /\ working \subseteq inFlight
    /\ future \in [Nodes -> {"pending", "value", "error"}]
    /\ begun \in [Nodes -> 0 .. 1]

\* A node's action is called only when everything it depends on has ended; with fail_fast
\* only when all of that has produced a value.
RunsAfterItsDependencies ==
    \A n \in Nodes : begun[n] > 0 =>
        \A d \in Deps[n] : result[d] = "value" \/ (~failFast /\ result[d] = "error")

\* Without fail_fast the end of a node without an action is not counted down.
Uncounted(d) == result[d] = "none" \/ (~failFast /\ d \in Actionless)

\* indegree counts the dependencies that have not ended, skipped ones included, through
\* every diamond: no node becomes ready twice, and only what Uncounted says never does.
IndegreeExact ==
    \A n \in Nodes : indegree[n] = Cardinality({d \in Deps[n] : Uncounted(d)})

\* Nodes run when their dependencies are over, and only then.
DagInv == DagTypeOK /\ RunsAfterItsDependencies /\ IndegreeExact

\* The loop never waits for a future that nobody completes: until the call returns, a future it waits
\* for is done, is being worked on, or has a worker free for it.
NeverStuck ==
    pc = "wait" => \E n \in inFlight :
        future[n] # "pending" \/ n \in working \/ Cardinality(working) < MaxWorkers

\* "Returns a dict mapping each node id to either the action's return value, the repr of its
\* exception, or skipped": when the call returns a node is skipped exactly when fail_fast is
\* on and one of its dependencies failed or was skipped, and missing only if, without
\* fail_fast, it comes after a node that has no action.
EveryNodeHasAResult ==
    pc = "done" => \A n \in Nodes :
        /\ result[n] = "none" <=> \E d \in Deps[n] : Uncounted(d)
        /\ result[n] = "skipped" <=>
              failFast /\ \E d \in Deps[n] : result[d] \in {"error", "skipped"}

\* Counts, ready nodes and futures hang together at every step, the loop can always go on, and when
\* the call returns every node has the result it should have.
DagSound == DagInv /\ NeverStuck /\ EveryNodeHasAResult

-----------------------------------------------------------------------------
(* The inductive invariant behind DagSound *)

\* What _build_graph leaves: known dependencies without a cycle, and a pool with a worker
GraphOK ==
    /\ IsFiniteSet(Nodes)
    /\ Deps \in [Nodes -> SUBSET Nodes]
    /\ \A T \in SUBSET Nodes : T # {} => \E n \in T : Deps[n] \intersect T = {}
    /\ MaxWorkers \in Nat \ {0}

Ran(n) == result[n] \in {"value", "error"}

\* Everything n depends on is over, and well over if a failure would have skipped n.
DepsAreOver(n) == \A d \in Deps[n] : ~Uncounted(d) /\ (failFast => result[d] = "value")

\* A node is ready, in flight or has a result, one at a time, and none that could go on is forgotten.
NodesInOnePlace ==
    /\ ready \intersect inFlight = {}
    /\ \A n \in ready \union inFlight : result[n] = "none"
    /\ \A n \in Nodes : result[n] = "none" /\ indegree[n] = 0 => n \in ready \union inFlight
    /\ \A n \in Nodes : n \in ready \union inFlight \/ Ran(n) => DepsAreOver(n)

\* An action is called once, for a node in flight.
FuturesInStep ==
    /\ \A n \in Nodes : begun[n] > 0 => n \in inFlight \/ Ran(n)
    /\ \A n \in Nodes : begun[n] = 0 \/ n \in working => future[n] = "pending"
    /\ \A n \in working : begun[n] = 1
    /\ \A n \in inFlight \ working : future[n] = "pending" => begun[n] = 0
    /\ \A n \in batch : future[n] # "pending"
    /\ inFlight \intersect Actionless = {}

\* With fail_fast a failure has skipped everything below it, and nothing else was skipped.
SkipsAreClosed ==
    /\ failFast => \A n \in Nodes : \A d \in Deps[n] : result[d] \in {"error", "skipped"} => result[n] = "skipped"
    /\ \A n \in Nodes : result[n] = "skipped" =>
          failFast /\ \E d \in Deps[n] : result[d] \in {"error", "skipped"}

LoopInStep ==
    /\ pc # "submit" => (ready = {} \/ pc = "drain")
    /\ pc = "wait" => inFlight # {}
    /\ pc = "done" => inFlight = {}

GraphInv == DagTypeOK /\ IndegreeExact /\ NodesInOnePlace /\ FuturesInStep /\ SkipsAreClosed /\ LoopInStep
=============================================================================
