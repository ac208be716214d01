------------------------- MODULE Coordination_proofs -------------------------
(* Proofs about what coordinates work inside a process.                        *)
(*                                                                             *)
(* DagExecutor, for every graph _build_graph accepts: any number of nodes and  *)
(* workers, any acyclic dependencies, nodes with and without an action, with   *)
(* and without fail_fast.                                                      *)
(*                                                                             *)
(* FileWatching, for any number of restarts of the loop, of paths, names,      *)
(* observers and clients, and any delays.                                      *)
EXTENDS DagExecutor, FileWatching, FiniteSetTheorems, TLAPS

Open(m) == result[m] = "none"

\* The nodes _mark_skipped reaches from n are open, are all that depend on n or on one another,
\* and are no more than that.
LEMMA SkippedFacts ==
    ASSUME GraphOK, NEW n \in Nodes
    PROVE  /\ Skipped(n) \subseteq Nodes \ {n}
           /\ \A m \in Skipped(n) : Open(m)
           /\ \A m \in Nodes \ {n} : Open(m) /\ Deps[m] \intersect (Skipped(n) \union {n}) # {} => m \in Skipped(n)
           /\ \A m \in Skipped(n) : Deps[m] \intersect (Skipped(n) \union {n}) # {}
<1> DEFINE open == {m \in Nodes \ {n} : result[m] = "none"}
           Closed(S) == \A m \in open : Deps[m] \intersect (S \union {n}) # {} => m \in S
           K == {m \in open : \A S \in SUBSET open : Closed(S) => m \in S}
<1>1. Skipped(n) = K
  BY DEF Skipped
<1>2. \A m \in open : Deps[m] \intersect (K \union {n}) # {} => m \in K
  OBVIOUS
<1>3. \A m \in K : Deps[m] \intersect (K \union {n}) # {}
  <2> DEFINE J == {m \in K : Deps[m] \intersect (K \union {n}) # {}}
  <2>1. J \in SUBSET open /\ Closed(J)
    BY <1>2
  <2> QED
    BY <2>1
<1> QED
  BY <1>1, <1>2, <1>3 DEF Open

\* Counting down the dependents of what has just got a result keeps the counts exact.
LEMMA SettleCounts ==
    ASSUME GraphOK, GraphInv, NEW n \in Nodes, NEW v \in {"value", "error"}, NEW S \in SUBSET Nodes,
           Settle(n, v, S), \A m \in S \union {n} : Open(m), failFast' = failFast,
           failFast \/ (n \notin Actionless /\ S = {})
    PROVE  /\ IndegreeExact'
           /\ indegree' \in [Nodes -> Int] /\ result' \in [Nodes -> Result]
           /\ \A m \in Nodes : indegree'[m] = indegree[m] - Cardinality(Deps[m] \intersect ({n} \union S))
<1> DEFINE U(m) == {d \in Deps[m] : Uncounted(d)}
           N == {n} \union S
<1>1. result' \in [Nodes -> Result]
  BY DEF Settle, GraphInv, DagTypeOK, Result
<1>2. \A d \in Nodes : Uncounted(d)' <=> Uncounted(d) /\ d \notin N
  BY DEF Settle, Uncounted, Open
<1>3. \A d \in N : Uncounted(d)
  BY DEF Uncounted, Open
<1>4. ASSUME NEW m \in Nodes
      PROVE  /\ Cardinality(Deps[m] \intersect N) \in Nat
             /\ Cardinality(U(m)') = Cardinality(U(m)) - Cardinality(Deps[m] \intersect N)
  <2>1. Deps[m] \subseteq Nodes /\ IsFiniteSet(Deps[m])
    BY FS_Subset DEF GraphOK
  <2>2. U(m)' = U(m) \ N /\ U(m) \intersect N = Deps[m] \intersect N
    BY <1>2, <1>3, <2>1
  <2>3. IsFiniteSet(U(m)) /\ IsFiniteSet(Deps[m] \intersect N)
    BY <2>1, FS_Subset
  <2>4. Cardinality(U(m) \ N) = Cardinality(U(m)) - Cardinality(U(m) \intersect N)
    <3> HIDE DEF U, N
    <3> QED
      BY <2>3, FS_Difference
  <2> QED
    BY <2>2, <2>3, <2>4, FS_CardinalityType
<1>5. indegree' = [m \in Nodes |-> indegree[m] - Cardinality(Deps[m] \intersect N)]
  BY DEF Settle
<1>6. IndegreeExact'
  BY <1>4, <1>5 DEF IndegreeExact, GraphInv
<1>7. indegree \in [Nodes -> Int]
  BY DEF GraphInv, DagTypeOK
<1>8. indegree' \in [Nodes -> Int]
  <2> DEFINE c(m) == Cardinality(Deps[m] \intersect N)
  <2>1. \A m \in Nodes : c(m) \in Nat
    BY <1>4
  <2>2. indegree' = [m \in Nodes |-> indegree[m] - c(m)]
    BY <1>5
  <2> HIDE DEF c
  <2> QED
    BY <1>7, <2>1, <2>2
<1> QED
  BY <1>1, <1>5, <1>6, <1>8

\* A node in flight or ready that gets a result keeps the books: what waited for it last is ready, or
\* what is below its failure is skipped.
LEMMA SettleKeeps ==
    ASSUME GraphOK, GraphInv, NEW n \in ready \union inFlight, NEW v \in {"value", "error"},
           NEW S, S = IF v = "error" /\ failFast THEN Skipped(n) ELSE {},
           Settle(n, v, S), failFast' = failFast, failFast \/ n \notin Actionless,
           ready' \intersect inFlight' = {},
           ready' \union inFlight' =
              ((ready \union inFlight) \ {n}) \union (IF v = "error" /\ failFast THEN {} ELSE ReadyAfter(n))
    PROVE  /\ IndegreeExact' /\ NodesInOnePlace' /\ SkipsAreClosed'
           /\ indegree' \in [Nodes -> Int] /\ result' \in [Nodes -> Result]
<1>1. n \in Nodes /\ Open(n) /\ DepsAreOver(n)
  BY DEF GraphInv, NodesInOnePlace, DagTypeOK, Open
<1>2. /\ S \subseteq Nodes \ {n} /\ \A m \in S : Open(m)
      /\ \A m \in S : failFast /\ v = "error" /\ Deps[m] \intersect (S \union {n}) # {}
  BY <1>1, SkippedFacts
<1>3. v = "error" /\ failFast =>
         \A m \in Nodes \ {n} : Open(m) /\ Deps[m] \intersect (S \union {n}) # {} => m \in S
  BY <1>1, SkippedFacts
<1>4. S \in SUBSET Nodes /\ (failFast \/ (n \notin Actionless /\ S = {}))
  BY <1>2
<1>5. /\ IndegreeExact'
      /\ indegree' \in [Nodes -> Int] /\ result' \in [Nodes -> Result]
      /\ \A m \in Nodes : indegree'[m] = indegree[m] - Cardinality(Deps[m] \intersect ({n} \union S))
  BY <1>1, <1>2, <1>4, SettleCounts
<1>6. /\ result'[n] = v /\ \A m \in S : result'[m] = "skipped"
      /\ \A m \in Nodes \ ({n} \union S) : result'[m] = result[m]
  BY <1>1, <1>2 DEF Settle
<1>7. \A m \in Nodes : Deps[m] \subseteq Nodes
  BY DEF GraphOK
<1>8. \A m \in Nodes : DepsAreOver(m) => Deps[m] \intersect (S \union {n}) = {} /\ m \notin S /\ DepsAreOver(m)'
  <2> SUFFICES ASSUME NEW m \in Nodes, DepsAreOver(m)
               PROVE  Deps[m] \intersect (S \union {n}) = {} /\ m \notin S /\ DepsAreOver(m)'
    OBVIOUS
  <2>1. \A d \in Deps[m] : ~Open(d)
    BY DEF DepsAreOver, Uncounted, Open
  <2>2. Deps[m] \intersect (S \union {n}) = {}
    BY <1>1, <1>2, <2>1
  <2>3. m \notin S
    BY <1>2, <2>2
  <2>4. \A d \in Deps[m] : result'[d] = result[d]
    BY <1>6, <1>7, <2>2
  <2> QED
    BY <2>2, <2>3, <2>4 DEF DepsAreOver, Uncounted
<1>9. \A m \in ready \union inFlight : m \in Nodes /\ Open(m) /\ DepsAreOver(m) /\ m \notin S
  BY <1>8 DEF GraphInv, NodesInOnePlace, DagTypeOK, Open
<1>10. ASSUME ~(v = "error" /\ failFast), NEW m \in ReadyAfter(n)
       PROVE  m \in Nodes /\ m # n /\ result'[m] = "none" /\ DepsAreOver(m)'
  <2>1. m \in Nodes /\ n \in Deps[m] /\ indegree[m] = 1 /\ Open(m) /\ S = {}
    BY <1>10 DEF ReadyAfter, Dependents, Open
  <2>2. m # n
    BY <1>1, <1>8, <2>1
  <2>3. indegree'[m] = 0
    <3>1. Deps[m] \intersect ({n} \union S) = {n}
      BY <2>1
    <3>2. Cardinality(Deps[m] \intersect ({n} \union S)) = 1
      BY <3>1, FS_Singleton
    <3> QED
      BY <1>5, <2>1, <3>2
  <2>4. \A d \in Deps[m] : ~Uncounted(d)'
    <3> DEFINE U == {d \in Deps[m] : Uncounted(d)'}
    <3>1. IsFiniteSet(U) /\ Cardinality(U) = 0
      BY <1>5, <2>1, <2>3, <1>7, FS_Subset DEF IndegreeExact, GraphOK
    <3>2. U = {}
      BY <3>1, FS_EmptySet
    <3> QED
      BY <3>2
  <2>5. failFast => \A d \in Deps[m] : result'[d] = "value"
    <3> SUFFICES ASSUME failFast, NEW d \in Deps[m] PROVE result'[d] = "value"
      OBVIOUS
    <3>1. d \in Nodes /\ result'[d] # "none" /\ result'[d] \in Result
      BY <1>5, <1>7, <2>1, <2>4 DEF Uncounted
    <3>2. CASE d = n
      BY <1>6, <1>10, <3>2
    <3>3. CASE d # n
      <4>1. result'[d] = result[d]
        BY <1>6, <2>1, <3>1, <3>3
      <4>2. result[d] \notin {"error", "skipped"}
        BY <2>1 DEF GraphInv, SkipsAreClosed, Open
      <4> QED
        BY <3>1, <4>1, <4>2 DEF Result
    <3> QED
      BY <3>2, <3>3
  <2> QED
    BY <1>6, <2>1, <2>2, <2>4, <2>5 DEF DepsAreOver, Open
<1>11. NodesInOnePlace'
  <2>1. \A m \in ready' \union inFlight' : m \in Nodes /\ result'[m] = "none" /\ DepsAreOver(m)'
    <3> SUFFICES ASSUME NEW m \in ready' \union inFlight'
                 PROVE  m \in Nodes /\ result'[m] = "none" /\ DepsAreOver(m)'
      OBVIOUS
    <3>1. CASE m \in (ready \union inFlight) \ {n}
      BY <1>6, <1>8, <1>9, <3>1 DEF Open
    <3>2. CASE m \notin (ready \union inFlight) \ {n}
      BY <1>10, <3>2
    <3> QED
      BY <3>1, <3>2
  <2>2. \A m \in Nodes : result'[m] = "none" /\ indegree'[m] = 0 => m \in ready' \union inFlight'
    <3> SUFFICES ASSUME NEW m \in Nodes, result'[m] = "none", indegree'[m] = 0
                 PROVE  m \in ready' \union inFlight'
      OBVIOUS
    <3>1. m # n /\ m \notin S /\ Open(m)
      BY <1>6 DEF Open
    <3>2. CASE Deps[m] \intersect ({n} \union S) = {}
      <4>1. indegree[m] = 0
        BY <1>5, <3>2, FS_EmptySet DEF GraphInv, DagTypeOK
      <4> QED
        BY <3>1, <4>1 DEF GraphInv, NodesInOnePlace, Open
    <3>3. CASE Deps[m] \intersect ({n} \union S) # {}
      <4>1. ~(v = "error" /\ failFast)
        BY <1>3, <3>1, <3>3
      <4>2. Deps[m] \intersect ({n} \union S) = {n}
        BY <3>3, <4>1
      <4>3. Cardinality(Deps[m] \intersect ({n} \union S)) = 1
        BY <4>2, FS_Singleton
      <4>4. indegree[m] = 1
        BY <1>5, <4>3 DEF GraphInv, DagTypeOK
      <4> QED
        BY <3>1, <4>1, <4>2, <4>4 DEF ReadyAfter, Dependents, Open
    <3> QED
      BY <3>2, <3>3
  <2>3. \A m \in Nodes : Ran(m)' => DepsAreOver(m)'
    <3> SUFFICES ASSUME NEW m \in Nodes, Ran(m)' PROVE DepsAreOver(m)'
      OBVIOUS
    <3>1. m = n \/ Ran(m)
      BY <1>6 DEF Ran
    <3> QED
      BY <1>1, <1>8, <3>1 DEF GraphInv, NodesInOnePlace
  <2> QED
    BY <2>1, <2>2, <2>3 DEF NodesInOnePlace
<1>12. SkipsAreClosed'
  <2>1. ASSUME failFast, NEW m \in Nodes, NEW d \in Deps[m], result'[d] \in {"error", "skipped"}
        PROVE  result'[m] = "skipped"
    <3>1. d \in Nodes
      BY <1>7
    <3>2. CASE d \in S \union {n}
      <4>1. v = "error"
        BY <1>2, <1>6, <2>1, <3>2
      <4>2. ~DepsAreOver(m)
        BY <1>8, <3>2
      <4>3. m # n /\ ~Ran(m)
        BY <1>1, <4>2 DEF GraphInv, NodesInOnePlace
      <4>4. Open(m) \/ result[m] = "skipped"
        BY <4>3 DEF GraphInv, DagTypeOK, Result, Ran, Open
      <4>5. Open(m) => m \in S
        BY <1>3, <2>1, <3>2, <4>1, <4>3
      <4> QED
        BY <1>6, <4>3, <4>4, <4>5
    <3>3. CASE d \notin S \union {n}
      <4>1. result[d] \in {"error", "skipped"}
        BY <1>6, <2>1, <3>1, <3>3
      <4>2. result[m] = "skipped"
        BY <2>1, <4>1 DEF GraphInv, SkipsAreClosed
      <4> QED
        BY <1>1, <1>6, <4>2 DEF Open
    <3> QED
      BY <3>2, <3>3
  <2>2. ASSUME NEW m \in Nodes, result'[m] = "skipped"
        PROVE  failFast /\ \E d \in Deps[m] : result'[d] \in {"error", "skipped"}
    <3>1. CASE m \in S
      BY <1>2, <1>6, <3>1
    <3>2. CASE m \notin S
      <4>1. result[m] = "skipped"
        BY <1>6, <2>2, <3>2
      <4>2. failFast /\ \E d \in Deps[m] : result[d] \in {"error", "skipped"}
        BY <4>1 DEF GraphInv, SkipsAreClosed
      <4>3. \A d \in Deps[m] : result[d] \in {"error", "skipped"} => result'[d] = result[d]
        BY <1>1, <1>2, <1>6, <1>7 DEF Open
      <4> QED
        BY <4>2, <4>3
    <3> QED
      BY <3>1, <3>2
  <2> QED
    BY <2>1, <2>2 DEF SkipsAreClosed
<1> QED
  BY <1>5, <1>11, <1>12
-----------------------------------------------------------------------------
(* The graph invariant *)

\* The call starts with what depends on nothing.
LEMMA InitGraph == GraphOK /\ DagInit => GraphInv
<1> SUFFICES ASSUME GraphOK, DagInit PROVE GraphInv
  OBVIOUS
<1>1. \A n \in Nodes : IsFiniteSet(Deps[n]) /\ Cardinality(Deps[n]) \in Nat /\ (Cardinality(Deps[n]) = 0 <=> Deps[n] = {})
  BY FS_Subset, FS_CardinalityType, FS_EmptySet DEF GraphOK
<1>2. DagTypeOK
  BY <1>1 DEF DagInit, DagTypeOK, Result
<1>3. IndegreeExact
  <2>1. \A n \in Nodes : {d \in Deps[n] : Uncounted(d)} = Deps[n]
    BY DEF GraphOK, DagInit, Uncounted
  <2> QED
    BY <2>1 DEF DagInit, IndegreeExact
<1>4. NodesInOnePlace
  BY <1>1 DEF DagInit, NodesInOnePlace, DepsAreOver, Ran
<1>5. FuturesInStep /\ SkipsAreClosed /\ LoopInStep
  BY DEF DagInit, FuturesInStep, SkipsAreClosed, LoopInStep, GraphOK
<1> QED
  BY <1>2, <1>3, <1>4, <1>5 DEF GraphInv

\* submit of a node without an action: with fail_fast all below it is skipped, otherwise all below it
\* waits for good.
LEMMA SubmitActionlessKeeps ==
    ASSUME GraphOK, GraphInv, NEW n \in Nodes, SubmitActionless(n)
    PROVE  GraphInv'
<1>1. /\ pc = "submit" /\ n \in ready /\ n \in Actionless /\ ready' = ready \ {n}
      /\ UNCHANGED <<failFast, pc, inFlight, batch, working, future, begun>>
  BY DEF SubmitActionless
<1>2. /\ IndegreeExact' /\ NodesInOnePlace' /\ SkipsAreClosed'
      /\ indegree' \in [Nodes -> Int] /\ result' \in [Nodes -> Result]
  <2>1. CASE failFast
    <3>1. Settle(n, "error", Skipped(n))
      BY <2>1 DEF SubmitActionless
    <3>2. ready' \intersect inFlight' = {} /\ ready' \union inFlight' = (ready \union inFlight) \ {n}
      BY <1>1 DEF GraphInv, NodesInOnePlace
    <3> QED
      BY <1>1, <2>1, <3>1, <3>2, SettleKeeps
  <2>2. CASE ~failFast
    <3>1. result' = [result EXCEPT ![n] = "error"] /\ indegree' = indegree
      BY <2>2 DEF SubmitActionless
    <3>2. result[n] = "none" /\ DepsAreOver(n)
      BY <1>1 DEF GraphInv, NodesInOnePlace
    <3>3. \A d \in Nodes : Uncounted(d)' <=> Uncounted(d)
      BY <1>1, <2>2, <3>1, <3>2 DEF Uncounted, GraphInv, DagTypeOK
    <3>4. \A m \in Nodes : DepsAreOver(m)' <=> DepsAreOver(m)
      BY <1>1, <2>2, <3>3 DEF DepsAreOver, GraphOK
    <3>5. IndegreeExact'
      <4>1. \A m \in Nodes : {d \in Deps[m] : Uncounted(d)}' = {d \in Deps[m] : Uncounted(d)}
        BY <3>3 DEF GraphOK
      <4> QED
        BY <3>1, <4>1 DEF IndegreeExact, GraphInv
    <3>6. NodesInOnePlace'
      BY <1>1, <3>1, <3>2, <3>4 DEF NodesInOnePlace, GraphInv, DagTypeOK, Ran
    <3>7. SkipsAreClosed'
      BY <1>1, <2>2, <3>1 DEF SkipsAreClosed, GraphInv, DagTypeOK
    <3> QED
      BY <3>1, <3>5, <3>6, <3>7 DEF GraphInv, DagTypeOK, Result
  <2> QED
    BY <2>1, <2>2
<1>3. \A m \in inFlight : m # n
  BY <1>1 DEF GraphInv, NodesInOnePlace
<1>4. \A m \in Nodes : Ran(m) => Ran(m)'
  BY <1>1, <1>2, SkippedFacts DEF SubmitActionless, Settle, Ran, GraphInv, DagTypeOK, Open
<1> QED
  BY <1>1, <1>2, <1>4 DEF GraphInv, DagTypeOK, FuturesInStep, LoopInStep

\* drain_completed: a future of the batch
LEMMA CompleteKeeps ==
    ASSUME GraphOK, GraphInv, NEW n \in Nodes, Complete(n)
    PROVE  GraphInv'
<1>1. /\ pc = "drain" /\ n \in batch /\ n \in inFlight /\ batch' = batch \ {n} /\ inFlight' = inFlight \ {n}
      /\ UNCHANGED <<failFast, pc, working, future, begun>>
  BY DEF Complete, GraphInv, DagTypeOK
<1>2. future[n] \in {"value", "error"} /\ n \notin working /\ n \notin Actionless
  BY <1>1 DEF GraphInv, DagTypeOK, FuturesInStep
<1>3. PICK S : /\ S = IF future[n] = "error" /\ failFast THEN Skipped(n) ELSE {}
               /\ Settle(n, future[n], S)
  BY DEF Complete
<1>4. ready' = ready \union (IF future[n] = "error" /\ failFast THEN {} ELSE ReadyAfter(n))
  BY DEF Complete
<1>5. ready' \intersect inFlight' = {}
  <2>1. \A m \in ReadyAfter(n) : m \in Nodes /\ n \in Deps[m]
    BY DEF ReadyAfter, Dependents
  <2>2. \A m \in inFlight : n \notin Deps[m]
    BY <1>1 DEF GraphInv, NodesInOnePlace, DepsAreOver, Uncounted, DagTypeOK
  <2> QED
    BY <1>1, <1>4, <2>1, <2>2 DEF GraphInv, NodesInOnePlace
<1>6. n \notin ready
  BY <1>1 DEF GraphInv, NodesInOnePlace
<1>7. ready' \union inFlight' =
         ((ready \union inFlight) \ {n}) \union (IF future[n] = "error" /\ failFast THEN {} ELSE ReadyAfter(n))
  <2>1. n \notin ReadyAfter(n)
    BY <1>1 DEF GraphInv, NodesInOnePlace, DepsAreOver, Uncounted, ReadyAfter, Dependents
  <2> QED
    BY <1>1, <1>4, <1>6
<1>8. /\ IndegreeExact' /\ NodesInOnePlace' /\ SkipsAreClosed'
      /\ indegree' \in [Nodes -> Int] /\ result' \in [Nodes -> Result]
  <2>1. n \in ready \union inFlight /\ future[n] \in {"value", "error"} /\ failFast' = failFast /\ n \notin Actionless
    BY <1>1, <1>2
  <2> QED
    BY <2>1, <1>3, <1>5, <1>7, SettleKeeps
<1>9. result'[n] \in {"value", "error"} /\ \A m \in Nodes : Ran(m) => Ran(m)'
  BY <1>2, <1>3, SkippedFacts DEF Settle, Ran, Open
<1>10. DagTypeOK'
  BY <1>1, <1>2, <1>4, <1>8 DEF GraphInv, DagTypeOK, ReadyAfter, Dependents
<1>11. FuturesInStep'
  BY <1>1, <1>2, <1>9 DEF GraphInv, DagTypeOK, FuturesInStep, Ran
<1>12. LoopInStep'
  BY <1>1 DEF GraphInv, LoopInStep
<1> QED
  BY <1>8, <1>10, <1>11, <1>12 DEF GraphInv

\* Every step of the coordinator and of the pool keeps the graph invariant.
LEMMA NextGraph == GraphOK /\ GraphInv /\ [DagNext]_dagVars => GraphInv'
<1> SUFFICES ASSUME GraphOK, GraphInv, [DagNext]_dagVars PROVE GraphInv'
  OBVIOUS
<1>1. ASSUME UNCHANGED <<failFast, indegree, result>>, ready' \union inFlight' = ready \union inFlight,
             ready' \intersect inFlight' = {}
      PROVE  IndegreeExact' /\ NodesInOnePlace' /\ SkipsAreClosed'
  BY <1>1 DEF GraphInv, IndegreeExact, NodesInOnePlace, SkipsAreClosed, DepsAreOver, Ran, Uncounted
<1>2. ready \intersect inFlight = {}
  BY DEF GraphInv, NodesInOnePlace
<1>3. CASE UNCHANGED dagVars
  BY <1>1, <1>2, <1>3 DEF dagVars, GraphInv, DagTypeOK, FuturesInStep, LoopInStep, Ran
<1>4. ASSUME NEW n \in Nodes, Submit(n) PROVE GraphInv'
  <2>1. IndegreeExact' /\ NodesInOnePlace' /\ SkipsAreClosed'
    BY <1>1, <1>2, <1>4 DEF Submit
  <2>2. begun[n] = 0 /\ future[n] = "pending" /\ n \notin working
    BY <1>2, <1>4 DEF Submit, GraphInv, DagTypeOK, FuturesInStep, NodesInOnePlace, Ran
  <2> QED
    BY <1>4, <2>1, <2>2 DEF Submit, GraphInv, DagTypeOK, FuturesInStep, LoopInStep, Ran
<1>5. ASSUME NEW n \in Nodes, Begin(n) PROVE GraphInv'
  <2>1. IndegreeExact' /\ NodesInOnePlace' /\ SkipsAreClosed'
    BY <1>1, <1>2, <1>5 DEF Begin
  <2>2. begun[n] = 0
    BY <1>5 DEF Begin, GraphInv, FuturesInStep
  <2> QED
    BY <1>5, <2>1, <2>2 DEF Begin, GraphInv, DagTypeOK, FuturesInStep, LoopInStep, Ran
<1>6. ASSUME NEW n \in Nodes, NEW v \in {"value", "error"}, Finish(n, v) PROVE GraphInv'
  <2>1. IndegreeExact' /\ NodesInOnePlace' /\ SkipsAreClosed'
    BY <1>1, <1>2, <1>6 DEF Finish
  <2> QED
    BY <1>6, <2>1 DEF Finish, GraphInv, DagTypeOK, FuturesInStep, LoopInStep, Ran
<1>7. CASE SubmitDone \/ Wait \/ DrainDone
  <2>1. IndegreeExact' /\ NodesInOnePlace' /\ SkipsAreClosed'
    BY <1>1, <1>2, <1>7 DEF SubmitDone, Wait, DrainDone
  <2> QED
    BY <1>7, <2>1 DEF SubmitDone, Wait, DrainDone, GraphInv, DagTypeOK, FuturesInStep, LoopInStep, Ran
<1> QED
  BY <1>3, <1>4, <1>5, <1>6, <1>7, SubmitActionlessKeeps, CompleteKeeps DEF DagNext, Over

\* Of the nodes without a result one has all its dependencies over, so it is not left behind.
LEMMA GraphIsSound == GraphOK /\ GraphInv => DagSound
<1> SUFFICES ASSUME GraphOK, GraphInv PROVE DagSound
  OBVIOUS
<1>1. \A n \in Nodes : Deps[n] \subseteq Nodes /\ IsFiniteSet({d \in Deps[n] : Uncounted(d)})
  BY FS_Subset DEF GraphOK
<1>2. RunsAfterItsDependencies
  <2> SUFFICES ASSUME NEW n \in Nodes, begun[n] > 0, NEW d \in Deps[n]
               PROVE  result[d] = "value" \/ (~failFast /\ result[d] = "error")
    BY DEF RunsAfterItsDependencies
  <2>1. DepsAreOver(n)
    BY DEF GraphInv, FuturesInStep, NodesInOnePlace
  <2>2. d \in Nodes /\ result[d] # "none" /\ (failFast => result[d] = "value")
    BY <1>1, <2>1 DEF DepsAreOver, Uncounted
  <2>3. result[d] # "skipped" \/ failFast
    BY <2>2 DEF GraphInv, SkipsAreClosed
  <2> QED
    BY <2>2, <2>3 DEF GraphInv, DagTypeOK, Result
<1>3. NeverStuck
  <2> SUFFICES ASSUME pc = "wait" PROVE NeverStuck
    BY DEF NeverStuck
  <2>1. CASE working = {}
    <3>1. Cardinality(working) < MaxWorkers
      BY <2>1, FS_EmptySet DEF GraphOK
    <3> QED
      BY <3>1 DEF NeverStuck, GraphInv, LoopInStep
  <2>2. CASE working # {}
    BY <2>2 DEF NeverStuck, GraphInv, DagTypeOK
  <2> QED
    BY <2>1, <2>2
<1>4. EveryNodeHasAResult
  <2> SUFFICES ASSUME pc = "done" PROVE EveryNodeHasAResult
    BY DEF EveryNodeHasAResult
  <2>1. ready \union inFlight = {}
    BY DEF GraphInv, LoopInStep
  <2>2. ASSUME NEW n \in Nodes, result[n] = "none" PROVE \E d \in Deps[n] : Uncounted(d)
    <3>1. indegree[n] # 0
      BY <2>1, <2>2 DEF GraphInv, NodesInOnePlace
    <3>2. Cardinality({d \in Deps[n] : Uncounted(d)}) # 0
      BY <3>1 DEF GraphInv, IndegreeExact
    <3>3. {d \in Deps[n] : Uncounted(d)} # {}
      BY <1>1, <3>2, FS_EmptySet
    <3> QED
      BY <3>3
  <2>3. ASSUME failFast PROVE \A n \in Nodes : result[n] # "none"
    <3> DEFINE T == {n \in Nodes : result[n] = "none"}
    <3>1. SUFFICES ASSUME T # {} PROVE FALSE
      OBVIOUS
    <3>2. PICK n \in T : Deps[n] \intersect T = {}
      BY <3>1 DEF GraphOK
    <3>3. PICK d \in Deps[n] : Uncounted(d)
      BY <2>2
    <3> QED
      BY <1>1, <2>3, <3>2, <3>3 DEF Uncounted
  <2>4. ASSUME NEW n \in Nodes, NEW d \in Deps[n], Uncounted(d) PROVE result[n] = "none"
    <3>1. ~Ran(n)
      BY <2>4 DEF GraphInv, NodesInOnePlace, DepsAreOver
    <3>2. ~failFast
      BY <1>1, <2>3, <2>4 DEF Uncounted
    <3>3. result[n] # "skipped"
      BY <3>2 DEF GraphInv, SkipsAreClosed
    <3> QED
      BY <3>1, <3>3 DEF Ran, GraphInv, DagTypeOK, Result
  <2> QED
    BY <2>2, <2>4 DEF EveryNodeHasAResult, GraphInv, SkipsAreClosed
<1> QED
  BY <1>2, <1>3, <1>4 DEF DagSound, DagInv, GraphInv

\* execute_action_dag for every graph: the counts are exact through every diamond, actions run after
\* their dependencies, the loop never waits for nothing, and when it returns every node has a result,
\* skipped exactly below a failure.
THEOREM DagIsSound == ASSUME GraphOK PROVE DagSpec => []DagSound
<1>1. DagInit => GraphInv
  BY InitGraph
<1>2. GraphInv /\ [DagNext]_dagVars => GraphInv'
  BY NextGraph
<1>3. GraphInv => DagSound
  BY GraphIsSound
<1> QED
  BY <1>1, <1>2, <1>3, PTL DEF DagSpec

-----------------------------------------------------------------------------
(* FileWatching: one loop, and every observer in one place.                    *)

LEMMA WatchStart == WatchOK /\ WatchInit => WatchInv
BY DEF WatchOK, WatchInit, DebounceInit, RegistryInit, WatchInv, WatchTypeOK, LoopHasWork, OnePlace,
       ObserversBelong, Alive, IsRunning

\* The debouncer touches nothing of the registry.
LEMMA DebounceKeeps ==
    ASSUME WatchOK, WatchInv, Debounce, UNCHANGED registryVars
    PROVE  WatchInv'
<1> USE DEF WatchInv, WatchTypeOK, registryVars, Alive, IsRunning
<1>1. OnePlace' /\ ObserversBelong'
  BY DEF OnePlace, ObserversBelong
<1>2. ASSUME NEW works \in BOOLEAN, StartWatch(works)
      PROVE  WatchTypeOK' /\ LoopHasWork'
  <2>1. CASE IsRunning
    BY <1>2, <2>1 DEF StartWatch, StartLoop, LoopHasWork
  <2>2. CASE ~ IsRunning
    <3>1. PICK l \in Loops :
             /\ loop[l] = "unborn"
             /\ loop' = [loop EXCEPT ![l] = "waiting"] /\ current' = l
      BY <1>2, <2>2 DEF StartWatch, StartLoop
    <3>2. stopped' = FALSE /\ watch' \in {"on", "off"} /\ watch = "off"
          /\ UNCHANGED <<pending, handed, gaveUp>>
      BY <1>2, <2>2 DEF StartWatch, StartLoop
    <3>3. l # Nobody
      BY DEF WatchOK
    <3>4. WatchTypeOK'
      BY <3>1, <3>2
    <3>5. LoopHasWork'
      <4>1. \A k \in Loops : k # l => loop'[k] = loop[k]
        BY <3>1
      <4>2. loop'[l] = "waiting"
        BY <3>1
      <4>3. ~ gaveUp => \A k \in Loops : ~ Alive(k)
        BY <2>2, <3>3 DEF LoopHasWork, WatchOK
      <4> QED
        BY <3>1, <3>2, <3>3, <4>1, <4>2, <4>3 DEF LoopHasWork
    <3> QED
      BY <3>4, <3>5
  <2> QED
    BY <2>1, <2>2
<1>3. ASSUME StopWatch
      PROVE  WatchTypeOK' /\ LoopHasWork'
  BY <1>3 DEF StopWatch, LoopHasWork
<1>4. ASSUME TimePasses
      PROVE  WatchTypeOK' /\ LoopHasWork'
  BY <1>4 DEF TimePasses, LoopHasWork
<1>5. ASSUME NEW e \in FsEvents, Observe(e)
      PROVE  WatchTypeOK' /\ LoopHasWork'
  <2>1. Collected(e) \subseteq Paths
    BY DEF Collected
  <2> QED
    BY <1>5, <2>1 DEF Observe, Add, LoopHasWork
<1>6. ASSUME NEW patient \in BOOLEAN, Join(patient)
      PROVE  WatchTypeOK' /\ LoopHasWork'
  BY <1>6 DEF Join, Joined, LoopHasWork
<1>7. ASSUME NEW l \in Loops, WakeUp(l)
      PROVE  WatchTypeOK' /\ LoopHasWork'
  <2>1. CASE Leave(l)
    BY <1>7, <2>1 DEF WakeUp, Leave, LoopHasWork
  <2>2. CASE AwaitQuiet(l)
    BY <1>7, <2>2 DEF WakeUp, AwaitQuiet, LoopHasWork
  <2>3. CASE Deliver(l)
    BY <1>7, <2>3 DEF WakeUp, Deliver, LoopHasWork
  <2>4. CASE Delivered(l)
    BY <1>7, <2>4 DEF WakeUp, Delivered, LoopHasWork
  <2> QED
    BY <1>7, <2>1, <2>2, <2>3, <2>4 DEF WakeUp
<1>8. WatchTypeOK' /\ LoopHasWork'
  BY <1>2, <1>3, <1>4, <1>5, <1>6, <1>7 DEF Debounce
<1> QED
  BY <1>1, <1>8

\* The registry touches nothing of the debouncer.
LEMMA RegistryKeeps ==
    ASSUME WatchOK, WatchInv, Registry, UNCHANGED debounceVars
    PROVE  WatchInv'
<1> USE DEF WatchInv, WatchTypeOK, debounceVars, OnePlace, ObserversBelong
<1>1. LoopHasWork'
  BY DEF LoopHasWork, Alive, IsRunning
<1>2. ASSUME NEW n \in Watched, StartWatcher(n)
      PROVE  WatchTypeOK' /\ OnePlace' /\ ObserversBelong'
  <2>1. PICK o \in Observers :
           /\ observer[o] = "unborn"
           /\ observer' = [observer EXCEPT ![o] = "idle"]
           /\ serves' = [serves EXCEPT ![o] = n]
           /\ watchers' = [watchers EXCEPT ![n] = o]
    BY <1>2 DEF StartWatcher
  <2>2. watchers[n] = Nobody /\ stopping' = stopping
    BY <1>2 DEF StartWatcher, NameFree
  <2>3. WatchTypeOK'
    BY <2>1, <2>2
  <2>4. OnePlace'
    BY <2>1, <2>2 DEF WatchOK
  <2>5. ObserversBelong'
    BY <2>1, <2>2 DEF WatchOK
  <2> QED
    BY <2>3, <2>4, <2>5
<1>3. ASSUME NEW c \in Clients, NEW names \in SUBSET Watched,
             \A n \in names : watchers[n] # Nobody, TakeDown(c, names)
      PROVE  WatchTypeOK' /\ OnePlace' /\ ObserversBelong'
  <2> DEFINE taken == {watchers[n] : n \in names}
  <2>1. stopping[c] = {} /\ stopping' = [stopping EXCEPT ![c] = taken]
        /\ watchers' = [n \in Watched |-> IF n \in names THEN Nobody ELSE watchers[n]]
        /\ UNCHANGED <<observer, serves>>
    BY <1>3 DEF TakeDown
  <2>2. taken \subseteq Observers
    BY <1>3
  <2>3. WatchTypeOK'
    BY <2>1, <2>2
  <2>4. \A o \in taken : \E n \in names : o = watchers[n]
    OBVIOUS
  <2>5. \A o \in taken : observer[o] \notin {"unborn", "leaving"} /\ \A d \in Clients : o \notin stopping[d]
    BY <1>3, <2>4
  <2>6. \A n \in names : watchers[n] \in taken
    OBVIOUS
  <2>7. \A n \in Watched : watchers'[n] # Nobody => n \notin names /\ watchers'[n] = watchers[n]
    BY <2>1
  <2>8. \A n \in Watched \ names : watchers[n] # Nobody => watchers[n] \notin taken
    <3> SUFFICES ASSUME NEW n \in Watched \ names, watchers[n] # Nobody, watchers[n] \in taken
                 PROVE  FALSE
      OBVIOUS
    <3>1. PICK m \in names : watchers[n] = watchers[m]
      BY <2>4
    <3>2. serves[watchers[n]] = n /\ serves[watchers[m]] = m
      BY <1>3
    <3> QED
      BY <3>1, <3>2
  <2>9. OnePlace'
    <3> HIDE DEF taken
    <3> QED
      BY <2>1, <2>2, <2>5, <2>7, <2>8
  <2>10. ObserversBelong'
    <3> HIDE DEF taken
    <3>1. \A o \in Observers : observer[o] \in {"idle", "busy"} =>
             watchers'[serves[o]] = o \/ \E d \in Clients : o \in stopping'[d]
      <4> SUFFICES ASSUME NEW o \in Observers, observer[o] \in {"idle", "busy"}
                   PROVE  watchers'[serves[o]] = o \/ \E d \in Clients : o \in stopping'[d]
        OBVIOUS
      <4>1. CASE \E d \in Clients : o \in stopping[d]
        BY <2>1, <4>1
      <4>2. CASE watchers[serves[o]] = o
        <5>1. CASE serves[o] \in names
          BY <2>1, <2>6, <4>2, <5>1
        <5>2. CASE serves[o] \notin names
          <6>1. serves[o] \in Watched
            OBVIOUS
          <6> QED
            BY <2>1, <4>2, <5>2, <6>1
        <5> QED
          BY <5>1, <5>2
      <4> QED
        BY <4>1, <4>2
    <3>2. \A n \in Watched : watchers'[n] # Nobody =>
             serves[watchers'[n]] = n /\ observer[watchers'[n]] # "leaving"
      BY <2>7
    <3> QED
      BY <2>1, <3>1, <3>2
  <2> QED
    BY <2>3, <2>9, <2>10
<1>4. ASSUME NEW c \in Clients, NEW o \in Observers, StopObserver(c, o)
      PROVE  WatchTypeOK' /\ OnePlace' /\ ObserversBelong'
  BY <1>4 DEF StopObserver, WatchOK
<1>5. ASSUME NEW o \in Observers, Dispatch(o)
      PROVE  WatchTypeOK' /\ OnePlace' /\ ObserversBelong'
  BY <1>5 DEF Dispatch
<1>6. ASSUME NEW o \in Observers, NEW survives \in BOOLEAN, Dispatched(o, survives)
      PROVE  WatchTypeOK' /\ OnePlace' /\ ObserversBelong'
  BY <1>6 DEF Dispatched
<1>7. WatchTypeOK' /\ OnePlace' /\ ObserversBelong'
  <2>1. ASSUME NEW c \in Clients, StopAll(c)
        PROVE  WatchTypeOK' /\ OnePlace' /\ ObserversBelong'
    <3> DEFINE names == {n \in Watched : watchers[n] # Nobody}
    <3>1. TakeDown(c, names) /\ \A n \in names : watchers[n] # Nobody
      BY <2>1 DEF StopAll
    <3>2. names \in SUBSET Watched
      OBVIOUS
    <3> HIDE DEF names
    <3> QED
      BY <1>3, <3>1, <3>2
  <2>2. ASSUME NEW c \in Clients, NEW n \in Watched, StopWatcher(c, n)
        PROVE  WatchTypeOK' /\ OnePlace' /\ ObserversBelong'
    <3>1. {n} \in SUBSET Watched /\ \A m \in {n} : watchers[m] # Nobody
      BY <2>2 DEF StopWatcher
    <3>2. TakeDown(c, {n})
      BY <2>2 DEF StopWatcher
    <3> QED
      BY <1>3, <3>1, <3>2
  <2> HIDE DEF WatchInv, WatchTypeOK, OnePlace, ObserversBelong
  <2> QED
    BY <1>2, <1>4, <1>5, <1>6, <2>1, <2>2 DEF Registry
<1> QED
  BY <1>1, <1>7

LEMMA WatchSteps == WatchOK /\ WatchInv /\ [WatchNext]_watchVars => WatchInv'
<1> SUFFICES ASSUME WatchOK, WatchInv, [WatchNext]_watchVars PROVE WatchInv'
  OBVIOUS
<1>1. CASE Debounce /\ UNCHANGED registryVars
  BY <1>1, DebounceKeeps
<1>2. CASE Registry /\ UNCHANGED debounceVars
  BY <1>2, RegistryKeeps
<1>3. CASE UNCHANGED watchVars
  BY <1>3 DEF watchVars, debounceVars, registryVars, WatchInv, WatchTypeOK, LoopHasWork, OnePlace,
              ObserversBelong, Alive, IsRunning
<1> QED
  BY <1>1, <1>2, <1>3 DEF WatchNext

LEMMA WatchHolds == WatchInv => WatchersSound
BY DEF WatchInv, WatchersSound, LoopHasWork, OneLoop

(* While every stop has waited for its thread there is one loop, the one a     *)
(* stop would tell, and a watch that is on is served; every observer that      *)
(* takes events can be stopped, and no name leads to one that was stopped      *)
(* (Debouncer.start, stop, TriggerManager.start, stop, stop_all), whatever the *)
(* clients do and in whatever order they interleave.                           *)
THEOREM WatchesAreSound == ASSUME WatchOK PROVE WatchSpec => []WatchersSound
<1>1. WatchInit => WatchInv
  BY WatchStart
<1>2. WatchInv /\ [WatchNext]_watchVars => WatchInv'
  BY WatchSteps
<1>3. WatchInv => WatchersSound
  BY WatchHolds
<1> QED
  BY <1>1, <1>2, <1>3, PTL DEF WatchSpec
=============================================================================
