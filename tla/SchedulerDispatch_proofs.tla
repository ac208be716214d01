----------------------- MODULE SchedulerDispatch_proofs -----------------------
(* Proofs about SchedulerDispatch for any number of firings, any jobs and any *)
(* registrations, with threads that may fail to start and runs that are timed *)
(* out or cancelled at any moment.                                            *)
EXTENDS SchedulerDispatch, FiniteSetTheorems, TLAPS

\* The groups of variables that actions leave unchanged
USE DEF recordVars, jobVars, causeVars, history

-----------------------------------------------------------------------------
(* Types *)

\* The depth of an event is a number: an event has at most two publishers.
LEMMA DepthTypes ==
    ASSUME TypeOK, NEW p \in Runs, NEW l \in Runs \union {None}
    PROVE  DepthAfter(Publishers(p, l)) \in Nat
<1> DEFINE S == Publishers(p, l)
<1>1. S \subseteq {p, l} /\ S \subseteq Runs
  BY DEF Publishers, TypeOK
<1>2. \A q \in S : depth[q] + 1 \in Nat
  BY <1>1 DEF TypeOK
<1>3. CASE S = {}
  BY <1>3 DEF DepthAfter
<1>4. CASE S # {}
  <2>1. \E d \in {depth[q] + 1 : q \in S} : \A q \in S : depth[q] + 1 <= d
    <3>1. PICK a \in S : TRUE
      BY <1>4
    <3>2. CASE \A q \in S : depth[q] + 1 <= depth[a] + 1
      BY <3>2
    <3>3. CASE \E b \in S : ~(depth[b] + 1 <= depth[a] + 1)
      <4>1. PICK b \in S : ~(depth[b] + 1 <= depth[a] + 1)
        BY <3>3
      <4>2. S = {a, b} /\ depth[a] + 1 <= depth[b] + 1 /\ depth[b] + 1 <= depth[b] + 1
        BY <1>1, <1>2, <4>1
      <4> QED
        BY <4>2
    <3> QED
      BY <3>2, <3>3
  <2> QED
    BY <1>2, <1>4, <2>1 DEF DepthAfter
<1> QED
  BY <1>3, <1>4

\* The handler that starts a run returns: the causes keep their types.
LEMMA ReturnTypes ==
    ASSUME TypeOK, NEW r \in Runs, Return(r) \/ UNCHANGED causeVars
    PROVE  /\ publisher' \in [Runs -> Runs \union {None}]
           /\ via' \in [Runs -> Via]
           /\ local' \in [Runs -> Runs \union {None}]
  BY DEF Return, TypeOK, Via

\* A scheduler starts well typed.
LEMMA InitTypes == Init => TypeOK
  BY DispatchAssumption DEF Init, AtRest, TypeOK, RunState, RunPc, Via, OutcomeKind

\* Deciding to fire keeps the types.
LEMMA FiringTypes ==
    ASSUME TypeOK, NEW r \in Runs, NEW n \in Names, NEW p \in Runs,
           FireByHand(r, n) \/ EventOfTarget(r, n, p) \/ EventOfFailure(r, n, p)
    PROVE  TypeOK'
<1>1. CASE FireByHand(r, n)
  BY <1>1 DEF FireByHand, TypeOK, RunPc
<1>2. ASSUME NEW v \in Via, NEW l \in Runs \union {None}, NEW about, Hear(r, n, p, v, l, about)
      PROVE  TypeOK'
  <2>1. jobs[n] \in Objects
    BY <1>2, DispatchAssumption DEF Hear
  <2> QED
    BY <1>2, <2>1 DEF Hear, TypeOK, RunPc
<1>3. CASE EventOfTarget(r, n, p)
  BY <1>2, <1>3 DEF EventOfTarget, Via
<1>4. CASE EventOfFailure(r, n, p)
  <2>1. local[p] \in Runs \union {None}
    BY DEF TypeOK
  <2> QED
    BY <1>2, <1>4, <2>1 DEF EventOfFailure, Via
<1> QED
  BY <1>1, <1>3, <1>4

\* The scheduler's own steps of a run keep the types.
LEMMA StepTypes ==
    ASSUME TypeOK, DispatchInv, HeardInv, NEW r \in Runs, Steps(r) \/ Finish(r)
    PROVE  TypeOK'
<1>0. pc[r] # "new" => object[r] \in Objects
  BY DEF DispatchInv
<1>1. CASE Admit(r)
  <2>1. /\ publisher' \in [Runs -> Runs \union {None}]
        /\ via' \in [Runs -> Via]
        /\ local' \in [Runs -> Runs \union {None}]
    BY <1>1, ReturnTypes DEF Admit
  <2>2. active' \in [Objects -> Nat] /\ running' \in [Objects -> BOOLEAN] /\ flights' \subseteq Runs
    <3>1. object[r] \in Objects
      BY <1>0, <1>1 DEF Admit
    <3>2. \/ UNCHANGED <<flights, running, active>>
          \/ /\ flights' = flights \union {r}
             /\ running' = [running EXCEPT ![object[r]] = TRUE]
             /\ active' = [active EXCEPT ![object[r]] = @ + 1]
      BY <1>1 DEF Admit
    <3>3. active' \in [Objects -> Nat]
      BY <3>1, <3>2 DEF TypeOK
    <3>4. running' \in [Objects -> BOOLEAN]
      BY <3>1, <3>2, Zenon DEF TypeOK
    <3>5. flights' \subseteq Runs
      BY <3>2 DEF TypeOK
    <3> QED
      BY <3>3, <3>4, <3>5
  <2>3. pc' \in [Runs -> RunPc] /\ settled' \in [Runs -> BOOLEAN]
    BY <1>1 DEF Admit, TypeOK, RunPc
  <2>4. state' \in [Runs -> RunState]
    BY <1>1 DEF Admit, TypeOK, SkippedAs, RunState
  <2> QED
    BY <1>1, <2>1, <2>2, <2>3, <2>4 DEF Admit, TypeOK
<1>2. CASE StartThread(r)
  BY <1>2, ReturnTypes DEF StartThread, TypeOK, RunPc
<1>3. CASE TakeOff(r)
  BY <1>3 DEF TakeOff, TypeOK, RunPc, RunState
<1>4. CASE Conclude(r)
  BY <1>4 DEF Conclude, Closed, IsFinal, TypeOK, RunPc, RunState
<1>5. CASE Release(r)
  BY <1>0, <1>5 DEF Release, Left, TypeOK, RunPc
<1>6. CASE Tell(r)
  BY <1>6, ReturnTypes DEF Tell, Told, Reported, TypeOK, RunPc
<1>7. CASE ExpireTell(r)
  BY <1>7 DEF ExpireTell, Reported, TypeOK
<1>8. CASE Finish(r)
  BY <1>8 DEF Finish, TypeOK, RunPc, OutcomeKind
<1>9. CASE LookUp(r)
  <2>1. object[r] \in Objects
    BY <1>0, <1>9 DEF LookUp
  <2>2. jobs[NameOf[object[r]]] \in Objects \union {None}
    BY <2>1, DispatchAssumption DEF TypeOK
  <2> QED
    BY <1>9, <2>2, ReturnTypes DEF LookUp, TypeOK, RunPc
<1>10. CASE Measure(r)
  <2> DEFINE S == Publishers(publisher[r], local[r])
  <2>1. publisher[r] \in Runs /\ local[r] \in Runs \union {None}
    BY <1>10 DEF Measure, HeardInv, TypeOK
  <2>2. DepthAfter(S) \in Nat
    BY <2>1, DepthTypes
  <2>3. chain[publisher[r]] + 1 \in Nat
    BY <2>1 DEF TypeOK
  <2>4. pc' = [pc EXCEPT ![r] = "decided"] /\ depth' = [depth EXCEPT ![r] = DepthAfter(S)]
    BY <1>10 DEF Measure
  <2>5. chain' = [chain EXCEPT ![r] = chain[publisher[r]] + 1] /\ cut' \subseteq cut \union {r}
    BY <1>10 DEF Measure
  <2>6. /\ pc' \in [Runs -> RunPc] /\ depth' \in [Runs -> Nat]
        /\ chain' \in [Runs -> Nat] /\ cut' \subseteq Runs
    <3> HIDE DEF S
    <3> QED
      BY <2>2, <2>3, <2>4, <2>5 DEF TypeOK, RunPc
  <2> QED
    BY <1>10, <2>6 DEF Measure, TypeOK
<1> QED
  BY <1>1, <1>2, <1>3, <1>4, <1>5, <1>6, <1>7, <1>8, <1>9, <1>10 DEF Steps

\* Every step keeps the types; the job object of a flight comes from the dispatch invariant.
LEMMA NextTypes == TypeOK /\ DispatchInv /\ HeardInv /\ [Next]_vars => TypeOK'
<1> SUFFICES ASSUME TypeOK, DispatchInv, HeardInv, [Next]_vars PROVE TypeOK'
  OBVIOUS
<1>1. ASSUME NEW o \in Objects, Register(o) PROVE TypeOK'
  BY <1>1 DEF Register, TypeOK
<1>2. ASSUME NEW S \in Scopes, Remove(S) PROVE TypeOK'
  BY <1>2 DEF Remove, TypeOK
<1>3. ASSUME NEW S \in Scopes, Cancel(S) PROVE TypeOK'
  BY <1>3 DEF Cancel, TypeOK, RunState
<1>4. ASSUME NEW L \in SUBSET Runs, Expire(L) PROVE TypeOK'
  BY <1>4 DEF Expire, TypeOK, RunState
<1>5. CASE UNCHANGED vars
  BY <1>5 DEF vars, TypeOK
<1> QED
  BY <1>1, <1>2, <1>3, <1>4, <1>5, FiringTypes, StepTypes DEF Next

-----------------------------------------------------------------------------
(* Overlap accounting *)

\* A scheduler starts with no flight and zero counts.
LEMMA InitDispatch == Init => DispatchInv
<1> SUFFICES ASSUME Init PROVE DispatchInv
  OBVIOUS
<1>1. \A o \in Objects : Flying(o) = {}
  BY DEF Init, AtRest, Flying
<1> QED
  BY <1>1, FS_EmptySet DEF Init, AtRest, DispatchInv, AccountingExact, Aboard, AtWork

\* Flights on the books are finitely many.
LEMMA FlyingFinite ==
    ASSUME TypeOK, NEW o
    PROVE  IsFiniteSet(Flying(o)) /\ Cardinality(Flying(o)) \in Nat
<1>1. Flying(o) \subseteq Runs
  BY DEF Flying, TypeOK
<1> QED
  BY <1>1, DispatchAssumption, FS_Subset, FS_CardinalityType

\* A step that keeps the books, and who is on them, keeps the accounting.
LEMMA SameBooks ==
    ASSUME TypeOK, DispatchInv, UNCHANGED <<flights, active, running>>,
           \A r \in Runs : pc'[r] \in Aboard <=> pc[r] \in Aboard,
           \A r \in Runs : pc[r] # "new" => pc'[r] # "new" /\ object'[r] = object[r],
           \A r \in Runs : pc'[r] # "new" => object'[r] \in Objects
    PROVE  DispatchInv'
<1>1. \A r \in flights : r \in Runs /\ pc[r] # "new" /\ object'[r] = object[r]
  BY DEF DispatchInv, Aboard, AtWork
<1>2. \A o \in Objects : Flying(o)' = Flying(o)
  BY <1>1 DEF Flying
<1>3. AccountingExact'
  BY <1>2 DEF DispatchInv, AccountingExact
<1> QED
  BY <1>1, <1>3 DEF DispatchInv

\* _admit counts the flight it puts on the books, on the job object it was fired for.
LEMMA AdmitDispatch == ASSUME TypeOK, DispatchInv, NEW r \in Runs, Admit(r) PROVE DispatchInv'
<1> DEFINE o == object[r]
<1>0. o \in Objects /\ r \notin flights /\ object' = object
  BY DEF Admit, DispatchInv, Aboard, AtWork
<1>1. CASE Refusal(o, depth[r]) # "none"
  BY <1>0, <1>1, SameBooks DEF Admit, DispatchInv, TypeOK, Aboard, AtWork
<1>2. CASE Refusal(o, depth[r]) = "none"
  <2>1. /\ flights' = flights \union {r} /\ pc' = [pc EXCEPT ![r] = "admitted"]
        /\ running' = [running EXCEPT ![o] = TRUE] /\ active' = [active EXCEPT ![o] = @ + 1]
    BY <1>2 DEF Admit
  <2>2. running[o] => o \in AllowOverlap
    BY <1>2, DispatchAssumption DEF Refusal, TypeOK
  <2>3. flights' = {q \in Runs : pc'[q] \in Aboard}
    BY <2>1 DEF DispatchInv, TypeOK, Aboard
  <2>4. \A x \in Objects : Flying(x)' = IF x = o THEN Flying(x) \union {r} ELSE Flying(x)
    BY <1>0, <2>1 DEF Flying
  <2>5. Cardinality(Flying(o) \union {r}) = Cardinality(Flying(o)) + 1
    <3>1. r \notin Flying(o)
      BY <1>0 DEF Flying
    <3> QED
      BY <3>1, FlyingFinite, FS_AddElement
  <2>6. AccountingExact'
    <3> SUFFICES ASSUME NEW x \in Objects
                 PROVE  active'[x] = Cardinality(Flying(x)') /\ (running'[x] <=> Flying(x)' # {})
      BY DEF AccountingExact
    <3>1. CASE x = o
      BY <1>0, <2>1, <2>4, <2>5, <3>1 DEF DispatchInv, AccountingExact, TypeOK
    <3>2. CASE x # o
      BY <1>0, <2>1, <2>4, <3>2 DEF DispatchInv, AccountingExact, TypeOK
    <3> QED
      BY <3>1, <3>2
  <2>7. \A a, b \in flights' : a # b /\ object'[a] = object'[b] => object'[a] \in AllowOverlap
    <3>1. \A q \in flights : object[q] = o => o \in AllowOverlap
      BY <1>0, <2>2 DEF DispatchInv, AccountingExact, Flying
    <3> QED
      BY <1>0, <2>1, <3>1 DEF DispatchInv
  <2>8. \A q \in Runs : pc'[q] # "new" => object'[q] \in Objects
    BY <1>0, <2>1 DEF DispatchInv, TypeOK
  <2> QED
    BY <2>3, <2>6, <2>7, <2>8 DEF DispatchInv
<1> QED
  BY <1>1, <1>2

\* _release takes one flight off the books and off the count of its job object.
LEMMA ReleaseDispatch == ASSUME TypeOK, DispatchInv, NEW r \in Runs, Release(r) PROVE DispatchInv'
<1> DEFINE o == object[r]
<1>0. o \in Objects /\ r \in flights /\ object' = object
  BY DEF Release, DispatchInv, Aboard, AtWork
<1>1. /\ flights' = flights \ {r} /\ pc' = [pc EXCEPT ![r] = "telling"]
      /\ active' = [active EXCEPT ![o] = Left(o)] /\ running' = [running EXCEPT ![o] = Left(o) > 0]
  BY DEF Release
<1>2. flights' = {q \in Runs : pc'[q] \in Aboard}
  BY <1>1 DEF DispatchInv, TypeOK, Aboard, AtWork
<1>3. \A x \in Objects : Flying(x)' = IF x = o THEN Flying(x) \ {r} ELSE Flying(x)
  BY <1>0, <1>1 DEF Flying
<1>4. /\ IsFiniteSet(Flying(o) \ {r})
      /\ Cardinality(Flying(o) \ {r}) = Cardinality(Flying(o)) - 1
      /\ Cardinality(Flying(o) \ {r}) \in Nat
  <2>1. r \in Flying(o)
    BY <1>0 DEF Flying
  <2> QED
    BY <2>1, FlyingFinite, FS_RemoveElement, FS_CardinalityType
<1>5. Left(o) = Cardinality(Flying(o) \ {r})
  BY <1>0, <1>4, FlyingFinite DEF Left, DispatchInv, AccountingExact
<1>6. Left(o) > 0 <=> Flying(o) \ {r} # {}
  BY <1>4, <1>5, FS_EmptySet
<1>7. AccountingExact'
  <2> SUFFICES ASSUME NEW x \in Objects
               PROVE  active'[x] = Cardinality(Flying(x)') /\ (running'[x] <=> Flying(x)' # {})
    BY DEF AccountingExact
  <2>1. CASE x = o
    <3>1. active'[x] = Left(o) /\ (running'[x] <=> Left(o) > 0)
      BY <1>0, <1>1, <2>1 DEF TypeOK
    <3> QED
      BY <1>3, <1>5, <1>6, <2>1, <3>1
  <2>2. CASE x # o
    <3>1. active'[x] = active[x] /\ running'[x] = running[x]
      BY <1>0, <1>1, <2>2 DEF TypeOK
    <3> QED
      BY <1>3, <2>2, <3>1 DEF DispatchInv, AccountingExact
  <2> QED
    BY <2>1, <2>2
<1> QED
  BY <1>0, <1>1, <1>2, <1>7 DEF DispatchInv, TypeOK

\* The dispatch invariant is inductive on top of the types.
LEMMA NextDispatch == TypeOK /\ DispatchInv /\ [Next]_vars => DispatchInv'
<1> SUFFICES ASSUME TypeOK, DispatchInv, [Next]_vars PROVE DispatchInv'
  OBVIOUS
<1>1. CASE UNCHANGED <<flights, active, running, pc, object>>
  BY <1>1, SameBooks DEF DispatchInv
<1>2. ASSUME NEW r \in Runs, pc[r] \in {"new", "heard"}, pc' = [pc EXCEPT ![r] = pc'[r]],
             pc'[r] \in {"heard", "found", "decided"},
             object' = [object EXCEPT ![r] = object'[r]], object'[r] \in Objects,
             UNCHANGED <<flights, active, running>>
      PROVE  DispatchInv'
  <2>1. AccountingExact' /\ (\A q \in Runs : pc'[q] # "new" => object'[q] \in Objects)
    <3>1. r \notin flights /\ \A q \in flights : object'[q] = object[q]
      BY <1>2 DEF DispatchInv, TypeOK, Aboard, AtWork
    <3>2. \A o \in Objects : Flying(o)' = Flying(o)
      BY <1>2, <3>1 DEF Flying
    <3>3. AccountingExact'
      BY <1>2, <3>2 DEF DispatchInv, AccountingExact
    <3>4. \A q \in Runs : pc'[q] # "new" => object'[q] \in Objects
      BY <1>2 DEF DispatchInv, TypeOK
    <3> QED
      BY <3>3, <3>4
  <2>2. flights' = {q \in Runs : pc'[q] \in Aboard}
    BY <1>2 DEF DispatchInv, TypeOK, Aboard, AtWork
  <2>3. \A a, b \in flights' : a # b /\ object'[a] = object'[b] => object'[a] \in AllowOverlap
    BY <1>2 DEF DispatchInv, TypeOK, Aboard, AtWork
  <2> QED
    BY <2>1, <2>2, <2>3 DEF DispatchInv
<1>3. ASSUME NEW r \in Runs, NEW n \in Names, FireByHand(r, n) PROVE DispatchInv'
  <2>1. jobs[n] \in Objects
    BY <1>3 DEF FireByHand, TypeOK
  <2> QED
    BY <1>2, <1>3, <2>1 DEF FireByHand, TypeOK
<1>4. ASSUME NEW r \in Runs, NEW n \in Names, NEW p \in Runs,
             EventOfTarget(r, n, p) \/ EventOfFailure(r, n, p)
      PROVE  DispatchInv'
  <2>1. PICK v, l, about : Hear(r, n, p, v, l, about)
    BY <1>4 DEF EventOfTarget, EventOfFailure
  <2>2. jobs[n] \in Objects
    BY <2>1, DispatchAssumption DEF Hear
  <2> QED
    BY <1>2, <2>1, <2>2 DEF Hear, TypeOK
<1>6. ASSUME NEW r \in Runs, LookUp(r) PROVE DispatchInv'
  <2>1. object[r] \in Objects
    BY <1>6 DEF LookUp, DispatchInv
  <2>2. jobs[NameOf[object[r]]] \in Objects \union {None}
    BY <2>1, DispatchAssumption DEF TypeOK
  <2>3. CASE jobs[NameOf[object[r]]] # None
    BY <1>2, <1>6, <2>2, <2>3 DEF LookUp, TypeOK
  <2>4. CASE jobs[NameOf[object[r]]] = None
    BY <1>6, <2>4, SameBooks DEF LookUp, DispatchInv, TypeOK, Aboard, AtWork
  <2> QED
    BY <2>3, <2>4
<1>7. ASSUME NEW r \in Runs, Measure(r) PROVE DispatchInv'
  BY <1>7, SameBooks DEF Measure, DispatchInv, TypeOK, Aboard, AtWork
<1>5. ASSUME NEW r \in Runs, StartThread(r) \/ TakeOff(r) \/ Conclude(r) \/ Tell(r) \/ Finish(r)
      PROVE  DispatchInv'
  <2>1. UNCHANGED <<flights, active, running, object>> /\ pc[r] # "new"
    BY <1>5 DEF StartThread, TakeOff, Conclude, Tell, Finish
  <2>2. /\ \A q \in Runs : q # r => pc'[q] = pc[q]
        /\ pc'[r] # "new" /\ (pc'[r] \in Aboard <=> pc[r] \in Aboard)
    BY <1>5 DEF StartThread, TakeOff, Conclude, Tell, Finish, TypeOK, Aboard, AtWork
  <2> QED
    BY <2>1, <2>2, SameBooks DEF DispatchInv
<1> QED
  BY <1>1, <1>3, <1>4, <1>5, <1>6, <1>7, AdmitDispatch, ReleaseDispatch
  DEF Next, Steps, Register, Remove, Cancel, Expire, ExpireTell, vars

\* A firing that an event has caused knows the run that published it.
LEMMA NextHeard == TypeOK /\ HeardInv /\ [Next]_vars => HeardInv'
<1> SUFFICES ASSUME TypeOK, HeardInv, [Next]_vars PROVE HeardInv'
  OBVIOUS
<1> USE DEF HeardInv
<1>1. CASE UNCHANGED <<pc, publisher>>
  BY <1>1
<1>2. ASSUME NEW r \in Runs, NEW n \in Names, FireByHand(r, n) PROVE HeardInv'
  BY <1>2 DEF FireByHand, TypeOK
<1>3. ASSUME NEW r \in Runs, NEW n \in Names, NEW p \in Runs,
             EventOfTarget(r, n, p) \/ EventOfFailure(r, n, p)
      PROVE  HeardInv'
  <2>1. PICK v, l, about : Hear(r, n, p, v, l, about)
    BY <1>3 DEF EventOfTarget, EventOfFailure
  <2> QED
    BY <2>1 DEF Hear, TypeOK
<1>4. ASSUME NEW r \in Runs, LookUp(r) \/ Measure(r) \/ Admit(r) \/ StartThread(r) PROVE HeardInv'
  BY <1>4 DEF LookUp, Measure, Admit, StartThread, Return, TypeOK
<1>5. ASSUME NEW r \in Runs, TakeOff(r) \/ Conclude(r) \/ Release(r) \/ Tell(r) \/ Finish(r)
      PROVE  HeardInv'
  BY <1>5 DEF TakeOff, Conclude, Release, Tell, Finish, Return, TypeOK
<1> QED
  BY <1>1, <1>2, <1>3, <1>4, <1>5 DEF Next, Steps, Register, Remove, Cancel, Expire, ExpireTell, vars

\* The bookkeeping of the dispatcher: types and the accounting invariant together, since
\* the type of the job object a run counts on rests on it.
THEOREM DispatchInvariant == Spec => [](TypeOK /\ DispatchInv /\ HeardInv)
<1>1. Init => HeardInv
  BY DEF Init, AtRest, HeardInv
<1> QED
  BY <1>1, InitTypes, InitDispatch, NextTypes, NextDispatch, NextHeard, PTL DEF Spec

\* Every variable keeps its type.
THEOREM TypeCorrect == Spec => []TypeOK
  BY DispatchInvariant, PTL

\* ScheduledJob.active and running agree with the runs in progress at every moment, however
\* threads, timeouts and cancellations interleave, for any number of runs and jobs.
THEOREM AccountsAreExact == Spec => []AccountingExact
<1>1. DispatchInv => AccountingExact
  BY DEF DispatchInv
<1> QED
  BY <1>1, DispatchInvariant, PTL

\* Overlap protection for any number of firings: a job object registered without
\* allow_overlap never has two targets at work.
THEOREM NoOverlap == Spec => []OverlapProtected
<1>1. DispatchInv => OverlapProtected
  BY DEF DispatchInv, OverlapProtected, Aboard
<1> QED
  BY <1>1, DispatchInvariant, PTL

-----------------------------------------------------------------------------
(* Records *)

\* A scheduler starts without records.
LEMMA InitRecords == Init => RecordInv
  BY DEF Init, AtRest, RecordInv, Aboard, AtWork, Stopped

\* The record invariant is inductive on top of the dispatch invariant.
LEMMA NextRecords == TypeOK /\ DispatchInv /\ RecordInv /\ [Next]_vars => RecordInv'
<1> SUFFICES ASSUME TypeOK, DispatchInv, RecordInv, [Next]_vars PROVE RecordInv'
  OBVIOUS
<1> USE DEF RecordInv, Aboard, AtWork, Stopped
<1>1. CASE UNCHANGED <<pc, state, outcome, decided, settled, expiring, errors>>
  BY <1>1
<1>3. ASSUME NEW r \in Runs, NEW n \in Names, FireByHand(r, n) PROVE RecordInv'
  BY <1>3 DEF FireByHand, TypeOK
<1>4. ASSUME NEW r \in Runs, NEW n \in Names, NEW p \in Runs,
             EventOfTarget(r, n, p) \/ EventOfFailure(r, n, p)
      PROVE  RecordInv'
  <2>1. PICK v, l, about : Hear(r, n, p, v, l, about)
    BY <1>4 DEF EventOfTarget, EventOfFailure
  <2> QED
    BY <2>1 DEF Hear, TypeOK
<1>2. ASSUME NEW r \in Runs, LookUp(r) \/ Measure(r) PROVE RecordInv'
  BY <1>2 DEF LookUp, Measure, TypeOK
<1>5. ASSUME NEW r \in Runs, Admit(r) PROVE RecordInv'
  BY <1>5 DEF Admit, SkippedAs, TypeOK
<1>6. ASSUME NEW r \in Runs, StartThread(r) PROVE RecordInv'
  BY <1>6 DEF StartThread, TypeOK
<1>7. ASSUME NEW r \in Runs, TakeOff(r) PROVE RecordInv'
  BY <1>7 DEF TakeOff, TypeOK, IsFinal
<1>8. ASSUME NEW r \in Runs, Finish(r) PROVE RecordInv'
  BY <1>8 DEF Finish, TypeOK
<1>9. ASSUME NEW r \in Runs, Conclude(r) PROVE RecordInv'
  BY <1>9 DEF Conclude, Closed, TypeOK, IsFinal
<1>10. ASSUME NEW r \in Runs, Release(r) PROVE RecordInv'
  BY <1>10 DEF Release, TypeOK
<1>11. ASSUME NEW r \in Runs, Tell(r) PROVE RecordInv'
  BY <1>11 DEF Tell, Told, Reported, TypeOK
<1>12. ASSUME NEW r \in Runs, ExpireTell(r) PROVE RecordInv'
  BY <1>12 DEF ExpireTell, Reported, TypeOK
<1>13. ASSUME NEW S \in Scopes, Cancel(S) PROVE RecordInv'
  BY <1>13 DEF Cancel, Open, IsFinal, DispatchInv, TypeOK
<1>14. ASSUME NEW L \in SUBSET Runs, Expire(L) PROVE RecordInv'
  BY <1>14 DEF Expire, Open, IsFinal, DispatchInv, TypeOK
<1> QED
  BY <1>1, <1>2, <1>3, <1>4, <1>5, <1>6, <1>7, <1>8, <1>9, <1>10, <1>11, <1>12, <1>13, <1>14
  DEF Next, Steps, Register, Remove, vars

\* The record invariant holds in every reachable state.
THEOREM RecordInvariant == Spec => []RecordInv
  BY DispatchInvariant, InitRecords, NextRecords, PTL DEF Spec

\* Every failure and every timeout is reported exactly once, by whoever decided it.
THEOREM ReportsAreUnique == Spec => []ReportedOnce
<1>1. TypeOK /\ RecordInv => ReportedOnce
  BY DEF RecordInv, ReportedOnce, TypeOK, RunPc, RunState, Aboard, AtWork, Stopped
<1> QED
  BY <1>1, DispatchInvariant, RecordInvariant, PTL

\* When JobRun.wait returns for a run that ended by itself, its job is free again.
THEOREM WaitersSeeTheJobFree == Spec => []WaitMeansReleased
<1>1. DispatchInv /\ RecordInv => WaitMeansReleased
  BY DEF RecordInv, DispatchInv, WaitMeansReleased, Aboard, AtWork, Stopped
<1> QED
  BY <1>1, DispatchInvariant, RecordInvariant, PTL

\* RunState.is_final for every interleaving: the first of the thread, the timeout and the
\* cancellation to close a record decides it.
THEOREM RecordsStayClosed == Spec => RecordsAreFinal
<1>1. ASSUME TypeOK, DispatchInv, RecordInv, [Next]_vars
      PROVE  \A q \in Runs : IsFinal(state[q]) => state'[q] = state[q]
  <2> USE <1>1 DEF IsFinal
  <2>1. CASE UNCHANGED state
    BY <2>1
  <2>2. ASSUME NEW r \in Runs, Admit(r) PROVE \A q \in Runs : IsFinal(state[q]) => state'[q] = state[q]
    BY <2>2 DEF Admit, RecordInv, TypeOK
  <2>3. ASSUME NEW r \in Runs, TakeOff(r) \/ Conclude(r)
        PROVE  \A q \in Runs : IsFinal(state[q]) => state'[q] = state[q]
    BY <2>3 DEF TakeOff, Conclude, Closed, TypeOK
  <2>4. ASSUME NEW S \in Scopes, Cancel(S)
        PROVE  \A q \in Runs : IsFinal(state[q]) => state'[q] = state[q]
    BY <2>4 DEF Cancel, Open
  <2>5. ASSUME NEW L \in SUBSET Runs, Expire(L)
        PROVE  \A q \in Runs : IsFinal(state[q]) => state'[q] = state[q]
    BY <2>5 DEF Expire, Open
  <2> QED
    BY <2>1, <2>2, <2>3, <2>4, <2>5 DEF Next, Steps, Register, Remove, FireByHand, EventOfTarget,
       EventOfFailure, Hear, LookUp, Measure, StartThread, Finish, Release, Tell, ExpireTell, vars
<1>2. TypeOK /\ DispatchInv /\ RecordInv /\ [Next]_vars
         => [\A r \in Runs : IsFinal(state[r]) => state'[r] = state[r]]_vars
  BY <1>1
<1> QED
  BY <1>2, DispatchInvariant, RecordInvariant, PTL DEF Spec, RecordsAreFinal

-----------------------------------------------------------------------------
(* Chains *)

\* An event is at least one deeper than each of its publishers.
LEMMA DepthGrows ==
    ASSUME TypeOK, NEW p \in Runs, NEW l \in Runs \union {None}, NEW q \in Publishers(p, l)
    PROVE  depth[q] + 1 <= DepthAfter(Publishers(p, l))
<1> DEFINE S == Publishers(p, l)
<1>1. S \subseteq {p, l} /\ S \subseteq Runs
  BY DEF Publishers, TypeOK
<1>2. \A b \in S : depth[b] + 1 \in Nat
  BY <1>1 DEF TypeOK
<1>3. \E d \in {depth[b] + 1 : b \in S} : \A b \in S : depth[b] + 1 <= d
  <2>1. CASE \A b \in S : depth[b] + 1 <= depth[q] + 1
    BY <2>1
  <2>2. ASSUME NEW b \in S, ~(depth[b] + 1 <= depth[q] + 1)
        PROVE  \E d \in {depth[a] + 1 : a \in S} : \A a \in S : depth[a] + 1 <= d
    <3>1. S = {q, b} /\ depth[q] + 1 <= depth[b] + 1 /\ depth[b] + 1 <= depth[b] + 1
      BY <1>1, <1>2, <2>2
    <3> QED
      BY <3>1
  <2> QED
    BY <2>1, <2>2
<1> QED
  BY <1>3 DEF DepthAfter

\* A firing whose publisher is on the books or on its own thread counts that run.
LEMMA EventCounts ==
    ASSUME TypeOK, ChainInv, HeardInv, NEW r \in Runs, Measure(r), r \notin cut'
    PROVE  chain'[r] <= depth'[r]
<1> DEFINE p == publisher[r]
           S == Publishers(p, local[r])
<1>1. p \in Runs /\ local[r] \in Runs \union {None} /\ p \in S \ cut
  BY DEF Measure, HeardInv, TypeOK
<1>2. chain[p] <= depth[p] /\ chain[p] \in Nat /\ depth[p] \in Nat
  BY <1>1 DEF ChainInv, TypeOK
<1>3. depth[p] + 1 <= DepthAfter(S) /\ DepthAfter(S) \in Nat
  BY <1>1, DepthGrows, DepthTypes
<1>4. chain'[r] = chain[p] + 1 /\ depth'[r] = DepthAfter(S)
  BY DEF Measure, TypeOK
<1> HIDE DEF S, p
<1> QED
  BY <1>2, <1>3, <1>4

\* A scheduler starts without chains.
LEMMA InitChains == Init => ChainInv
  BY DispatchAssumption DEF Init, AtRest, ChainInv

\* The chain invariant is inductive on top of the others.
LEMMA NextChains ==
    TypeOK /\ DispatchInv /\ HeardInv /\ RecordInv /\ ChainInv /\ [Next]_vars => ChainInv'
<1> SUFFICES ASSUME TypeOK, DispatchInv, HeardInv, RecordInv, ChainInv, [Next]_vars PROVE ChainInv'
  OBVIOUS
<1>0. 0 < MaxChain /\ MaxChain \in Nat
  BY DispatchAssumption
<1>1. ASSUME UNCHANGED <<depth, chain, cut>>,
             \A r \in Runs : pc'[r] \in Unmeasured => pc[r] \in Unmeasured,
             \A r \in Runs : depth[r] >= MaxChain /\ (pc[r] = "decided" \/ state[r] = "skipped")
                                => pc'[r] = "decided" \/ state'[r] = "skipped"
      PROVE  ChainInv'
  BY <1>1 DEF ChainInv
<1>2. CASE UNCHANGED <<pc, state, depth, chain, cut>>
  BY <1>1, <1>2
<1>3. ASSUME NEW r \in Runs, NEW n \in Names, FireByHand(r, n) PROVE ChainInv'
  <2>1. depth[r] = 0 /\ pc[r] = "new"
    BY <1>3 DEF FireByHand, ChainInv, Unmeasured
  <2> QED
    BY <1>0, <1>1, <1>3, <2>1 DEF FireByHand, Unmeasured, TypeOK
<1>4. ASSUME NEW r \in Runs, NEW n \in Names, NEW p \in Runs,
             EventOfTarget(r, n, p) \/ EventOfFailure(r, n, p)
      PROVE  ChainInv'
  <2>1. PICK v, l, about : Hear(r, n, p, v, l, about)
    BY <1>4 DEF EventOfTarget, EventOfFailure
  <2>2. depth[r] = 0 /\ pc[r] = "new"
    BY <2>1 DEF Hear, ChainInv, Unmeasured
  <2> QED
    BY <1>0, <1>1, <2>1, <2>2 DEF Hear, Unmeasured, TypeOK
<1>5. ASSUME NEW r \in Runs, LookUp(r) PROVE ChainInv'
  <2>1. depth[r] = 0
    BY <1>5 DEF LookUp, ChainInv, Unmeasured
  <2> QED
    BY <1>0, <1>1, <1>5, <2>1 DEF LookUp, Unmeasured, TypeOK
<1>6. ASSUME NEW r \in Runs, Measure(r) PROVE ChainInv'
  <2>1. /\ \A q \in Runs : q # r => pc'[q] = pc[q] /\ depth'[q] = depth[q] /\ chain'[q] = chain[q]
        /\ pc'[r] = "decided" /\ state' = state /\ cut' \ {r} = cut \ {r}
    BY <1>6 DEF Measure, TypeOK
  <2>2. r \notin cut' => chain'[r] <= depth'[r]
    BY <1>6, EventCounts
  <2> QED
    BY <2>1, <2>2 DEF ChainInv, Unmeasured
<1>7. ASSUME NEW r \in Runs, Admit(r) PROVE ChainInv'
  <2>1. Refusal(object[r], depth[r]) = "none" => ~(depth[r] >= MaxChain)
    BY <1>0 DEF Refusal, TypeOK
  <2> QED
    BY <1>1, <1>7, <2>1 DEF Admit, SkippedAs, Unmeasured, TypeOK
<1>8. ASSUME NEW r \in Runs, StartThread(r) \/ TakeOff(r) \/ Conclude(r) \/ Release(r) \/ Tell(r) \/ Finish(r)
      PROVE  ChainInv'
  <2>1. UNCHANGED <<depth, chain, cut>> /\ pc[r] # "decided"
    BY <1>8 DEF StartThread, TakeOff, Conclude, Release, Tell, Finish
  <2>2. \A q \in Runs : q # r => pc'[q] = pc[q] /\ state'[q] = state[q]
    BY <1>8 DEF StartThread, TakeOff, Conclude, Release, Tell, Finish, TypeOK
  <2>3. pc'[r] \notin Unmeasured /\ (state[r] = "skipped" => state'[r] = "skipped")
    BY <1>8 DEF StartThread, TakeOff, Conclude, Closed, IsFinal, Release, Tell, Finish, Unmeasured, TypeOK
  <2> QED
    BY <1>1, <2>1, <2>2, <2>3
<1>9. ASSUME NEW S \in Scopes, Cancel(S) PROVE ChainInv'
  BY <1>1, <1>9 DEF Cancel, Open, IsFinal, TypeOK
<1>10. ASSUME NEW L \in SUBSET Runs, Expire(L) PROVE ChainInv'
  BY <1>1, <1>10 DEF Expire, Open, IsFinal, TypeOK
<1> QED
  BY <1>2, <1>3, <1>4, <1>5, <1>6, <1>7, <1>8, <1>9, <1>10 DEF Next, Steps, Register, Remove, ExpireTell, vars

\* The chain invariant holds in every reachable state.
THEOREM ChainInvariant == Spec => []ChainInv
  BY DispatchInvariant, RecordInvariant, InitChains, NextChains, PTL DEF Spec

\* MAX_CHAIN for any number of runs, jobs and listeners: as long as no run of a chain was off the
\* books when its event was counted, a firing to which MAX_CHAIN runs have led is skipped.
THEOREM ChainsAreBounded == Spec => []ChainsCounted
<1>1. TypeOK /\ ChainInv => ChainsCounted
  BY DispatchAssumption DEF ChainInv, ChainsCounted, TypeOK
<1> QED
  BY <1>1, DispatchInvariant, ChainInvariant, PTL

=============================================================================
