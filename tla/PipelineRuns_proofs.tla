-------------------------- MODULE PipelineRuns_proofs --------------------------
(* The runs of a pipeline over a store, for any runs, tasks, dependencies and *)
(* keys, and any number of crashes, failures and lost writes: RunsInv is      *)
(* inductive, and what the runs promise (RunsSound) follows from it.          *)
EXTENDS PipelineRuns, TLAPS

-----------------------------------------------------------------------------
(* The store                                                                  *)

\* A run that is saved replaces its row or is lost, and may push other runs out of a memory store.
LEMMA RunIsSaved ==
    ASSUME RecordsTyped, NEW r \in Runs, NEW s \in RunStatus, NEW tasks \in [Tasks -> TaskState],
           Checkpoint(SaveRun(r, s, tasks))
    PROVE  /\ storedRun' \in [Runs -> RunStatus \union {"absent"}]
           /\ stored' \in [Runs -> [Tasks -> TaskState]]
           /\ \A x \in Runs :
                 \/ storedRun'[x] = storedRun[x] /\ stored'[x] = stored[x]
                 \/ /\ x \in Dropped(Appended(r)) /\ storedRun'[x] = "absent"
                    /\ \A t \in Tasks : stored'[x][t] = Blank
                 \/ x = r /\ storedRun'[x] = s /\ stored'[x] = tasks
<1>1. Blank \in TaskState
  BY DEF Blank, TaskState, TaskStatus, OpenStatus, Reason
<1>2. CASE SaveRun(r, s, tasks)
  <2> DEFINE gone == Dropped(Appended(r))
  <2>1. /\ storedRun' = [x \in Runs |-> IF x \in gone THEN "absent" ELSE IF x = r THEN s ELSE storedRun[x]]
        /\ stored' = [x \in Runs |->
                         IF x \in gone THEN [t \in Tasks |-> Blank] ELSE IF x = r THEN tasks ELSE stored[x]]
    BY <1>2 DEF SaveRun
  <2> HIDE DEF gone
  <2>2. [t \in Tasks |-> Blank] \in [Tasks -> TaskState]
    BY <1>1
  <2>3. storedRun' \in [Runs -> RunStatus \union {"absent"}] /\ stored' \in [Runs -> [Tasks -> TaskState]]
    BY <2>1, <2>2 DEF RecordsTyped
  <2>4. ASSUME NEW x \in Runs
        PROVE  \/ storedRun'[x] = storedRun[x] /\ stored'[x] = stored[x]
               \/ x \in gone /\ storedRun'[x] = "absent" /\ \A t \in Tasks : stored'[x][t] = Blank
               \/ x = r /\ storedRun'[x] = s /\ stored'[x] = tasks
    BY <2>1
  <2> QED BY <2>3, <2>4 DEF gone
<1>3. CASE UNCHANGED store
  BY <1>3 DEF store, RecordsTyped
<1> QED BY <1>2, <1>3 DEF Checkpoint

\* A task that is saved changes its own record, of a run that is there, or nothing.
LEMMA TaskIsSaved ==
    ASSUME RecordsTyped, NEW r \in Runs, NEW t \in Tasks, NEW state \in TaskState,
           Checkpoint(SaveTask(r, t, state))
    PROVE  /\ storedRun' = storedRun
           /\ stored' \in [Runs -> [Tasks -> TaskState]]
           /\ \A x \in Runs, u \in Tasks :
                 \/ stored'[x][u] = stored[x][u]
                 \/ x = r /\ u = t /\ stored'[x][u] = state /\ storedRun[r] # "absent"
<1>1. CASE storedRun[r] # "absent" /\ SaveTask(r, t, state)
  <2>1. storedRun' = storedRun /\ stored' = [stored EXCEPT ![r] = [stored[r] EXCEPT ![t] = state]]
    BY <1>1 DEF SaveTask
  <2>2. stored \in [Runs -> [Tasks -> TaskState]]
    BY DEF RecordsTyped
  <2> QED BY <1>1, <2>1, <2>2
<1>2. CASE UNCHANGED store
  BY <1>2 DEF store, RecordsTyped
<1> QED BY <1>1, <1>2 DEF Checkpoint, SaveTask

-----------------------------------------------------------------------------
(* Starting and resuming                                                      *)

LEMMA RunsStart ==
    ASSUME Init
    PROVE  RunsInv
<1> USE DEF Init
<1>1. Blank \in TaskState /\ Blank.status = "pending" /\ Blank.reason = "none"
  BY DEF Blank, TaskState, TaskStatus, OpenStatus, Reason
<1>2. RecordsTyped
  BY <1>1 DEF RecordsTyped
<1>3. AbsentIsBlank /\ StagesInStep /\ EngineKnows /\ SkipsHaveACause /\ KnownSkipsAreBacked /\ SucceededIsClosed
  BY <1>1 DEF AbsentIsBlank, StagesInStep, EngineKnows, SkipsHaveACause, KnownSkipsAreBacked, SucceededIsClosed
<1>4. ExecutionsAreKept /\ KeyExecutedOnce /\ SkipsAreBacked /\ SucceededIsComplete
  BY <1>1 DEF ExecutionsAreKept, KeyExecutedOnce, SkipsAreBacked, SucceededIsComplete
<1> QED BY <1>2, <1>3, <1>4 DEF RunsInv

\* An engine takes over a run nobody has, with what succeeded.
LEMMA LaunchKeeps ==
    ASSUME RunsInv, NEW r \in Runs, phase[r] # "running", storedRun[r] # "succeeded",
           Launch(r, [t \in Tasks |-> CarriedOver(r, t)])
    PROVE  RunsInv'
<1> USE DEF RunsInv
<1> DEFINE tasks == [t \in Tasks |-> CarriedOver(r, t)]
<1>1. /\ phase' = [phase EXCEPT ![r] = "running"] /\ task' = [task EXCEPT ![r] = tasks]
      /\ stage' = [stage EXCEPT ![r] = [t \in Tasks |-> "none"]]
      /\ excused' = (excused \/ Active # {} \/ storedRun'[r] # "running" \/ Dropped(Appended(r)) # {})
      /\ UNCHANGED <<durable, executed>>
  BY DEF Launch
<1>2. Blank \in TaskState /\ Blank.status = "pending" /\ Blank.reason = "none"
  BY DEF Blank, TaskState, TaskStatus, OpenStatus, Reason
<1>3. /\ tasks \in [Tasks -> TaskState]
      /\ \A t \in Tasks : IF stored[r][t].status = "succeeded" THEN tasks[t] = stored[r][t] ELSE tasks[t] = Blank
  BY <1>2 DEF CarriedOver, RecordsTyped
<1>4. "running" \in RunStatus /\ Checkpoint(SaveRun(r, "running", tasks))
  BY DEF Launch, RunStatus
<1> HIDE DEF tasks
<1>5. /\ storedRun' \in [Runs -> RunStatus \union {"absent"}]
      /\ stored' \in [Runs -> [Tasks -> TaskState]]
      /\ \A x \in Runs :
            \/ storedRun'[x] = storedRun[x] /\ stored'[x] = stored[x]
            \/ /\ x \in Dropped(Appended(r)) /\ storedRun'[x] = "absent"
               /\ \A t \in Tasks : stored'[x][t] = Blank
            \/ x = r /\ storedRun'[x] = "running" /\ stored'[x] = tasks
  BY <1>3, <1>4, RunIsSaved
<1>6. \A x \in Runs \ {r} : phase'[x] = phase[x] /\ task'[x] = task[x] /\ stage'[x] = stage[x]
  BY <1>1 DEF RecordsTyped
<1>7. phase'[r] = "running" /\ task'[r] = tasks /\ \A t \in Tasks : stage'[r][t] = "none"
  BY <1>1 DEF RecordsTyped
<1>8. durable => Dropped(Appended(r)) = {}
  BY DEF Dropped
<1>9. \* A success that is not dropped stays in the store.
      \A x \in Runs, t \in Tasks :
          x \notin Dropped(Appended(r)) /\ stored[x][t].status = "succeeded" => stored'[x][t] = stored[x][t]
  BY <1>2, <1>3, <1>5
<1>10. RecordsTyped'
  <2>1. phase' \in [Runs -> {"new", "running", "ended", "lost"}]
    BY <1>1 DEF RecordsTyped
  <2>2. task' \in [Runs -> [Tasks -> TaskState]]
    BY <1>1, <1>3 DEF RecordsTyped
  <2>3. stage' \in [Runs -> [Tasks -> {"none", "admitted", "called", "returned"}]]
    BY <1>1 DEF RecordsTyped
  <2>4. excused' \in BOOLEAN
    BY <1>1 DEF RecordsTyped
  <2> QED BY <1>1, <1>5, <2>1, <2>2, <2>3, <2>4 DEF RecordsTyped
<1>11. AbsentIsBlank'
  <2>1. ASSUME NEW x \in Runs, storedRun'[x] = "absent", NEW t \in Tasks PROVE stored'[x][t] = Blank
    BY <1>5, <2>1 DEF AbsentIsBlank
  <2>2. ASSUME NEW x \in Runs, phase'[x] = "new" PROVE storedRun'[x] = "absent"
    BY <1>5, <1>6, <1>7, <2>2 DEF AbsentIsBlank
  <2> QED BY <2>1, <2>2 DEF AbsentIsBlank, Blank
<1>12. StagesInStep'
  BY <1>6, <1>7 DEF StagesInStep
<1>13. EngineKnows'
  <2>1. ASSUME NEW x \in Runs, NEW t \in Tasks, phase'[x] = "running", stored'[x][t].status = "succeeded"
        PROVE  task'[x][t].status = "succeeded"
    <3>1. CASE x = r
      BY <1>2, <1>3, <1>5, <1>7, <2>1, <3>1
    <3>2. CASE x # r
      BY <1>2, <1>5, <1>6, <2>1, <3>2 DEF EngineKnows
    <3> QED BY <3>1, <3>2
  <2> QED BY <2>1 DEF EngineKnows
<1>14. SkipsHaveACause'
  <2>1. ASSUME NEW x \in Runs, phase'[x] = "running", NEW t \in Tasks,
               task'[x][t].status = "skipped", task'[x][t].reason # "idempotent"
        PROVE  \E d \in Tasks : IsFailure(task'[x][d].status)
    <3>1. CASE x = r
      BY <1>2, <1>3, <1>7, <2>1, <3>1
    <3>2. CASE x # r
      BY <1>6, <2>1, <3>2 DEF SkipsHaveACause
    <3> QED BY <3>1, <3>2
  <2> QED BY <2>1 DEF SkipsHaveACause, IsFailure
<1>15. KnownSkipsAreBacked' /\ SkipsAreBacked'
  <2>1. ASSUME durable, NEW x \in Runs, NEW t \in Tasks,
               \E q \in Runs : KeyOf[q] = KeyOf[x] /\ stored[q][t].status = "succeeded"
        PROVE  \E q \in Runs : KeyOf[q] = KeyOf[x] /\ stored'[q][t].status = "succeeded"
    BY <1>8, <1>9, <2>1
  <2>2. ASSUME durable, NEW x \in Runs, NEW t \in Tasks, phase'[x] = "running", task'[x][t].reason = "idempotent"
        PROVE  \E q \in Runs : KeyOf[q] = KeyOf[x] /\ stored[q][t].status = "succeeded"
    <3>1. CASE x = r
      BY <1>2, <1>3, <1>7, <2>2, <3>1 DEF SkipsAreBacked
    <3>2. CASE x # r
      BY <1>6, <2>2, <3>2 DEF KnownSkipsAreBacked
    <3> QED BY <3>1, <3>2
  <2>3. ASSUME durable, NEW x \in Runs, NEW t \in Tasks, stored'[x][t].reason = "idempotent"
        PROVE  \E q \in Runs : KeyOf[q] = KeyOf[x] /\ stored[q][t].status = "succeeded"
    BY <1>2, <1>3, <1>5, <2>3 DEF SkipsAreBacked
  <2>4. KnownSkipsAreBacked'
    BY <1>1, <2>1, <2>2 DEF KnownSkipsAreBacked
  <2>5. SkipsAreBacked'
    BY <1>1, <2>1, <2>3 DEF SkipsAreBacked
  <2> QED BY <2>4, <2>5
<1>16. SucceededIsClosed' /\ SucceededIsComplete'
  <2>1. ASSUME NEW x \in Runs, storedRun'[x] = "succeeded"
        PROVE  x # r /\ storedRun[x] = "succeeded" /\ stored'[x] = stored[x]
    BY <1>5, <2>1
  <2>2. SucceededIsClosed'
    BY <1>6, <2>1 DEF SucceededIsClosed
  <2>3. SucceededIsComplete'
    BY <2>1 DEF SucceededIsComplete, Satisfied
  <2> QED BY <2>2, <2>3
<1>17. ExecutionsAreKept'
  <2> SUFFICES ASSUME ~ excused' PROVE ExecutionsAreKept'
    BY DEF ExecutionsAreKept
  <2>1. ~ excused /\ Active = {} /\ storedRun'[r] = "running" /\ Dropped(Appended(r)) = {}
    BY <1>1
  <2>2. \A x \in Runs : phase[x] # "running"
    BY <2>1 DEF Active
  <2>3. \A x \in Runs, t \in Tasks : stage'[x][t] = "none"
    BY <1>6, <1>7, <2>2 DEF StagesInStep
  <2>4. \A x, q \in Runs : phase'[x] = "running" /\ phase'[q] = "running" => x = q
    BY <1>6, <2>2
  <2>5. ASSUME NEW x \in Runs, NEW t \in Tasks, t \in executed'[x]
        PROVE  storedRun'[x] # "absent" /\ stored'[x][t].status = "succeeded"
    <3>1. stage[x][t] # "returned"
      BY <2>2 DEF StagesInStep
    <3>2. storedRun[x] # "absent" /\ stored[x][t].status = "succeeded"
      BY <1>1, <2>1, <2>5, <3>1 DEF ExecutionsAreKept
    <3> QED BY <1>5, <1>9, <2>1, <3>2
  <2> QED BY <2>3, <2>4, <2>5 DEF ExecutionsAreKept
<1>18. KeyExecutedOnce'
  BY <1>1 DEF KeyExecutedOnce, RecordsTyped
<1> QED BY <1>10, <1>11, <1>12, <1>13, <1>14, <1>15, <1>16, <1>17, <1>18

-----------------------------------------------------------------------------
(* What an engine does with a task                                            *)

\* A task that was under way ends: skipped with a cause or a backing, done by its callable, or failed.
LEMMA EndKeeps ==
    ASSUME RunsInv, NEW r \in Runs, NEW t \in Tasks, NEW state \in TaskState,
           phase[r] = "running", task[r][t].status \in {"pending", "running"}, IsFinal(state.status),
           (state.status = "skipped" /\ state.reason # "idempotent")
               => \E d \in Tasks : IsFailure(task[r][d].status),
           state.reason = "idempotent"
               => \E q \in Runs : KeyOf[q] = KeyOf[r] /\ stored[q][t].status = "succeeded",
           stage[r][t] = "returned" => state.status = "succeeded",
           End(r, t, state), executed' = executed
    PROVE  RunsInv'
<1> USE DEF RunsInv
<1>1. /\ task' = [task EXCEPT ![r] = [task[r] EXCEPT ![t] = state]]
      /\ stage' = [stage EXCEPT ![r] = [stage[r] EXCEPT ![t] = "none"]]
      /\ excused' = (excused \/ stored'[r][t] # state)
      /\ UNCHANGED <<durable, phase, executed>>
  BY DEF End
<1>2. /\ storedRun' = storedRun /\ stored' \in [Runs -> [Tasks -> TaskState]]
      /\ \A x \in Runs, u \in Tasks :
            \/ stored'[x][u] = stored[x][u]
            \/ x = r /\ u = t /\ stored'[x][u] = state /\ storedRun[r] # "absent"
  BY TaskIsSaved DEF End
<1>3. \A x \in Runs, u \in Tasks :
          /\ task'[x][u] = IF x = r /\ u = t THEN state ELSE task[x][u]
          /\ stage'[x][u] = IF x = r /\ u = t THEN "none" ELSE stage[x][u]
  BY <1>1 DEF RecordsTyped
<1>4. stored[r][t].status # "succeeded"
  BY DEF EngineKnows
<1>5. \A x \in Runs, u \in Tasks : stored[x][u].status = "succeeded" => stored'[x][u] = stored[x][u]
  BY <1>2, <1>4
<1>6. RecordsTyped'
  <2>1. task' \in [Runs -> [Tasks -> TaskState]]
    BY <1>1 DEF RecordsTyped
  <2>2. stage' \in [Runs -> [Tasks -> {"none", "admitted", "called", "returned"}]]
    BY <1>1 DEF RecordsTyped
  <2>3. excused' \in BOOLEAN
    BY <1>1 DEF RecordsTyped
  <2> QED BY <1>1, <1>2, <2>1, <2>2, <2>3 DEF RecordsTyped
<1>7. AbsentIsBlank'
  BY <1>1, <1>2 DEF AbsentIsBlank, Blank
<1>8. StagesInStep'
  BY <1>1, <1>3 DEF StagesInStep
<1>9. EngineKnows'
  BY <1>1, <1>2, <1>3 DEF EngineKnows
<1>10. SkipsHaveACause'
  <2>1. \A d \in Tasks : IsFailure(task[r][d].status) => task'[r][d] = task[r][d]
    BY <1>3 DEF IsFailure, FailureStatus
  <2>2. ASSUME NEW x \in Runs, phase'[x] = "running", NEW u \in Tasks,
               task'[x][u].status = "skipped", task'[x][u].reason # "idempotent"
        PROVE  \E d \in Tasks : IsFailure(task'[x][d].status)
    <3>1. CASE x = r
      <4>1. \E d \in Tasks : IsFailure(task[r][d].status)
        BY <1>1, <1>3, <2>2, <3>1 DEF SkipsHaveACause
      <4> QED BY <2>1, <3>1, <4>1
    <3>2. CASE x # r
      BY <1>1, <1>3, <2>2, <3>2 DEF SkipsHaveACause
    <3> QED BY <3>1, <3>2
  <2> QED BY <2>2 DEF SkipsHaveACause, IsFailure
<1>11. KnownSkipsAreBacked' /\ SkipsAreBacked'
  <2>1. ASSUME NEW x \in Runs, NEW u \in Tasks,
               \E q \in Runs : KeyOf[q] = KeyOf[x] /\ stored[q][u].status = "succeeded"
        PROVE  \E q \in Runs : KeyOf[q] = KeyOf[x] /\ stored'[q][u].status = "succeeded"
    BY <1>5, <2>1
  <2>2. ASSUME durable, NEW x \in Runs, NEW u \in Tasks, phase'[x] = "running", task'[x][u].reason = "idempotent"
        PROVE  \E q \in Runs : KeyOf[q] = KeyOf[x] /\ stored[q][u].status = "succeeded"
    BY <1>1, <1>3, <2>2 DEF KnownSkipsAreBacked
  <2>3. ASSUME durable, NEW x \in Runs, NEW u \in Tasks, stored'[x][u].reason = "idempotent"
        PROVE  \E q \in Runs : KeyOf[q] = KeyOf[x] /\ stored[q][u].status = "succeeded"
    BY <1>2, <2>3 DEF SkipsAreBacked
  <2>4. KnownSkipsAreBacked'
    BY <1>1, <2>1, <2>2 DEF KnownSkipsAreBacked
  <2>5. SkipsAreBacked'
    BY <1>1, <2>1, <2>3 DEF SkipsAreBacked
  <2> QED BY <2>4, <2>5
<1>12. SucceededIsClosed' /\ SucceededIsComplete'
  <2>1. storedRun[r] # "succeeded"
    BY DEF SucceededIsClosed
  <2>2. SucceededIsClosed'
    BY <1>1, <1>2 DEF SucceededIsClosed
  <2>3. SucceededIsComplete'
    BY <1>2, <2>1 DEF SucceededIsComplete, Satisfied
  <2> QED BY <2>2, <2>3
<1>13. ExecutionsAreKept'
  <2> SUFFICES ASSUME ~ excused' PROVE ExecutionsAreKept'
    BY DEF ExecutionsAreKept
  <2>1. ~ excused /\ stored'[r][t] = state
    BY <1>1
  <2>2. state # Blank
    BY DEF IsFinal, OpenStatus, Blank
  <2>3. storedRun[r] # "absent"
    BY <1>2, <2>1, <2>2 DEF AbsentIsBlank
  <2>4. \A x, q \in Runs : phase'[x] = "running" /\ phase'[q] = "running" => x = q
    BY <1>1, <2>1 DEF ExecutionsAreKept
  <2>5. ASSUME NEW x \in Runs, NEW u \in Tasks, u \in executed'[x]
        PROVE  stage'[x][u] = "returned" \/ (storedRun'[x] # "absent" /\ stored'[x][u].status = "succeeded")
    <3>1. stage[x][u] = "returned" \/ (storedRun[x] # "absent" /\ stored[x][u].status = "succeeded")
      BY <1>1, <2>1, <2>5 DEF ExecutionsAreKept
    <3>2. CASE x = r /\ u = t
      BY <1>2, <1>4, <2>1, <2>3, <3>1, <3>2
    <3>3. CASE ~ (x = r /\ u = t)
      BY <1>2, <1>3, <1>5, <3>1, <3>3
    <3> QED BY <3>2, <3>3
  <2>6. ASSUME NEW x \in Runs, NEW u \in Tasks, stage'[x][u] \in {"admitted", "called"}
        PROVE  ~ SeenBefore(x, u)'
    <3>1. stage[x][u] \in {"admitted", "called"} /\ ~ (x = r /\ u = t)
      BY <1>3, <2>6
    <3>2. x = r
      BY <2>1, <3>1 DEF StagesInStep, ExecutionsAreKept
    <3>3. \A q \in Runs : stored'[q][u] = stored[q][u]
      BY <1>2, <3>1, <3>2
    <3>4. ~ SeenBefore(x, u)
      BY <2>1, <3>1 DEF ExecutionsAreKept
    <3> QED BY <1>2, <3>3, <3>4 DEF SeenBefore, FindIdempotent
  <2> QED BY <2>4, <2>5, <2>6 DEF ExecutionsAreKept
<1>14. KeyExecutedOnce'
  BY <1>1 DEF KeyExecutedOnce, RecordsTyped
<1> QED BY <1>6, <1>7, <1>8, <1>9, <1>10, <1>11, <1>12, <1>13, <1>14

\* The states a task can end in
LEMMA EndStates ==
    /\ \A s \in {"succeeded", "failed"} : State(s, "none") \in TaskState /\ IsFinal(s)
    /\ \A why \in {"upstream_failed", "upstream_skipped", "idempotent"} :
          State("skipped", why) \in TaskState /\ IsFinal("skipped")
    /\ State("running", "none") \in TaskState
    /\ \A s, why : State(s, why).status = s /\ State(s, why).reason = why
BY DEF State, TaskState, TaskStatus, FailureStatus, OpenStatus, Reason, IsFinal

LEMMA TaskEnds ==
    ASSUME RunsInv, NEW r \in Runs, NEW t \in Tasks, RunsAssumption,
           SkipUnwanted(r, t) \/ SkipSeen(r, t) \/ LookupFails(r, t) \/ Succeed(r, t) \/ Fail(r, t)
    PROVE  RunsInv'
<1> USE EndStates
<1>1. CASE SkipUnwanted(r, t)
  <2>1. PICK why \in {"upstream_failed", "upstream_skipped"} : End(r, t, State("skipped", why))
    BY <1>1 DEF SkipUnwanted
  <2>2. phase[r] = "running" /\ task[r][t].status = "pending" /\ stage[r][t] = "none" /\ executed' = executed
    BY <1>1 DEF SkipUnwanted, Unblocked, Active
  <2>3. PICK d \in Deps[t] : IsFinal(task[r][d].status) /\ ~ Satisfied(task[r][d].status, task[r][d].reason)
    BY <1>1 DEF SkipUnwanted, Unblocked, Wanted
  <2>4. d \in Tasks
    BY <2>3 DEF RunsAssumption
  <2>5. task[r][d] \in TaskState
    BY <2>4 DEF RunsInv, RecordsTyped
  <2>6. IsFailure(task[r][d].status) \/ (task[r][d].status = "skipped" /\ task[r][d].reason # "idempotent")
    BY <2>3, <2>5 DEF TaskState, TaskStatus, IsFinal, IsFailure, Satisfied
  <2>7. \E e \in Tasks : IsFailure(task[r][e].status)
    BY <2>2, <2>4, <2>6 DEF RunsInv, SkipsHaveACause
  <2> DEFINE state == State("skipped", why)
  <2>8. state \in TaskState /\ state.status = "skipped" /\ state.reason # "idempotent" /\ IsFinal(state.status)
    OBVIOUS
  <2> HIDE DEF state
  <2>9. End(r, t, state)
    BY <2>1 DEF state
  <2> QED BY <2>2, <2>7, <2>8, <2>9, EndKeeps
<1>2. CASE SkipSeen(r, t)
  <2> DEFINE state == State("skipped", "idempotent")
  <2>1. phase[r] = "running" /\ task[r][t].status = "pending" /\ stage[r][t] = "none" /\ executed' = executed
    BY <1>2 DEF SkipSeen, Unblocked, Active
  <2>2. \E q \in Runs : KeyOf[q] = KeyOf[r] /\ stored[q][t].status = "succeeded"
    BY <1>2 DEF SkipSeen, SeenBefore, FindIdempotent
  <2>3. state \in TaskState /\ state.reason = "idempotent" /\ IsFinal(state.status)
    OBVIOUS
  <2>4. End(r, t, state)
    BY <1>2 DEF SkipSeen
  <2> HIDE DEF state
  <2> QED BY <2>1, <2>2, <2>3, <2>4, EndKeeps
<1>3. CASE LookupFails(r, t) \/ Fail(r, t)
  <2> DEFINE state == State("failed", "none")
  <2>1. task[r][t].status \in {"pending", "running"} /\ phase[r] = "running" /\ stage[r][t] # "returned"
        /\ executed' = executed
    BY <1>3 DEF LookupFails, Fail, Unblocked, Active, RunsInv, StagesInStep
  <2>2. state \in TaskState /\ state.status = "failed" /\ state.reason # "idempotent" /\ IsFinal(state.status)
    OBVIOUS
  <2>3. End(r, t, state)
    BY <1>3 DEF LookupFails, Fail
  <2> HIDE DEF state
  <2> QED BY <2>1, <2>2, <2>3, EndKeeps
<1>4. CASE Succeed(r, t)
  <2> DEFINE state == State("succeeded", "none")
  <2>1. task[r][t].status = "running" /\ phase[r] = "running" /\ executed' = executed
    BY <1>4 DEF Succeed, Active, RunsInv, StagesInStep
  <2>2. state \in TaskState /\ state.status = "succeeded" /\ state.reason # "idempotent" /\ IsFinal(state.status)
    OBVIOUS
  <2>3. End(r, t, state)
    BY <1>4 DEF Succeed
  <2> HIDE DEF state
  <2> QED BY <2>1, <2>2, <2>3, EndKeeps
<1> QED BY <1>1, <1>2, <1>3, <1>4

\* A task is let in, or its callable returns: nothing is written.
LEMMA TaskGoesOn ==
    ASSUME RunsInv, NEW r \in Runs, NEW t \in Tasks, Admit(r, t) \/ Return(r, t)
    PROVE  RunsInv'
<1> USE DEF RunsInv
<1>1. /\ UNCHANGED <<durable, phase, task, storedRun, stored, excused>>
      /\ phase[r] = "running"
  BY DEF Admit, Return, Unblocked, Active, store, history
<1>2. /\ AbsentIsBlank' /\ EngineKnows' /\ SkipsHaveACause' /\ KnownSkipsAreBacked' /\ SucceededIsClosed'
      /\ SkipsAreBacked' /\ SucceededIsComplete'
  BY <1>1 DEF AbsentIsBlank, EngineKnows, SkipsHaveACause, KnownSkipsAreBacked, SucceededIsClosed,
              SkipsAreBacked, SucceededIsComplete, Satisfied, IsFailure, Blank
<1>3. CASE Admit(r, t)
  <2>1. /\ stage' = [stage EXCEPT ![r] = [stage[r] EXCEPT ![t] = "admitted"]] /\ executed' = executed
        /\ task[r][t].status = "pending" /\ ~ SeenBefore(r, t) /\ stage[r][t] = "none"
    BY <1>3 DEF Admit, Unblocked, history
  <2>2. \A x \in Runs, u \in Tasks : stage'[x][u] = IF x = r /\ u = t THEN "admitted" ELSE stage[x][u]
    BY <2>1 DEF RecordsTyped
  <2>3. RecordsTyped'
    BY <1>1, <2>1 DEF RecordsTyped
  <2>4. StagesInStep'
    BY <1>1, <2>1, <2>2 DEF StagesInStep
  <2>5. \A x \in Runs, u \in Tasks : SeenBefore(x, u)' <=> SeenBefore(x, u)
    BY <1>1 DEF SeenBefore, FindIdempotent
  <2>6. ExecutionsAreKept'
    BY <1>1, <2>1, <2>2, <2>5 DEF ExecutionsAreKept
  <2>7. KeyExecutedOnce'
    BY <1>1, <2>1 DEF KeyExecutedOnce
  <2> QED BY <1>2, <2>3, <2>4, <2>6, <2>7
<1>4. CASE Return(r, t)
  <2>1. /\ stage' = [stage EXCEPT ![r] = [stage[r] EXCEPT ![t] = "returned"]] /\ stage[r][t] = "called"
        /\ executed' = IF t \in Keyed THEN [executed EXCEPT ![r] = @ \union {t}] ELSE executed
    BY <1>4 DEF Return
  <2>2. \A x \in Runs, u \in Tasks : stage'[x][u] = IF x = r /\ u = t THEN "returned" ELSE stage[x][u]
    BY <2>1 DEF RecordsTyped
  <2>3. \A x \in Runs, u \in Tasks : u \in executed'[x] => (x = r /\ u = t) \/ u \in executed[x]
    BY <2>1 DEF RecordsTyped
  <2>4. RecordsTyped'
    <3>1. stage' \in [Runs -> [Tasks -> {"none", "admitted", "called", "returned"}]]
      BY <2>1 DEF RecordsTyped
    <3>2. executed' \in [Runs -> SUBSET Keyed]
      BY <2>1 DEF RecordsTyped
    <3> QED BY <1>1, <3>1, <3>2 DEF RecordsTyped
  <2>5. StagesInStep'
    BY <1>1, <2>1, <2>2 DEF StagesInStep
  <2>6. \A x \in Runs, u \in Tasks : SeenBefore(x, u)' <=> SeenBefore(x, u)
    BY <1>1 DEF SeenBefore, FindIdempotent
  <2>7. ExecutionsAreKept'
    BY <1>1, <2>2, <2>3, <2>6 DEF ExecutionsAreKept
  <2>8. KeyExecutedOnce'
    <3> SUFFICES ASSUME ~ excused PROVE KeyExecutedOnce'
      BY <1>1 DEF KeyExecutedOnce
    <3>1. ~ SeenBefore(r, t)
      BY <2>1 DEF ExecutionsAreKept
    <3>2. ASSUME t \in Keyed, NEW q \in Runs, q # r, KeyOf[q] = KeyOf[r], t \in executed[q] PROVE FALSE
      <4>1. stage[q][t] # "returned"
        BY <1>1, <3>2 DEF StagesInStep, ExecutionsAreKept
      <4>2. storedRun[q] # "absent" /\ stored[q][t].status = "succeeded"
        BY <3>2, <4>1 DEF ExecutionsAreKept
      <4> QED BY <3>1, <3>2, <4>2 DEF SeenBefore, FindIdempotent
    <3>3. CASE t \in Keyed
      <4>1. \A x \in Runs : executed'[x] = IF x = r THEN executed[x] \union {t} ELSE executed[x]
        BY <2>1, <3>3 DEF RecordsTyped
      <4> QED BY <3>2, <3>3, <4>1 DEF KeyExecutedOnce
    <3>4. CASE t \notin Keyed
      BY <2>1, <3>4 DEF KeyExecutedOnce
    <3> QED BY <3>3, <3>4
  <2> QED BY <1>2, <2>4, <2>5, <2>7, <2>8
<1> QED BY <1>3, <1>4

\* A callable is called, and the record says that the task runs.
LEMMA CallKeeps ==
    ASSUME RunsInv, NEW r \in Runs, NEW t \in Tasks, Call(r, t)
    PROVE  RunsInv'
<1> USE DEF RunsInv
<1> DEFINE state == State("running", "none")
<1>1. state \in TaskState /\ state.status = "running" /\ state.reason = "none"
  BY EndStates
<1>2. /\ task' = [task EXCEPT ![r] = [task[r] EXCEPT ![t] = state]]
      /\ stage' = [stage EXCEPT ![r] = [stage[r] EXCEPT ![t] = "called"]]
      /\ Checkpoint(SaveTask(r, t, state))
      /\ UNCHANGED <<durable, phase, excused, executed>>
      /\ phase[r] = "running" /\ stage[r][t] = "admitted"
  BY DEF Call, Active, history
<1> HIDE DEF state
<1>3. /\ storedRun' = storedRun /\ stored' \in [Runs -> [Tasks -> TaskState]]
      /\ \A x \in Runs, u \in Tasks :
            \/ stored'[x][u] = stored[x][u]
            \/ x = r /\ u = t /\ stored'[x][u] = state /\ storedRun[r] # "absent"
  BY <1>1, <1>2, TaskIsSaved
<1>4. \A x \in Runs, u \in Tasks :
          /\ task'[x][u] = IF x = r /\ u = t THEN state ELSE task[x][u]
          /\ stage'[x][u] = IF x = r /\ u = t THEN "called" ELSE stage[x][u]
  BY <1>2 DEF RecordsTyped
<1>5. task[r][t].status = "pending" /\ stored[r][t].status # "succeeded" /\ storedRun[r] # "succeeded"
  BY <1>2 DEF StagesInStep, EngineKnows, SucceededIsClosed
<1>6. \A x \in Runs, u \in Tasks :
          (stored'[x][u].status = "succeeded" \/ stored[x][u].status = "succeeded") => stored'[x][u] = stored[x][u]
  BY <1>1, <1>3, <1>5
<1>7. RecordsTyped'
  <2>1. task' \in [Runs -> [Tasks -> TaskState]]
    BY <1>1, <1>2 DEF RecordsTyped
  <2>2. stage' \in [Runs -> [Tasks -> {"none", "admitted", "called", "returned"}]]
    BY <1>2 DEF RecordsTyped
  <2> QED BY <1>2, <1>3, <2>1, <2>2 DEF RecordsTyped
<1>8. AbsentIsBlank' /\ SucceededIsClosed'
  BY <1>2, <1>3 DEF AbsentIsBlank, SucceededIsClosed, Blank
<1>9. StagesInStep'
  BY <1>1, <1>2, <1>4 DEF StagesInStep
<1>10. EngineKnows'
  BY <1>2, <1>4, <1>5, <1>6 DEF EngineKnows
<1>11. SkipsHaveACause'
  <2>1. \A d \in Tasks : IsFailure(task[r][d].status) => task'[r][d] = task[r][d]
    BY <1>4, <1>5 DEF IsFailure, FailureStatus
  <2>2. ASSUME NEW x \in Runs, phase'[x] = "running", NEW u \in Tasks,
               task'[x][u].status = "skipped", task'[x][u].reason # "idempotent"
        PROVE  \E d \in Tasks : IsFailure(task'[x][d].status)
    <3>1. \E d \in Tasks : IsFailure(task[x][d].status)
      BY <1>1, <1>2, <1>4, <2>2 DEF SkipsHaveACause
    <3> QED BY <1>4, <2>1, <3>1
  <2> QED BY <2>2 DEF SkipsHaveACause, IsFailure
<1>12. KnownSkipsAreBacked'
  <2>1. ASSUME durable, NEW x \in Runs, NEW u \in Tasks, phase'[x] = "running", task'[x][u].reason = "idempotent"
        PROVE  \E q \in Runs : KeyOf[q] = KeyOf[x] /\ stored[q][u].status = "succeeded"
    BY <1>1, <1>2, <1>4, <2>1 DEF KnownSkipsAreBacked
  <2> QED BY <1>2, <1>6, <2>1 DEF KnownSkipsAreBacked
<1>13. SkipsAreBacked'
  <2>1. ASSUME durable, NEW x \in Runs, NEW u \in Tasks, stored'[x][u].reason = "idempotent"
        PROVE  \E q \in Runs : KeyOf[q] = KeyOf[x] /\ stored[q][u].status = "succeeded"
    BY <1>1, <1>3, <2>1 DEF SkipsAreBacked
  <2> QED BY <1>2, <1>6, <2>1 DEF SkipsAreBacked
<1>14. SucceededIsComplete'
  BY <1>3, <1>5 DEF SucceededIsComplete, Satisfied
<1>15. ExecutionsAreKept'
  <2> SUFFICES ASSUME ~ excused PROVE ExecutionsAreKept'
    BY <1>2 DEF ExecutionsAreKept
  <2>1. \A x \in Runs, u \in Tasks : SeenBefore(x, u)' <=> SeenBefore(x, u)
    BY <1>3, <1>6 DEF SeenBefore, FindIdempotent
  <2>2. ASSUME NEW x \in Runs, NEW u \in Tasks, u \in executed'[x]
        PROVE  stage'[x][u] = "returned" \/ (storedRun'[x] # "absent" /\ stored'[x][u].status = "succeeded")
    BY <1>2, <1>3, <1>4, <1>6, <2>2 DEF ExecutionsAreKept
  <2>3. ASSUME NEW x \in Runs, NEW u \in Tasks, stage'[x][u] \in {"admitted", "called"}
        PROVE  ~ SeenBefore(x, u)'
    BY <1>2, <1>4, <2>1, <2>3 DEF ExecutionsAreKept
  <2>4. \A x, q \in Runs : phase'[x] = "running" /\ phase'[q] = "running" => x = q
    BY <1>2 DEF ExecutionsAreKept
  <2> QED BY <2>2, <2>3, <2>4 DEF ExecutionsAreKept
<1>16. KeyExecutedOnce'
  BY <1>2 DEF KeyExecutedOnce
<1> QED BY <1>7, <1>8, <1>9, <1>10, <1>11, <1>12, <1>13, <1>14, <1>15, <1>16

-----------------------------------------------------------------------------
(* Closing and crashing                                                       *)

\* A run that closes without a failure has nothing but done tasks.
LEMMA CloseKeeps ==
    ASSUME RunsInv, NEW r \in Runs, Close(r)
    PROVE  RunsInv'
<1> USE DEF RunsInv
<1>1. /\ phase' = [phase EXCEPT ![r] = "ended"] /\ phase[r] = "running"
      /\ \A t \in Tasks : IsFinal(task[r][t].status)
      /\ Checkpoint(SaveRun(r, RunVerdict(r), task[r]))
      /\ excused' = (excused \/ storedRun'[r] # RunVerdict(r) \/ Dropped(Appended(r)) # {})
      /\ UNCHANGED <<durable, task, stage, executed>>
  BY DEF Close, Active
<1>2. RunVerdict(r) \in {"failed", "succeeded"} /\ RunVerdict(r) \in RunStatus /\ task[r] \in [Tasks -> TaskState]
  BY DEF RunVerdict, RunStatus, RecordsTyped
<1>3. /\ storedRun' \in [Runs -> RunStatus \union {"absent"}]
      /\ stored' \in [Runs -> [Tasks -> TaskState]]
      /\ \A x \in Runs :
            \/ storedRun'[x] = storedRun[x] /\ stored'[x] = stored[x]
            \/ /\ x \in Dropped(Appended(r)) /\ storedRun'[x] = "absent"
               /\ \A t \in Tasks : stored'[x][t] = Blank
            \/ x = r /\ storedRun'[x] = RunVerdict(r) /\ stored'[x] = task[r]
  BY <1>1, <1>2, RunIsSaved
<1>4. \A x \in Runs \ {r} : phase'[x] = phase[x]
  BY <1>1 DEF RecordsTyped
<1>5. phase'[r] = "ended" /\ \A t \in Tasks : stage[r][t] = "none"
  BY <1>1 DEF RecordsTyped, StagesInStep, IsFinal, OpenStatus
<1>6. durable => Dropped(Appended(r)) = {}
  BY DEF Dropped
<1>7. \A x \in Runs, t \in Tasks :
          x \notin Dropped(Appended(r)) /\ stored[x][t].status = "succeeded" => stored'[x][t].status = "succeeded"
  BY <1>1, <1>3 DEF EngineKnows
<1>8. Blank.status = "pending" /\ Blank.reason = "none"
  BY DEF Blank
<1>9. RecordsTyped'
  <2>1. phase' \in [Runs -> {"new", "running", "ended", "lost"}] /\ excused' \in BOOLEAN
    BY <1>1 DEF RecordsTyped
  <2> QED BY <1>1, <1>3, <2>1 DEF RecordsTyped
<1>10. AbsentIsBlank'
  <2>1. ASSUME NEW x \in Runs, storedRun'[x] = "absent", NEW t \in Tasks PROVE stored'[x][t] = Blank
    BY <1>2, <1>3, <2>1 DEF AbsentIsBlank
  <2>2. ASSUME NEW x \in Runs, phase'[x] = "new" PROVE storedRun'[x] = "absent"
    BY <1>3, <1>4, <1>5, <2>2 DEF AbsentIsBlank
  <2> QED BY <2>1, <2>2 DEF AbsentIsBlank, Blank
<1>11. StagesInStep' /\ SkipsHaveACause'
  BY <1>1, <1>4, <1>5 DEF StagesInStep, SkipsHaveACause, IsFailure
<1>12. EngineKnows'
  <2>1. ASSUME NEW x \in Runs, NEW t \in Tasks, phase'[x] = "running", stored'[x][t].status = "succeeded"
        PROVE  task'[x][t].status = "succeeded"
    BY <1>1, <1>3, <1>4, <1>5, <1>8, <2>1 DEF EngineKnows
  <2> QED BY <2>1 DEF EngineKnows
<1>13. KnownSkipsAreBacked' /\ SkipsAreBacked'
  <2>1. ASSUME durable, NEW x \in Runs, NEW t \in Tasks,
               \E q \in Runs : KeyOf[q] = KeyOf[x] /\ stored[q][t].status = "succeeded"
        PROVE  \E q \in Runs : KeyOf[q] = KeyOf[x] /\ stored'[q][t].status = "succeeded"
    BY <1>6, <1>7, <2>1
  <2>2. ASSUME durable, NEW x \in Runs, NEW t \in Tasks, phase'[x] = "running", task'[x][t].reason = "idempotent"
        PROVE  \E q \in Runs : KeyOf[q] = KeyOf[x] /\ stored[q][t].status = "succeeded"
    BY <1>1, <1>4, <1>5, <2>2 DEF KnownSkipsAreBacked
  <2>3. ASSUME durable, NEW x \in Runs, NEW t \in Tasks, stored'[x][t].reason = "idempotent"
        PROVE  \E q \in Runs : KeyOf[q] = KeyOf[x] /\ stored[q][t].status = "succeeded"
    BY <1>1, <1>3, <1>8, <2>3 DEF SkipsAreBacked, KnownSkipsAreBacked
  <2>4. KnownSkipsAreBacked'
    BY <1>1, <2>1, <2>2 DEF KnownSkipsAreBacked
  <2>5. SkipsAreBacked'
    BY <1>1, <2>1, <2>3 DEF SkipsAreBacked
  <2> QED BY <2>4, <2>5
<1>14. SucceededIsClosed'
  BY <1>3, <1>4, <1>5 DEF SucceededIsClosed
<1>15. SucceededIsComplete'
  <2>1. ASSUME NEW x \in Runs, storedRun'[x] = "succeeded", NEW t \in Tasks
        PROVE  Satisfied(stored'[x][t].status, stored'[x][t].reason)
    <3>1. CASE storedRun'[x] = storedRun[x] /\ stored'[x] = stored[x]
      BY <2>1, <3>1 DEF SucceededIsComplete
    <3>2. CASE x = r /\ RunVerdict(r) = "succeeded" /\ stored'[x] = task[r]
      <4>1. \A d \in Tasks : ~ IsFailure(task[r][d].status)
        BY <3>2 DEF RunVerdict
      <4>2. task[r][t] \in TaskState /\ IsFinal(task[r][t].status) /\ ~ IsFailure(task[r][t].status)
        BY <1>1, <1>2, <4>1
      <4>3. task[r][t].status = "succeeded" \/ (task[r][t].status = "skipped" /\ task[r][t].reason = "idempotent")
        BY <1>1, <4>1, <4>2 DEF SkipsHaveACause, TaskState, TaskStatus, IsFinal, IsFailure
      <4> QED BY <3>2, <4>3 DEF Satisfied
    <3> QED BY <1>3, <2>1, <3>1, <3>2
  <2> QED BY <2>1 DEF SucceededIsComplete, Satisfied
<1>16. ExecutionsAreKept'
  <2> SUFFICES ASSUME ~ excused' PROVE ExecutionsAreKept'
    BY DEF ExecutionsAreKept
  <2>1. ~ excused /\ storedRun'[r] = RunVerdict(r) /\ Dropped(Appended(r)) = {}
    BY <1>1
  <2>2. \A x, q \in Runs : phase'[x] = "running" /\ phase'[q] = "running" => x = q
    BY <1>4, <1>5, <2>1 DEF ExecutionsAreKept
  <2>3. ASSUME NEW x \in Runs, NEW t \in Tasks, t \in executed'[x]
        PROVE  stage'[x][t] = "returned" \/ (storedRun'[x] # "absent" /\ stored'[x][t].status = "succeeded")
    <3>1. stage[x][t] = "returned" \/ (storedRun[x] # "absent" /\ stored[x][t].status = "succeeded")
      BY <1>1, <2>1, <2>3 DEF ExecutionsAreKept
    <3>2. storedRun[x] # "absent" => storedRun'[x] # "absent"
      BY <1>2, <1>3, <2>1
    <3> QED BY <1>1, <1>7, <2>1, <3>1, <3>2
  <2>4. \A x \in Runs, t \in Tasks : stage'[x][t] = "none"
    BY <1>1, <1>5, <2>1 DEF StagesInStep, ExecutionsAreKept
  <2> QED BY <2>2, <2>3, <2>4 DEF ExecutionsAreKept
<1>17. KeyExecutedOnce'
  BY <1>1 DEF KeyExecutedOnce, RecordsTyped
<1> QED BY <1>9, <1>10, <1>11, <1>12, <1>13, <1>14, <1>15, <1>16, <1>17

\* The process dies: memory is gone, and a memory store with it.
LEMMA CrashKeeps ==
    ASSUME RunsInv, Crash
    PROVE  RunsInv'
<1> USE DEF RunsInv
<1>1. /\ phase' = [r \in Runs |-> IF phase[r] = "new" THEN "new" ELSE "lost"]
      /\ task' = [r \in Runs |-> [t \in Tasks |-> Blank]]
      /\ stage' = [r \in Runs |-> [t \in Tasks |-> "none"]]
      /\ excused' = (excused \/ ~durable \/ \E r \in Runs, t \in Tasks : stage[r][t] = "returned")
      /\ UNCHANGED <<durable, executed>>
  BY DEF Crash
<1>2. \/ durable /\ storedRun' = storedRun /\ stored' = stored
      \/ /\ ~ durable /\ storedRun' = [r \in Runs |-> "absent"]
         /\ stored' = [r \in Runs |-> [t \in Tasks |-> Blank]]
  BY DEF Crash, store
<1>3. Blank \in TaskState /\ Blank.status = "pending" /\ Blank.reason = "none"
  BY DEF Blank, TaskState, TaskStatus, OpenStatus, Reason
<1>4. \A r \in Runs : phase'[r] # "running" /\ (phase'[r] = "new" => phase[r] = "new")
  BY <1>1
<1>5. \A r \in Runs, t \in Tasks : stage'[r][t] = "none"
  BY <1>1
<1>6. RecordsTyped'
  <2>1. /\ phase' \in [Runs -> {"new", "running", "ended", "lost"}]
        /\ stage' \in [Runs -> [Tasks -> {"none", "admitted", "called", "returned"}]]
        /\ task' \in [Runs -> [Tasks -> TaskState]]
        /\ excused' \in BOOLEAN
    BY <1>1, <1>3 DEF RecordsTyped
  <2>2. storedRun' \in [Runs -> RunStatus \union {"absent"}] /\ stored' \in [Runs -> [Tasks -> TaskState]]
    BY <1>2, <1>3 DEF RecordsTyped
  <2> QED BY <1>1, <2>1, <2>2 DEF RecordsTyped
<1>7. AbsentIsBlank'
  BY <1>2, <1>4 DEF AbsentIsBlank, Blank
<1>8. StagesInStep' /\ EngineKnows' /\ SkipsHaveACause' /\ KnownSkipsAreBacked'
  BY <1>4, <1>5 DEF StagesInStep, EngineKnows, SkipsHaveACause, KnownSkipsAreBacked
<1>9. SucceededIsClosed'
  BY <1>2, <1>4 DEF SucceededIsClosed, AbsentIsBlank
<1>10. SkipsAreBacked' /\ SucceededIsComplete'
  BY <1>1, <1>2 DEF SkipsAreBacked, SucceededIsComplete, Satisfied
<1>11. ExecutionsAreKept'
  <2> SUFFICES ASSUME ~ excused' PROVE ExecutionsAreKept'
    BY DEF ExecutionsAreKept
  <2>1. ~ excused /\ durable /\ \A r \in Runs, t \in Tasks : stage[r][t] # "returned"
    BY <1>1
  <2> QED BY <1>1, <1>2, <1>4, <1>5, <2>1 DEF ExecutionsAreKept
<1>12. KeyExecutedOnce'
  BY <1>1 DEF KeyExecutedOnce
<1> QED BY <1>6, <1>7, <1>8, <1>9, <1>10, <1>11, <1>12

-----------------------------------------------------------------------------
(* What follows                                                               *)

LEMMA StutterKeeps ==
    ASSUME RunsInv, UNCHANGED vars
    PROVE  RunsInv'
BY DEF RunsInv, RecordsTyped, AbsentIsBlank, StagesInStep, EngineKnows, SkipsHaveACause, KnownSkipsAreBacked,
       SucceededIsClosed, ExecutionsAreKept, KeyExecutedOnce, SkipsAreBacked, SucceededIsComplete, SeenBefore, FindIdempotent,
       vars, memory, store, history, Satisfied, IsFailure, Blank

(* RunsInv holds in every reachable state: the store, the engines and the     *)
(* executed keys hang together at every moment a crash may fall.              *)
THEOREM RunsInvariant == Spec => []RunsInv
<1>1. Init => RunsInv
  BY RunsStart
<1>2. RunsInv /\ [Next]_vars => RunsInv'
  <2> SUFFICES ASSUME RunsInv, [Next]_vars PROVE RunsInv'
    OBVIOUS
  <2>1. ASSUME NEW r \in Runs, Run(r) PROVE RunsInv'
    <3>1. phase[r] = "new" /\ storedRun[r] = "absent" /\ \A t \in Tasks : stored[r][t] = Blank
      BY <2>1 DEF Run, RunsInv, AbsentIsBlank
    <3>2. [t \in Tasks |-> Blank] = [t \in Tasks |-> CarriedOver(r, t)]
      BY <3>1 DEF CarriedOver, Blank
    <3>3. Launch(r, [t \in Tasks |-> CarriedOver(r, t)])
      BY <2>1, <3>2 DEF Run
    <3> QED BY <3>1, <3>3, LaunchKeeps
  <2>2. ASSUME NEW r \in Runs, Resume(r) PROVE RunsInv'
    <3>1. phase[r] # "running" /\ storedRun[r] # "succeeded" /\ Launch(r, [t \in Tasks |-> CarriedOver(r, t)])
      BY <2>2 DEF Resume
    <3> QED BY <3>1, LaunchKeeps
  <2>3. ASSUME NEW r \in Runs, NEW t \in Tasks, TaskStep(r, t) PROVE RunsInv'
    BY <2>3, RunsAssumption, TaskEnds, TaskGoesOn, CallKeeps DEF TaskStep
  <2>4. ASSUME NEW r \in Runs, Close(r) PROVE RunsInv'
    BY <2>4, CloseKeeps
  <2>5. CASE Crash
    BY <2>5, CrashKeeps
  <2>6. CASE UNCHANGED vars
    BY <2>6, StutterKeeps
  <2> QED BY <2>1, <2>2, <2>3, <2>4, <2>5, <2>6 DEF Next, EngineStep
<1> QED BY <1>1, <1>2, PTL DEF Spec

LEMMA RunsInvSuffices ==
    ASSUME RunsInv
    PROVE  RunsSound
<1> USE DEF RunsInv
<1>1. NothingRepeated
  BY DEF NothingRepeated, StagesInStep, EngineKnows
<1> QED BY <1>1 DEF RunsSound

(* For any runs, tasks, dependencies and keys, wherever crashes, failures and *)
(* lost writes fall: nothing a resume can see as done is done again, runs     *)
(* after one another execute a key once, what is skipped was done, and a run  *)
(* the store has as succeeded is complete (Pipeline.resume, _carried_over,    *)
(* _seen_before, the checkpoints of Reporter).                                *)
THEOREM RunsAreSound == Spec => []RunsSound
<1>1. RunsInv => RunsSound
  BY RunsInvSuffices
<1> QED BY <1>1, RunsInvariant, PTL
=============================================================================
