-------------------------- MODULE SchedulerTargets --------------------------
(* What the thread of a scheduler run does with its target                     *)
(* (scheduler/targets.py, _safe_execute of scheduler/manager.py): an action    *)
(* list, one action at a time with the run's token read before each, or a      *)
(* pipeline run in the calling thread, whose id the record adopts from the     *)
(* event bus; and how a cancellation or a timeout, which closes the record     *)
(* first and sets the token after, meets it (scheduler/dispatch.py).  Every    *)
(* subscriber of the bus is called on the publishing thread.  The jobs, and    *)
(* what their firings count, are module SchedulerDispatch.                     *)
EXTENDS Naturals

CONSTANTS
    Flights,   \* scheduler runs, each with a thread of its own
    ListLength \* ListLength[r]: actions of the list of run r; 0 is refused as empty

VARIABLES
    target,    \* target[r]: "actions" or "pipeline"
    stage,     \* how far the thread has got
    done,      \* actions that ended
    failures,  \* actions that raised
    record,    \* record[r]: the state of the run's record
    stopping,  \* the runs whose record was closed and whose token is not cancelled yet
    token,     \* the runs whose token is cancelled
    adopting,  \* the runs subscribed to the start of pipelines
    known,     \* known[r]: the pipeline run the record names; "self" before any
    ended      \* ended[r]: the Outcome of the target once there is one: [state, error]

targetVars == <<target, stage, done, failures, record, stopping, token, adopting, known, ended>>

NoOutcome == [state |-> "none", error |-> "none"]

FinalStates == {"completed", "failed", "skipped", "cancelled", "timeout"}

TargetInit ==
    /\ target \in [Flights -> {"actions", "pipeline"}]
    /\ stage = [r \in Flights |-> "start"]
    /\ done = [r \in Flights |-> 0] /\ failures = [r \in Flights |-> 0]
    /\ record = [r \in Flights |-> "queued"]
    /\ stopping = {} /\ token = {} /\ adopting = {}
    /\ known = [r \in Flights |-> "self"]
    /\ ended = [r \in Flights |-> NoOutcome]

Ends(r, state, error) ==
    /\ stage' = [stage EXCEPT ![r] = "ended"]
    /\ ended' = [ended EXCEPT ![r] = [state |-> state, error |-> error]]

-----------------------------------------------------------------------------
(* Stopping a run, from another thread *)

\* cancel, or expire: the records of the runs in progress are closed under the lock, ...
Close(rs, state) ==
    LET chosen == {r \in rs : stage[r] # "landed" /\ record[r] \notin FinalStates}
    IN  /\ chosen # {}
        /\ record' = [r \in Flights |-> IF r \in chosen THEN state ELSE record[r]]
        /\ stopping' = stopping \union chosen
        /\ UNCHANGED <<target, stage, done, failures, token, adopting, known, ended>>

\* ... and their tokens are cancelled outside it.
CancelToken(r) ==
    /\ r \in stopping
    /\ stopping' = stopping \ {r} /\ token' = token \union {r}
    /\ UNCHANGED <<target, stage, done, failures, record, adopting, known, ended>>

-----------------------------------------------------------------------------
(* The run's thread *)

\* A run that was stopped before it began runs nothing.
LiftOff(r) ==
    /\ stage[r] = "start"
    /\ IF record[r] \in FinalStates
       THEN Ends(r, record[r], "none") /\ UNCHANGED record
       ELSE /\ stage' = [stage EXCEPT ![r] = "go"]
            /\ record' = [record EXCEPT ![r] = "started"]
            /\ UNCHANGED ended
    /\ UNCHANGED <<target, done, failures, stopping, token, adopting, known>>

\* Bug: the outcome of the thread is recorded whatever the record says.
ConcludesAlways(r) == TRUE

\* A timeout or a cancellation has the last word.
Concludes(r) == record[r] \notin FinalStates

Land(r) ==
    /\ stage[r] = "ended"
    /\ record' = IF Concludes(r) THEN [record EXCEPT ![r] = ended[r].state] ELSE record
    /\ stage' = [stage EXCEPT ![r] = "landed"]
    /\ UNCHANGED <<target, done, failures, stopping, token, adopting, known, ended>>

-----------------------------------------------------------------------------
\* run_actions raises for an empty list; _safe_execute reports it itself.
StartList(r) ==
    /\ target[r] = "actions" /\ stage[r] = "go"
    /\ IF ListLength[r] = 0
       THEN Ends(r, "failed", "refused")
       ELSE stage' = [stage EXCEPT ![r] = "check"] /\ UNCHANGED ended
    /\ UNCHANGED <<target, done, failures, record, stopping, token, adopting, known>>

\* _safe_execute, once the list has ended
ListEnds(r) == IF failures[r] = 0 THEN Ends(r, "completed", "none") ELSE Ends(r, "failed", "actions")

\* Before each action, and after the last: go on, or say how it went.
CheckToken(r) ==
    /\ stage[r] = "check"
    /\ IF done[r] = ListLength[r] \/ r \in token
       THEN ListEnds(r)
       ELSE stage' = [stage EXCEPT ![r] = "act"] /\ UNCHANGED ended
    /\ UNCHANGED <<target, done, failures, record, stopping, token, adopting, known>>

RunAction(r, raises) ==
    /\ stage[r] = "act"
    /\ done' = [done EXCEPT ![r] = @ + 1]
    /\ failures' = [failures EXCEPT ![r] = IF raises THEN @ + 1 ELSE @]
    /\ stage' = [stage EXCEPT ![r] = "check"]
    /\ UNCHANGED <<target, record, stopping, token, adopting, known, ended>>

-----------------------------------------------------------------------------
Subscribe(r) ==
    /\ target[r] = "pipeline" /\ stage[r] = "go"
    /\ adopting' = adopting \union {r}
    /\ stage' = [stage EXCEPT ![r] = "run"]
    /\ UNCHANGED <<target, done, failures, record, stopping, token, known, ended>>

\* A subscriber is called on the thread that publishes.
Adopts(r, publisher) == r = publisher

Publish(publisher, id) ==
    known' = [r \in Flights |-> IF r \in adopting /\ Adopts(r, publisher) THEN id ELSE known[r]]

Begin(r) ==
    /\ target[r] = "pipeline" /\ stage[r] = "run"
    /\ Publish(r, r)
    /\ stage' = [stage EXCEPT ![r] = "running"]
    /\ UNCHANGED <<target, done, failures, record, stopping, token, adopting, ended>>

\* A pipeline started by somebody else, on a thread that is no run's.
ForeignBegin ==
    /\ Publish("elsewhere", "foreign")
    /\ UNCHANGED <<target, stage, done, failures, record, stopping, token, adopting, ended>>

StateOfStatus == [succeeded |-> "completed", cancelled |-> "cancelled", failed |-> "failed"]

End(r, status) ==
    /\ stage[r] = "running"
    /\ status = "cancelled" => r \in token
    /\ known' = [known EXCEPT ![r] = r]
    /\ adopting' = adopting \ {r}
    /\ Ends(r, StateOfStatus[status], IF status = "succeeded" THEN "none" ELSE "pipeline")
    /\ UNCHANGED <<target, done, failures, record, stopping, token>>

\* Its parameters cannot be filled in, or the pipeline cannot be run at all.
Raise(r) ==
    /\ target[r] = "pipeline" /\ stage[r] \in {"go", "run", "running"}
    /\ adopting' = adopting \ {r}
    /\ Ends(r, "failed", "raised")
    /\ UNCHANGED <<target, done, failures, record, stopping, token, known>>

\* What no handler of the thread expects ends it without a result.
Vanish(r) ==
    /\ stage[r] \in {"go", "act", "run", "running"}
    /\ adopting' = adopting \ {r}
    /\ Ends(r, "failed", "thread")
    /\ UNCHANGED <<target, done, failures, record, stopping, token, known>>

TargetNext ==
    \/ \E rs \in (SUBSET Flights) \ {{}}, state \in {"cancelled", "timeout"} : Close(rs, state)
    \/ \E r \in Flights :
          \/ CancelToken(r) \/ LiftOff(r) \/ Land(r) \/ StartList(r) \/ CheckToken(r)
          \/ \E raises \in BOOLEAN : RunAction(r, raises)
          \/ Subscribe(r) \/ Begin(r) \/ Raise(r) \/ Vanish(r)
          \/ \E status \in DOMAIN StateOfStatus : End(r, status)
    \/ ForeignBegin

TargetSpec == TargetInit /\ [][TargetNext]_targetVars

-----------------------------------------------------------------------------
(* What a record says is what the run did, whenever it was stopped: a record   *)
(* is closed once; "completed" means that every action ran and none raised, or *)
(* that the pipeline succeeded, though a list that was stopped reports no      *)
(* failure either; "failed" says truly whether an action raised, the list was  *)
(* empty or the thread broke off; a run stopped before it began has run        *)
(* nothing; and a record never names the pipeline run of another thread, and   *)
(* names its own from the start of that run on (run_actions, _safe_execute,    *)
(* run_pipeline, _conclude).                                                   *)
TargetsAreTold ==
    \A r \in Flights :
        /\ record[r] = "completed" =>
              /\ ended[r].state = "completed" /\ r \notin token \union stopping
              /\ target[r] = "actions" => done[r] = ListLength[r] /\ failures[r] = 0
        /\ (record[r] = "failed" /\ target[r] = "actions") =>
              CASE ended[r].error = "actions" -> failures[r] > 0 /\ done[r] = ListLength[r]
                [] ended[r].error = "refused" -> ListLength[r] = 0
                [] OTHER -> ended[r].error = "thread" /\ (ListLength[r] > 0 => done[r] < ListLength[r])
        /\ stage[r] = "landed" => record[r] \in FinalStates \ {"skipped"}
        /\ r \in token => record[r] \in {"cancelled", "timeout"}
        /\ (stage[r] \in {"ended", "landed"} /\ ended[r].state \in {"cancelled", "timeout"}) =>
              /\ record[r] = ended[r].state \/ target[r] = "pipeline"
              /\ target[r] = "actions" => done[r] = 0
        /\ known[r] \in {"self", r}
        /\ stage[r] = "running" => known[r] = r

-----------------------------------------------------------------------------
(* The inductive invariant behind TargetsAreTold *)

\* No run is called like those that are none, or nobody's.
TargetsOK == Flights \intersect {"self", "foreign", "elsewhere"} = {} /\ ListLength \in [Flights -> Nat]

Stages == {"start", "go", "check", "act", "run", "running", "ended", "landed"}

Errors == {"none", "actions", "refused", "pipeline", "raised", "thread"}

TargetTypeOK ==
    /\ target \in [Flights -> {"actions", "pipeline"}]
    /\ stage \in [Flights -> Stages]
    /\ done \in [Flights -> Nat] /\ failures \in [Flights -> Nat]
    /\ record \in [Flights -> {"queued", "started"} \union (FinalStates \ {"skipped"})]
    /\ stopping \in SUBSET Flights /\ token \in SUBSET Flights /\ adopting \in SUBSET Flights
    /\ known \in [Flights -> Flights \union {"self"}]
    /\ ended \in [Flights -> [state : {"none"} \union (FinalStates \ {"skipped"}), error : Errors]]

\* A record is closed by the thread when it lands, or by a stop before that; and only a stopped run's
\* token is cancelled.
RecordsFollow ==
    \A r \in Flights :
        /\ r \in token \union stopping => record[r] \in {"cancelled", "timeout"}
        /\ stage[r] = "start" => record[r] \in {"queued", "cancelled", "timeout"}
        /\ stage[r] \notin {"start", "landed"} => record[r] \in {"started", "cancelled", "timeout"}
        /\ stage[r] = "landed" => record[r] \in {ended[r].state, "cancelled", "timeout"} \ {"none"}

\* How far a list has got, and what its end says of it; the outcome of a pipeline
ListsFollow ==
    \A r \in Flights :
        /\ stage[r] = "start" => done[r] = 0 /\ failures[r] = 0
        /\ (stage[r] \in {"ended", "landed"}) = (ended[r].state # "none")
        /\ ended[r].state \in {"cancelled", "timeout"} => record[r] = ended[r].state \/ target[r] = "pipeline"
        /\ target[r] = "actions" =>
              /\ stage[r] \notin {"run", "running"} /\ done[r] <= ListLength[r]
              /\ stage[r] = "go" => done[r] = 0 /\ failures[r] = 0
              /\ stage[r] = "act" => done[r] < ListLength[r]
              /\ ended[r].state \in {"cancelled", "timeout"} => done[r] = 0
              /\ ended[r].state = "completed" => failures[r] = 0 /\ (done[r] = ListLength[r] \/ r \in token)
              /\ ended[r].state = "failed" =>
                    \/ ended[r].error = "actions" /\ failures[r] > 0 /\ (done[r] = ListLength[r] \/ r \in token)
                    \/ ended[r].error = "refused" /\ ListLength[r] = 0
                    \/ ended[r].error = "thread" /\ (ListLength[r] > 0 => done[r] < ListLength[r])

\* A record names the run's own pipeline run or none.
NamesFollow == \A r \in Flights : known[r] \in {"self", r} /\ (stage[r] = "running" => known[r] = r)
               /\ (stage[r] = "run" => r \in adopting)

TargetInv == TargetTypeOK /\ RecordsFollow /\ ListsFollow /\ NamesFollow
=============================================================================
