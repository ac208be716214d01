---------------------------- MODULE PipelineEditor ----------------------------
(* Runs as the pipeline editor sees them: the page on the UI thread           *)
(* (ui/pages/pipelines_page.py, base.py), its calls on a thread pool, and the *)
(* service that starts, resumes, tracks and cancels runs                      *)
(* (app/pipeline_service.py).  An executor is named by the call that made it. *)
EXTENDS Naturals, SequencesExt, FiniteSetsExt

CONSTANTS
    RunIds, NoRun,
    MaxTracked,  \* _MAX_TRACKED
    MaxCalls,    \* bound on the background calls
    MaxBad,      \* bound on the reads that fail
    Impatient    \* Resume may be pressed while a start or a resume is not answered yet

VARIABLES
    calls,      \* background calls, oldest first
    recorded,   \* recorded[r]: the status of the run in the store
    executing,  \* the calls whose executor is at work
    tracked,    \* _tracked: entries [run, call], oldest first
    cancelled,  \* the calls whose token is cancelled
    page,       \* the run the page follows, whether it still does, whether its timer runs
    shown,      \* what the panel says of a run: its ID and whether it is active
    bad         \* failed reads so far

editorVars == <<calls, recorded, executing, tracked, cancelled, page, shown, bad>>

Call(kind, run, step) == [kind |-> kind, run |-> run, step |-> step, read |-> NoRun]

InFlight(kind) == \E i \in DOMAIN calls : calls[i].kind = kind /\ calls[i].step # "delivered"

EntryOf(run) == {e \in ToSet(tracked) : e.run = run}

\* _is_active
IsActive(run) == \E e \in EntryOf(run) : e.call \in executing

Ended(entries) == SelectSeq(entries, LAMBDA e : e.call \notin executing)

\* _track: the entry of the run is replaced where it is; what has ended goes once there are too many.
Tracking(entry) ==
    LET put == IF EntryOf(entry.run) = {} THEN Append(tracked, entry)
               ELSE [i \in DOMAIN tracked |-> IF tracked[i].run = entry.run THEN entry ELSE tracked[i]]
        excess == IF Len(put) > MaxTracked THEN Len(put) - MaxTracked ELSE 0
        ended == Ended(put)
        pruned == {ended[i] : i \in {j \in DOMAIN ended : j <= excess}}
    IN  SelectSeq(put, LAMBDA e : e \notin pruned)

-----------------------------------------------------------------------------
(* The UI thread *)

\* run_async; a call with a key is not made while one with that key is under way.
RunAsync(kind, run, key) ==
    /\ Len(calls) < MaxCalls
    /\ key => ~InFlight(kind)
    /\ calls' = Append(calls, Call(kind, run, "queued"))

\* poll: nothing is asked while the last question is not answered.
Poll(run) == IF InFlight("follow") THEN UNCHANGED calls ELSE RunAsync("follow", run, TRUE)

OpenPipeline ==
    /\ RunAsync("open", NoRun, FALSE)
    /\ UNCHANGED <<recorded, executing, tracked, cancelled, page, shown, bad>>

\* run and retry
Start(run) ==
    /\ recorded[run] = "absent" /\ \A i \in DOMAIN calls : calls[i].run # run
    /\ RunAsync("start", run, FALSE)
    /\ UNCHANGED <<recorded, executing, tracked, cancelled, page, shown, bad>>

\* _again: the run the page follows, else the one picked in the history
Resume(run) ==
    /\ page.run \in {run, NoRun} /\ recorded[run] # "absent"
    /\ Impatient \/ ~(InFlight("start") \/ InFlight("resume"))
    /\ RunAsync("resume", run, FALSE)
    /\ UNCHANGED <<recorded, executing, tracked, cancelled, page, shown, bad>>

Cancel ==
    /\ page.run # NoRun /\ IsActive(page.run)
    /\ cancelled' = cancelled \union {e.call : e \in EntryOf(page.run)}
    /\ UNCHANGED <<calls, recorded, executing, tracked, page, shown, bad>>

Followed(run) == [run |-> run, following |-> TRUE, timer |-> TRUE]

FollowRun(run) ==
    /\ recorded[run] # "absent" /\ page # Followed(run)
    /\ page' = Followed(run)
    /\ Poll(run)
    /\ UNCHANGED <<recorded, executing, tracked, cancelled, shown, bad>>

TimerTick ==
    /\ page.timer /\ ~InFlight("follow")
    /\ RunAsync("follow", page.run, TRUE)
    /\ UNCHANGED <<recorded, executing, tracked, cancelled, page, shown, bad>>

-----------------------------------------------------------------------------
(* The thread pool *)

Step(i, step) == calls' = [calls EXCEPT ![i].step = step]

Answer(i, view) == calls' = [calls EXCEPT ![i].step = "answered", ![i].read = view]

View(run, active) == [run |-> run, active |-> active]

Load(i) ==
    /\ calls[i].kind = "open" /\ calls[i].step = "queued"
    /\ Step(i, "answered")
    /\ UNCHANGED <<recorded, executing, tracked, cancelled, page, shown, bad>>

\* service.start: the run exists and executes before it is tracked.
ServiceStart(i) ==
    /\ calls[i].kind = "start" /\ calls[i].step = "queued"
    /\ recorded' = [recorded EXCEPT ![calls[i].run] = "running"]
    /\ executing' = executing \union {i}
    /\ Step(i, "started")
    /\ UNCHANGED <<tracked, cancelled, page, shown, bad>>

TrackStarted(i) ==
    /\ calls[i].kind = "start" /\ calls[i].step = "started"
    /\ tracked' = Tracking([run |-> calls[i].run, call |-> i])
    /\ Answer(i, View(calls[i].run, TRUE))
    /\ UNCHANGED <<recorded, executing, cancelled, page, shown, bad>>

\* service.resume up to the dry run: refused while active, answered when the run has succeeded
CheckResume(i) ==
    LET run == calls[i].run IN
    /\ calls[i].kind = "resume" /\ calls[i].step = "queued"
    /\ IF IsActive(run) THEN Step(i, "refused")
       ELSE IF recorded[run] = "succeeded" THEN Answer(i, View(run, FALSE))
       ELSE Step(i, "checked")
    /\ UNCHANGED <<recorded, executing, tracked, cancelled, page, shown, bad>>

\* The thread is tracked before it is started.
TrackResume(i) ==
    /\ calls[i].kind = "resume" /\ calls[i].step = "checked"
    /\ tracked' = Tracking([run |-> calls[i].run, call |-> i])
    /\ Step(i, "tracked")
    /\ UNCHANGED <<recorded, executing, cancelled, page, shown, bad>>

\* pipeline.resume on its own thread reads the run again: a success stays one.
StartThread(i) ==
    /\ calls[i].kind = "resume" /\ calls[i].step = "tracked"
    /\ IF recorded[calls[i].run] = "succeeded" THEN UNCHANGED <<recorded, executing>>
       ELSE /\ recorded' = [recorded EXCEPT ![calls[i].run] = "running"]
            /\ executing' = executing \union {i}
    /\ Answer(i, View(calls[i].run, TRUE))
    /\ UNCHANGED <<tracked, cancelled, page, shown, bad>>

RunEnds(i, status) ==
    /\ i \in executing
    /\ executing' = executing \ {i}
    /\ recorded' = [recorded EXCEPT ![calls[i].run] = status]
    /\ UNCHANGED <<calls, tracked, cancelled, page, shown, bad>>

\* service.follow, or a store that cannot be read
Follow(i) ==
    /\ calls[i].kind = "follow" /\ calls[i].step = "queued"
    /\ \/ Answer(i, View(calls[i].run, IsActive(calls[i].run))) /\ UNCHANGED bad
       \/ bad < MaxBad /\ Step(i, "failed") /\ bad' = bad + 1
    /\ UNCHANGED <<recorded, executing, tracked, cancelled, page, shown>>

-----------------------------------------------------------------------------
(* Answers on the UI thread *)

Delivered(i) == [calls EXCEPT ![i].step = "delivered", ![i].read = NoRun]

\* _opened: another draft, and no run
Opened(i) ==
    /\ calls[i].kind = "open" /\ calls[i].step = "answered"
    /\ calls' = Delivered(i)
    /\ page' = [run |-> NoRun, following |-> FALSE, timer |-> FALSE]
    /\ shown' = NoRun
    /\ UNCHANGED <<recorded, executing, tracked, cancelled, bad>>

\* _on_started, which polls at once
OnStarted(i) ==
    /\ calls[i].kind \in {"start", "resume"} /\ calls[i].step = "answered"
    /\ page' = Followed(calls[i].run)
    /\ shown' = calls[i].read
    /\ \/ InFlight("follow") /\ calls' = Delivered(i)
       \/ /\ ~InFlight("follow") /\ Len(calls) < MaxCalls
          /\ calls' = Append(Delivered(i), Call("follow", calls[i].run, "queued"))
    /\ UNCHANGED <<recorded, executing, tracked, cancelled, bad>>

Mine(view) == view.run = page.run

\* _show_followed
ShowFollowed(i) ==
    LET view == calls[i].read IN
    /\ calls[i].kind = "follow" /\ calls[i].step = "answered"
    /\ calls' = Delivered(i)
    /\ IF ~Mine(view) THEN UNCHANGED <<page, shown>>
       ELSE /\ shown' = view
            /\ page' = IF view.active \/ ~page.following THEN page
                       ELSE [page EXCEPT !.following = FALSE, !.timer = FALSE]
    /\ UNCHANGED <<recorded, executing, tracked, cancelled, bad>>

\* A failed call is reported; a failed read also stops the following.
OnFailed(i) ==
    /\ calls[i].step \in {"refused", "failed"}
    /\ calls' = Delivered(i)
    /\ page' = IF calls[i].kind = "follow" THEN [page EXCEPT !.following = FALSE, !.timer = FALSE] ELSE page
    /\ UNCHANGED <<recorded, executing, tracked, cancelled, shown, bad>>

-----------------------------------------------------------------------------
EditorInit ==
    /\ calls = <<>>
    /\ recorded \in [RunIds -> {"absent", "failed"}]
    /\ executing = {} /\ tracked = <<>> /\ cancelled = {}
    /\ page = [run |-> NoRun, following |-> FALSE, timer |-> FALSE]
    /\ shown = NoRun /\ bad = 0

EditorNext ==
    \/ OpenPipeline \/ Cancel \/ TimerTick
    \/ \E run \in RunIds : Start(run) \/ Resume(run) \/ FollowRun(run)
    \/ \E i \in DOMAIN calls :
          \/ Load(i) \/ ServiceStart(i) \/ TrackStarted(i) \/ CheckResume(i) \/ TrackResume(i) \/ StartThread(i)
          \/ Follow(i) \/ Opened(i) \/ OnStarted(i) \/ ShowFollowed(i) \/ OnFailed(i)
          \/ \E status \in {"succeeded", "failed"} : RunEnds(i, status)

EditorSpec == EditorInit /\ [][EditorNext]_editorVars

-----------------------------------------------------------------------------
\* No run is executed twice at the same time: resume refuses a run this process is executing.
OneExecutorPerRun == \A i, j \in executing : calls[i].run = calls[j].run => i = j

\* What executes stays within reach of cancel: however many runs have come and gone, the entry of an
\* executor that is at work is given up only for a newer executor of the same run.
LiveStaysTracked ==
    \A e \in ToSet(tracked) :
        e.call \in executing \intersect executing' => \E f \in ToSet(tracked') : f.run = e.run /\ f.call >= e.call

\* When no read has failed, the page stops following only at an answer about the run it follows that
\* says the run is over, and that is what the panel goes on showing.
StopsAtTheEnd ==
    page.run # NoRun /\ ~page.following /\ bad = 0 => shown = View(page.run, FALSE)
=============================================================================
