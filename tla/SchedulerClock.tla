--------------------------- MODULE SchedulerClock ---------------------------
(* The polled half of scheduler/: what a cron expression means (cron.py), when *)
(* a cron trigger is due through the hours the clocks repeat (triggers.py),    *)
(* which definitions become jobs (job.py, manager.py), and Scheduler.tick,     *)
(* which the background thread, a thread that is slow to end, and a caller     *)
(* may run at the same time.  Time is a sequence of instants, one per minute   *)
(* that matters, each with the wall-clock reading it has in every zone.  What  *)
(* a firing starts, and the runs out of time that a tick closes before it      *)
(* looks at the minute, are module SchedulerDispatch; what arms the other      *)
(* triggers of a job is module SchedulerArming.                                *)
EXTENDS Integers, Sequences, FiniteSets

CONSTANTS
    Wall,         \* Wall[zone][i]: [minute, hour, day, month, weekday, fold] of the clock in a zone
    Local,        \* the zone of the system's local time
    Length,       \* how many instants there are
    Tickers,      \* the threads that call tick
    Jobs,         \* job names
    Definition,   \* what is registered under each name
    Questions,    \* cron fields put to the parser: [index, chunks]
    Severities, MaxTimeout,
    MaxEdits,     \* registrations and removals
    MaxBack       \* steps of the system clock backwards

VARIABLES
    now,          \* the instant the system clock shows
    lastMinute,   \* Scheduler._last_minute
    registered,   \* Scheduler._jobs
    at,           \* where each ticker is
    reading,      \* the minute each ticker read
    todo,         \* the jobs each ticker has still to look at
    fired,        \* ghost: how often each job was fired at each minute
    returns,      \* ghost: how often a minute was handled right after a later one
    edits, backs, \* what was used of the bounds
    asked, answer \* the last cron field parsed, and the result

tickVars == <<now, lastMinute, registered, at, reading, todo, fired, returns, edits, backs>>

clockVars == <<tickVars, asked, answer>>

Instants == 1..Length

NoMinute == 0

-----------------------------------------------------------------------------
(* Cron expressions: a field is a set of chunks [form, from, to, step].        *)

Bad == {-1}   \* CronException

FieldBounds == << <<0, 59>>, <<0, 23>>, <<1, 31>>, <<1, 12>>, <<0, 6>> >>

ExpandRange(start, end, step, low, high) ==
    IF start < low \/ end > high \/ start > end \/ step <= 0
    THEN Bad
    ELSE {v \in start..end : (v - start) % step = 0}

ExpandChunk(c, low, high, effectiveHigh) ==
    CASE c.form = "star" -> ExpandRange(low, high, c.step, low, high)
      [] c.form = "span" -> ExpandRange(c.from, c.to, c.step, low, effectiveHigh)
      [] c.form = "word" -> Bad   \* a value or a step that is no number
      [] c.form = "one" ->
            IF c.from < low \/ c.from > effectiveHigh THEN Bad
            ELSE IF c.step = 1 THEN {c.from}
            ELSE ExpandRange(c.from, effectiveHigh, c.step, low, effectiveHigh)

\* Sunday may be written as 7.
Sunday(values, index) ==
    IF index = 5 /\ 7 \in values THEN (values \ {7}) \union {0} ELSE values

ParseField(index, chunks) ==
    LET low == FieldBounds[index][1]
        high == FieldBounds[index][2]
        effectiveHigh == IF index = 5 THEN 7 ELSE high
        expanded == {ExpandChunk(c, low, high, effectiveHigh) : c \in chunks}
    IN  IF chunks = {} \/ Bad \in expanded THEN Bad ELSE Sunday(UNION expanded, index)

Parse(fields) == [i \in 1..5 |-> ParseField(i, fields[i])]

Parses(fields) == Len(fields) = 5 /\ \A i \in 1..5 : Parse(fields)[i] # Bad

EveryHour(cron) == Cardinality(cron[2]) = 24

Matches(cron, moment) ==
    /\ moment.minute \in cron[1]
    /\ moment.hour \in cron[2]
    /\ moment.day \in cron[3]
    /\ moment.month \in cron[4]
    /\ moment.weekday \in cron[5]

-----------------------------------------------------------------------------
(* Triggers and jobs.                                                          *)

\* The wall-clock time an expression is compared with; a trigger without a zone
\* reads local time, which does not say that an hour is repeated.
Moment(trigger, instant) ==
    IF trigger.zone = "none" THEN [Wall[Local][instant] EXCEPT !.fold = 0] ELSE Wall[trigger.zone][instant]

\* Bug: the second pass through a repeated hour counts like the first.
DueInBothPasses(trigger, instant) == Matches(Parse(trigger.cron), Moment(trigger, instant))

Due(trigger, instant) ==
    LET local == Moment(trigger, instant)
    IN  /\ Matches(Parse(trigger.cron), local)
        /\ local.fold = 0 \/ EveryHour(Parse(trigger.cron))

IsCron(trigger) == trigger.kind = "cron"

\* A pipeline's own schedule comes before the triggers it is given.
JobTriggers(d) == IF d.entry = "add_pipeline" THEN d.schedule \o d.triggers ELSE d.triggers

JobDue(job, instant) ==
    \E i \in 1..Len(JobTriggers(Definition[job])) :
        LET t == JobTriggers(Definition[job])[i] IN IsCron(t) /\ Due(t, instant)

Keys == [cron |-> {"cron", "timezone"}, file |-> {"path", "events", "recursive"},
         event |-> {"types", "sources", "min_severity"}, pipeline |-> {"pipeline", "when"}]

RequiredKeys == [cron |-> {"cron"}, file |-> {"path"}, event |-> {}, pipeline |-> {"pipeline"}]

ResolveTimezone(zone) == zone = "none" \/ zone \in DOMAIN Wall

CronProblem(t) == ~ Parses(t.cron) \/ ~ ResolveTimezone(t.zone)

FileProblem(t) == t.path = ""

\* At least one type or source, none of them blank, and a known severity
EventProblem(t) ==
    "" \in t.types \/ "" \in t.sources \/ t.types \union t.sources = {} \/ t.severity \notin Severities

PipelineProblem(t) == t.pipeline = "" \/ t.when \notin {"on_success", "on_failure", "always"}

\* trigger_from_dict refuses the mapping.
TriggerProblem(t) ==
    \/ t.kind \notin DOMAIN Keys
    \/ ~ t.keys \subseteq Keys[t.kind]
    \/ ~ RequiredKeys[t.kind] \subseteq t.keys
    \/ CASE t.kind = "cron" -> CronProblem(t)
         [] t.kind = "file" -> FileProblem(t)
         [] t.kind = "event" -> EventProblem(t)
         [] t.kind = "pipeline" -> PipelineProblem(t)

\* A pipeline may not be fired by its own runs.
FiresItself(target, triggers) ==
    \E i \in 1..Len(triggers) : triggers[i].kind = "pipeline" /\ triggers[i].pipeline = target

\* None, or seconds above 0 and at most a year: <<>> or <<seconds>>
TimeoutAccepted(timeout) == timeout = <<>> \/ (0 < timeout[1] /\ timeout[1] <= MaxTimeout)

\* add: an action list on a cron expression
AddProblem(d) == CronProblem(d.triggers[1]) \/ ~ TimeoutAccepted(d.timeout)

\* add_job: a blank name, a definition that does not load, parameters with a date format that is not
\* valid, or any at all for an action list
AddJobProblem(d) ==
    \/ d.name = ""
    \/ d.target = "actions" /\ d.params # {}
    \/ ~ d.loads
    \/ "bad date" \in d.params
    \/ \E i \in 1..Len(d.triggers) : TriggerProblem(d.triggers[i])
    \/ ~ TimeoutAccepted(d.timeout)
    \/ FiresItself(d.target, JobTriggers(d))

\* add_pipeline: the schedule of the definition becomes a cron trigger.
AddPipelineProblem(d) == (\E i \in 1..Len(d.schedule) : CronProblem(d.schedule[i])) \/ AddJobProblem(d)

JobProblem(d) ==
    CASE d.entry = "add" -> AddProblem(d)
      [] d.entry = "add_job" -> AddJobProblem(d)
      [] d.entry = "add_pipeline" -> AddPipelineProblem(d)

-----------------------------------------------------------------------------
ClockInit ==
    /\ now = 1 /\ lastMinute = NoMinute /\ registered = {}
    /\ at = [k \in Tickers |-> "away"]
    /\ reading = [k \in Tickers |-> NoMinute]
    /\ todo = [k \in Tickers |-> {}]
    /\ fired = [j \in Jobs |-> [i \in Instants |-> 0]]
    /\ returns = 0 /\ edits = 0 /\ backs = 0
    /\ asked = [index |-> 1, chunks |-> {}] /\ answer = Bad

IsRegistered(job) == job \in registered

\* A definition that is refused, or a name that is taken, leaves everything as it was.
AddJob(job) ==
    /\ IF IsRegistered(job) \/ JobProblem(Definition[job])
       THEN UNCHANGED <<registered, edits>>
       ELSE /\ edits < MaxEdits /\ edits' = edits + 1
            /\ registered' = registered \union {job}
    /\ UNCHANGED <<now, lastMinute, at, reading, todo, fired, returns, backs, asked, answer>>

DropJob(job) ==
    /\ edits < MaxEdits /\ IsRegistered(job)
    /\ edits' = edits + 1
    /\ registered' = registered \ {job}
    /\ UNCHANGED <<now, lastMinute, at, reading, todo, fired, returns, backs, asked, answer>>

DropAll ==
    /\ edits < MaxEdits /\ registered # {}
    /\ edits' = edits + 1
    /\ registered' = {}
    /\ UNCHANGED <<now, lastMinute, at, reading, todo, fired, returns, backs, asked, answer>>

Advance ==
    /\ now < Length
    /\ now' = now + 1
    /\ UNCHANGED <<lastMinute, registered, at, reading, todo, fired, returns, edits, backs, asked, answer>>

\* The system clock is set back.
StepBack ==
    /\ now > 1 /\ backs < MaxBack
    /\ now' = now - 1 /\ backs' = backs + 1
    /\ UNCHANGED <<lastMinute, registered, at, reading, todo, fired, returns, edits, asked, answer>>

\* tick reads the clock before it has the lock.
ReadClock(k) ==
    /\ at[k] = "away"
    /\ reading' = [reading EXCEPT ![k] = now]
    /\ at' = [at EXCEPT ![k] = "read"]
    /\ UNCHANGED <<now, lastMinute, registered, todo, fired, returns, edits, backs, asked, answer>>

Handled(minute) == minute = lastMinute

Leave(k) ==
    /\ at' = [at EXCEPT ![k] = "away"]
    /\ reading' = [reading EXCEPT ![k] = NoMinute]

CheckMinute(k) ==
    /\ at[k] = "read"
    /\ IF Handled(reading[k])
       THEN Leave(k) /\ UNCHANGED <<lastMinute, returns>>
       ELSE /\ at' = [at EXCEPT ![k] = "handle"]
            /\ UNCHANGED reading
            /\ lastMinute' = reading[k]
            /\ returns' = IF reading[k] < lastMinute THEN returns + 1 ELSE returns
    /\ UNCHANGED <<now, registered, todo, fired, edits, backs, asked, answer>>

ListJobs(k) ==
    /\ at[k] = "handle"
    /\ todo' = [todo EXCEPT ![k] = registered]
    /\ at' = [at EXCEPT ![k] = "fire"]
    /\ UNCHANGED <<now, lastMinute, registered, reading, fired, returns, edits, backs, asked, answer>>

\* One job of the list: fired when one of its cron triggers is due at the minute.  The list is in
\* the order of registration; here the jobs are looked at in any order.
FireDue(k) ==
    /\ at[k] = "fire"
    /\ \E j \in todo[k] :
          /\ todo' = [todo EXCEPT ![k] = @ \ {j}]
          /\ fired' = IF JobDue(j, reading[k]) THEN [fired EXCEPT ![j][reading[k]] = @ + 1] ELSE fired
    /\ UNCHANGED <<now, lastMinute, registered, at, reading, returns, edits, backs, asked, answer>>

EndTick(k) ==
    /\ at[k] = "fire" /\ todo[k] = {}
    /\ Leave(k)
    /\ UNCHANGED <<now, lastMinute, registered, todo, fired, returns, edits, backs, asked, answer>>

\* Whatever a firing raises ends the tick, and not the thread.
FailTick(k) ==
    /\ at[k] = "fire" /\ todo[k] # {}
    /\ Leave(k)
    /\ todo' = [todo EXCEPT ![k] = {}]
    /\ UNCHANGED <<now, lastMinute, registered, fired, returns, edits, backs, asked, answer>>

AskParser(q) ==
    /\ asked' = q /\ answer' = ParseField(q.index, q.chunks)
    /\ UNCHANGED tickVars

ClockNext ==
    \/ \E j \in Jobs : AddJob(j) \/ DropJob(j)
    \/ DropAll \/ Advance \/ StepBack
    \/ \E k \in Tickers :
          ReadClock(k) \/ CheckMinute(k) \/ ListJobs(k) \/ FireDue(k) \/ EndTick(k) \/ FailTick(k)

\* Parsing on its own: one question, and its answer
Ask == asked.chunks = {} /\ \E q \in Questions : AskParser(q)

ClockSpec == ClockInit /\ [][ClockNext \/ Ask]_clockVars

-----------------------------------------------------------------------------
\* Two instants with the same reading in a zone: the two passes through an hour the clocks repeat
SameWallTime(zone, i, k) == [Wall[zone][i] EXCEPT !.fold = 0] = [Wall[zone][k] EXCEPT !.fold = 0]

\* Every cron trigger of the job names hours in this zone.
Zoned(job, zone) ==
    \A i \in 1..Len(JobTriggers(Definition[job])) :
        LET t == JobTriggers(Definition[job])[i]
        IN  IsCron(t) => t.zone = zone /\ ~ EveryHour(Parse(t.cron))

\* The zones a job names its hours in
ZonesOf == [j \in Jobs |-> {zone \in DOMAIN Wall : Zoned(j, zone)}]

(* However many threads tick, at whatever times, and however the system clock  *)
(* is set, a job is fired at most once in a minute, and once more for every    *)
(* time the scheduler went back to a minute before the one it had handled; and *)
(* a job that names its hours in a zone is fired no more often than that at a  *)
(* wall-clock time of the zone, also in the hour the clocks repeat             *)
(* (Scheduler.tick, CronTrigger.due).                                          *)
FiredOnce ==
    \A j \in Jobs :
        /\ \A i \in Instants : fired[j][i] <= 1 + returns
        /\ \A zone \in ZonesOf[j] : \A i, k \in Instants :
              (SameWallTime(zone, i, k) /\ i # k) => fired[j][i] + fired[j][k] <= 1 + returns

\* What cron(5) says a chunk names, a day of the week being a day modulo seven
Named(index, v) == IF index = 5 THEN v % 7 ELSE v

ChunkMeans(index, c, v) ==
    LET low == FieldBounds[index][1]
        high == FieldBounds[index][2]
        last == IF index = 5 THEN 7 ELSE high
    IN  CASE c.form = "star" -> \E n \in 0..high : v = low + n * c.step /\ v <= high
          [] c.form = "span" -> \E n \in 0..last : LET w == c.from + n * c.step
                                                   IN  w <= c.to /\ v = Named(index, w)
          [] c.form = "word" -> FALSE
          [] c.form = "one" -> IF c.step = 1 THEN v = Named(index, c.from)
                               ELSE \E n \in 0..last : LET w == c.from + n * c.step
                                                       IN  w <= last /\ v = Named(index, w)

WellFormed(index, c) ==
    /\ c.form # "word" /\ c.step > 0
    /\ c.form # "star" => c.from \in FieldBounds[index][1]..(IF index = 5 THEN 7 ELSE FieldBounds[index][2])
    /\ c.form = "span" => c.to \in c.from..(IF index = 5 THEN 7 ELSE FieldBounds[index][2])

(* The parsed field holds exactly the values its chunks name, every one of     *)
(* them a value the field of a date can have; a field with a chunk that names  *)
(* none is refused (cron._parse_field).                                        *)
CronAgrees ==
    IF asked.chunks = {} \/ \E c \in asked.chunks : ~ WellFormed(asked.index, c)
    THEN answer = Bad
    ELSE answer = {v \in FieldBounds[asked.index][1]..FieldBounds[asked.index][2] :
                      \E c \in asked.chunks : ChunkMeans(asked.index, c, v)}

\* Firings and fields: both halves of what is polled
ClockSound == FiredOnce /\ CronAgrees

-----------------------------------------------------------------------------
(* The inductive invariant behind ClockSound *)

\* A reading of the clock in a zone, and a chunk of a cron field
Reading ==
    [minute : 0..59, hour : 0..23, day : 1..31, month : 1..12, weekday : 0..6, fold : {0, 1}]

Chunk == [form : {"star", "span", "word", "one"}, from : Int, to : Int, step : Int]

\* A zone shows a reading once: of two instants with one wall-clock time one is in the second pass
\* through the hour.  (So the instants are of one year.)
ClockOK ==
    /\ IsFiniteSet(Tickers) /\ Length \in Nat \ {0}
    /\ Wall \in [DOMAIN Wall -> [Instants -> Reading]] /\ "none" \notin DOMAIN Wall
    /\ \A zone \in DOMAIN Wall : \A i, k \in Instants : i # k => Wall[zone][i] # Wall[zone][k]
    /\ Questions \subseteq [index : 1..5, chunks : SUBSET Chunk]

\* The tickers that may still fire a job at a minute
AboutToFire(j, i) ==
    {k \in Tickers : reading[k] = i /\ (at[k] = "handle" \/ (at[k] = "fire" /\ j \in todo[k]))}

\* Firings, done and to come, are paid for by a minute handled for the first time or a return to it.
FiringsArePaid ==
    \A j \in Jobs, i \in Instants :
        fired[j][i] + Cardinality(AboutToFire(j, i)) <= returns + (IF lastMinute >= i THEN 1 ELSE 0)

\* What was fired at a minute was due.
FiringsAreDue == \A j \in Jobs, i \in Instants : fired[j][i] > 0 => JobDue(j, i)

ClockTypeOK ==
    /\ now \in Instants /\ lastMinute \in 0..Length /\ returns \in Nat
    /\ registered \subseteq Jobs
    /\ at \in [Tickers -> {"away", "read", "handle", "fire"}]
    /\ reading \in [Tickers -> 0..Length]
    /\ todo \in [Tickers -> SUBSET Jobs]
    /\ fired \in [Jobs -> [Instants -> Nat]]
    /\ \A k \in Tickers : at[k] # "away" => reading[k] \in Instants
    /\ asked \in [index : 1..5, chunks : SUBSET Chunk]
    /\ answer = ParseField(asked.index, asked.chunks)

ClockInv == ClockTypeOK /\ FiringsArePaid /\ FiringsAreDue
=============================================================================
