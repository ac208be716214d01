----------------------------- MODULE MCScheduler -----------------------------
(* Small schedulers: the firings of one job name, or of two jobs that listen  *)
(* to each other ("dispatch" and "chains", both SchedulerDispatch), the       *)
(* registration and arming of two jobs (SchedulerArming), two threads that    *)
(* tick (SchedulerClock), or two runs at their targets (SchedulerTargets).  A *)
(* behaviour exercises one of them; the others stay as they start.            *)
EXTENDS SchedulerDispatch, SchedulerArming, SchedulerClock, SchedulerTargets, TLC

CONSTANTS r1, r2, r3, k1, k2

VARIABLE component

\* 02:30 twice on the Sunday the clocks are set back in a zone, and 03:30 after it; the system's local
\* time is another zone's
FallBack ==
    LET At(hour, fold) ==
            [minute |-> 30, hour |-> hour, day |-> 25, month |-> 10, weekday |-> 0, fold |-> fold]
    IN  [berlin |-> <<At(2, 0), At(2, 1), At(3, 0)>>, utc |-> <<At(0, 0), At(1, 0), At(2, 0)>>]

Star == {[form |-> "star", from |-> 0, to |-> 0, step |-> 1]}

One(v) == {[form |-> "one", from |-> v, to |-> v, step |-> 1]}

Cron(cron, zone) ==
    [kind |-> "cron", keys |-> {"cron", "timezone"}, cron |-> cron, zone |-> zone]

JobOf(entry, triggers, onto) ==
    [entry |-> entry, name |-> "job", triggers |-> triggers, schedule |-> <<>>, target |-> onto,
     loads |-> TRUE, params |-> {}, timeout |-> <<>>]

OnEvent(types, sources, severity) ==
    [kind |-> "event", keys |-> {"types", "sources", "min_severity"}, types |-> types, sources |-> sources,
     severity |-> severity]

OnPipeline(pipeline, when) ==
    [kind |-> "pipeline", keys |-> {"pipeline", "when"}, pipeline |-> pipeline, when |-> when]

Hourly == Cron(<<One(30), Star, Star, Star, Star>>, "none")

\* Definitions that are refused, each for a reason of its own
Refusals ==
    [off_the_clock |-> JobOf("add", <<Cron(<<One(60), Star, Star, Star, Star>>, "none")>>, "actions"),
     nowhere |-> JobOf("add", <<Cron(<<Star, Star, Star, Star, Star>>, "atlantis")>>, "actions"),
     at_once |-> [JobOf("add", <<Hourly>>, "actions") EXCEPT !.timeout = <<0>>],
     forever |-> [JobOf("add_job", <<Hourly>>, "actions") EXCEPT !.timeout = <<366>>],
     tuned |-> [JobOf("add_job", <<Hourly>>, "actions") EXCEPT !.params = {"plain"}],
     nameless |-> [JobOf("add_job", <<Hourly>>, "actions") EXCEPT !.name = ""],
     undated |-> [JobOf("add_job", <<Hourly>>, "report") EXCEPT !.params = {"bad date"}],
     broken |-> [JobOf("add_pipeline", <<Hourly>>, "report") EXCEPT !.loads = FALSE],
     misspelt |-> JobOf("add_job", <<[kind |-> "file", keys |-> {"paths"}, path |-> ""]>>, "actions"),
     deaf |-> JobOf("add_job", <<OnEvent({}, {}, "info")>>, "actions"),
     loud |-> JobOf("add_job", <<OnEvent({"task.failed"}, {}, "loud")>>, "actions"),
     chained |-> JobOf("add_pipeline", <<OnPipeline("report", "always")>>, "report")]

\* A nightly job in a zone, and a pipeline with a schedule and other triggers
Accepted ==
    [nightly |-> JobOf("add", <<Cron(<<One(30), One(2), Star, Star, One(7)>>, "berlin")>>, "actions"),
     hourly |-> [JobOf("add_pipeline", <<OnPipeline("load", "on_success"), OnEvent({}, {"disk"}, "info")>>,
                       "report") EXCEPT !.schedule = <<Hourly>>, !.timeout = <<365>>, !.params = {"plain"}]]

\* Every chunk at the edges of a field, alone and beside another
Chunks ==
    LET edges == {0, 1, 3, 6, 7, 12, 13, 23, 24, 31, 32, 59, 60}
    IN  [form : {"star"}, from : {0}, to : {0}, step : {0, 1, 5}]
          \union [form : {"word"}, from : {0}, to : {0}, step : {1}]
          \union [form : {"one"}, from : edges, to : {0}, step : {0, 1, 2, 7}]
          \union [form : {"span"}, from : {0, 1, 5, 6}, to : edges, step : {1, 2, 3}]

SomeQuestions ==
    {[index |-> i, chunks |-> {c} \union extra] :
        i \in 1..5, c \in Chunks, extra \in {{}, {[form |-> "one", from |-> 2, to |-> 0, step |-> 1]}}}

Definitions == Accepted @@ Refusals

\* What the theorems about the components ask of their constants
ASSUME ConstantsAreSound == ConstantsOK /\ ClockOK /\ TargetsOK

\* The definitions with a mistake in them are the ones that do not become jobs.
ASSUME MistakesAreRefused ==
    \A job \in DOMAIN Definitions : JobProblem(Definitions[job]) <=> job \in DOMAIN Refusals

\* A list of three actions and an empty one
ThreeAndNone == [run1 |-> 3, run2 |-> 0]

\* A job that is removed and registered again, and two that listen to each other
AgainNameOf ==
    [o \in {"backup#1", "backup#2", "load#1", "report#1"} |->
        CASE o = "load#1" -> "load" [] o = "report#1" -> "report" [] OTHER -> "backup"]

SchedulerSymmetry == Permutations(Runs) \union Permutations({k1, k2})

\* The jobs of the chains stay registered; the one that comes and goes is alone.
Registry ==
    \/ /\ component = "chains"
       /\ jobs = [backup |-> None, load |-> "load#1", report |-> "report#1"]
       /\ spent = Objects
    \/ /\ component # "chains"
       /\ jobs = [n \in Names |-> None]
       /\ spent = Listeners

SchedulerInit ==
    /\ component \in {"dispatch", "chains", "arming", "clock", "parser", "targets"}
    /\ Registry /\ AtRest /\ ArmInit /\ ClockInit /\ TargetInit
    /\ component # "arming" => autostart
    /\ component # "targets" => target = [r \in Flights |-> "actions"]

\* Chains start from one firing.
OneByHand ==
    \A r \in Runs : pc[r] = "new" /\ pc'[r] = "decided" => \A q \in Runs : pc[q] = "new"

DispatchMoves ==
    /\ component \in {"dispatch", "chains"}
    /\ Next
    /\ component = "chains" => UNCHANGED jobs /\ OneByHand
    /\ UNCHANGED <<component, armVars, clockVars, targetVars>>

ArmingMoves ==
    component = "arming" /\ ArmNext /\ UNCHANGED <<component, vars, clockVars, targetVars>>

ClockMoves ==
    component = "clock" /\ ClockNext /\ UNCHANGED <<component, vars, armVars, targetVars>>

ParserMoves ==
    /\ component = "parser"
    /\ Ask \/ \E job \in DOMAIN Definitions : AddJob(job)
    /\ UNCHANGED <<component, vars, armVars, targetVars>>

TargetMoves ==
    component = "targets" /\ TargetNext /\ UNCHANGED <<component, vars, armVars, clockVars>>

SchedulerNext == DispatchMoves \/ ArmingMoves \/ ClockMoves \/ ParserMoves \/ TargetMoves

MCSpec ==
    SchedulerInit /\ [][SchedulerNext]_<<component, vars, armVars, clockVars, targetVars>>
=============================================================================
