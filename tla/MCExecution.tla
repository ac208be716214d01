----------------------------- MODULE MCExecution -----------------------------
(* Small instances of what executes actions and of the servers that accept    *)
(* them: the persistent queue, a batch of the executor, the configuration it  *)
(* runs under, the MCP tools, the HTTP server and the helpers that edit the   *)
(* inside of files.  A behaviour exercises one component; the variables of    *)
(* the others are Off.                                                        *)
EXTENDS ActionQueue, ActionExecution, Configuration, ToolServer, ActionServer

VARIABLES
    component,
    question, answer, edited, writers,
    subs, router, sinks, told, observers, trail, stores, stack, admin, reportClock, ids, budget,
    admitted, spoken, heard, missing

Off == "off"

-----------------------------------------------------------------------------
(* Batches of three actions, and of four, the last two of which may be on trial together *)

Batch(mode, validate, actions) == [mode |-> mode, validate |-> validate, actions |-> actions]

Good == <<"call", "call", "call">>

Mixed == <<"call", "malformed", "unknown">>

SomeBatches ==
    {Batch(m, v, a) : m \in {"serial", "parallel"}, v \in BOOLEAN, a \in {Good, Mixed}}
    \union {Batch("dry", FALSE, Mixed), Batch("parallel", FALSE, Append(Good, "call")),
            Batch("serial", FALSE, <<>>)}

ExecutorOff == batch = Batch("serial", FALSE, <<>>)

-----------------------------------------------------------------------------
(* Configuration files *)

Document(text, vault, out, dedup, routes) ==
    [text |-> text, secret |-> vault, sinks |-> out, dedup |-> dedup, routes |-> routes]

Sink(name, type) == [name |-> name, type |-> type, whole |-> TRUE]

Chat == Sink("chat", "slack")

SomeSinkTypes == {"webhook", "slack", "email"}

Plain == Document("toml", FALSE, <<Chat>>, "absent", {{"chat"}})

SomeConfigFiles ==
    {Plain,
     Document("toml", TRUE, <<Chat, Sink("ops", "email")>>, "ten", {{"chat", "ops"}}),
     Document("toml", FALSE, <<Sink("ops", "email")>>, "bad", {{"ops"}}),
     Document("toml", FALSE, <<>>, "absent", {{"ops"}}),
     Document("toml", FALSE, <<Sink("odd", "pager"), [Chat EXCEPT !.whole = FALSE]>>, "absent", {}),
     Document("toml", FALSE, <<Chat, [Chat EXCEPT !.whole = FALSE]>>, "absent", {}),
     Document("broken", FALSE, <<>>, "absent", {}),
     Document("garbled", FALSE, <<>>, "absent", {})}

ConfigOff == file = Plain /\ secrets = TRUE

-----------------------------------------------------------------------------
(* MCP tools: in/a and out/a below the root r, x beyond it, a link to x *)

Afile == <<"r", "in", "a">>

Bfile == <<"r", "out", "a">>

Beyond == <<"x">>

Link == <<"r", "l">>

SomePaths == {Afile, Bfile, Beyond}

SomeRealPath ==
    [p \in SomePaths \union {<<>>, <<"r">>, <<"r", "in">>, <<"r", "out">>} |-> p] @@ (Link :> Beyond)

Policy(roots, tools, w, o, d, actions) ==
    [roots |-> roots, tools |-> tools, write |-> w, overwrite |-> o, delete |-> d, actions |-> actions,
     exposed |-> {"batch"}, maxWrite |-> 1]

SomePolicies ==
    {Policy({<<"r">>}, SemanticTools, w, o, d, {"default"}) : w \in BOOLEAN, o \in BOOLEAN, d \in BOOLEAN}
    \union {Policy({<<"r">>}, SemanticTools \ {"file_write"}, TRUE, FALSE, TRUE, {"batch", "copy"}),
            Policy({}, SemanticTools, TRUE, TRUE, FALSE, {"default"})}

TaskOf(name, source, target, overwrite) ==
    [name |-> name, source |-> source, target |-> target, overwrite |-> overwrite]

Plan(tasks, nested) == [valid |-> TRUE, scheduled |-> FALSE, tasks |-> tasks, nested |-> nested]

Plans ==
    {Plan(<<TaskOf("write_text", Afile, Afile, "unsaid"), TaskOf("copy", Afile, Bfile, "yes")>>, {}),
     Plan(<<TaskOf("copy_tree", <<"r", "in">>, <<"r", "out">>, "no"), TaskOf("move", Afile, Bfile, "unsaid")>>, {}),
     Plan(<<TaskOf("sync", <<"r", "in">>, <<"r", "out">>, "no"), TaskOf("delete", Afile, <<"r", "out">>, "no")>>, {}),
     Plan(<<TaskOf("read_text", Afile, Afile, "no")>>, {"copy"}),
     [Plan(<<TaskOf("delete", Afile, <<"r">>, "no")>>, {}) EXCEPT !.scheduled = TRUE],
     [Plan(<<>>, {"batch"}) EXCEPT !.valid = FALSE]}

Say(tool) == [Silent EXCEPT !.method = "call", !.id = TRUE, !.tool = tool]

Writes ==
    {[Say("file_write") EXCEPT !.target = p, !.overwrite = o, !.dry = d] : p \in {Afile, Bfile}, o \in BOOLEAN, d \in BOOLEAN}
    \union {[Say("file_write") EXCEPT !.target = p] : p \in {Link, Beyond}}
    \union {[Say("file_write") EXCEPT !.target = Afile, !.size = 2], [Say("file_write") EXCEPT !.good = FALSE]}

Transfers ==
    {[Say(t) EXCEPT !.source = Afile, !.target = Bfile, !.overwrite = o, !.verify = v] :
        t \in {"file_copy", "file_move"}, o \in BOOLEAN, v \in BOOLEAN}
    \union {[Say("file_move") EXCEPT !.source = Afile, !.target = Afile],
            [Say("file_copy") EXCEPT !.source = Afile, !.target = Bfile, !.dry = TRUE]}
    \union {[Say("storage_copy") EXCEPT !.source = s, !.target = <<"r", "out">>, !.overwrite = o, !.dry = d] :
               s \in {<<"r", "in">>, <<"r", "out">>}, o \in BOOLEAN, d \in BOOLEAN}
    \union {[Say("storage_copy") EXCEPT !.source = Afile, !.target = Bfile],
            [Say("file_copy") EXCEPT !.source = <<"r", "in">>, !.target = Bfile]}

Pipelines ==
    {[Say("pipeline_create") EXCEPT !.document = d, !.overwrite = o] : d \in Plans, o \in BOOLEAN}
    \union {[Say("pipeline_run") EXCEPT !.background = b] : b \in BOOLEAN}
    \union {[Say("pipeline_run") EXCEPT !.dry = TRUE], Say("pipeline_status")}

Messages ==
    {[Silent EXCEPT !.method = m, !.id = i] :
        m \in {"broken", "initialize", "initialized", "list", "other"}, i \in BOOLEAN}
    \union {[Say(t) EXCEPT !.source = p] : t \in {"file_checksum", "storage_list"}, p \in {Afile, <<"r", "in">>}}
    \union {Say("batch"), Say("other"), [Say("batch") EXCEPT !.document = Plan(<<>>, {"copy"})],
            [Say("file_checksum") EXCEPT !.source = Afile, !.id = FALSE]}

\* Reads in parts: characters of one and two bytes; searches of up to three files
Candidate(size, readable, text, hit) == [size |-> size, readable |-> readable, text |-> text, hit |-> hit]

SearchCandidates ==
    {Candidate(1, TRUE, TRUE, TRUE), Candidate(2, TRUE, TRUE, FALSE), Candidate(2, TRUE, FALSE, TRUE),
     Candidate(1, FALSE, TRUE, TRUE), Candidate(-1, TRUE, TRUE, FALSE)}

SomeRequests == Writes \union Transfers \union Pipelines \union Messages

\* Up to four characters of one or two bytes each
SomeTexts == {t \in SUBSET (0..8) : 0 \in t /\ Cardinality(t) <= 5 /\ \A n \in t \ {0} : {n - 1, n - 2} \intersect t # {}}

SomeLimits == 1..3

SomeSearches == [candidates : UNION {[1..n -> SearchCandidates] : n \in 0..3}, limit : 1..2, budget : {0, 2, 4}]

ToolsOff == policy = Policy({<<"r">>}, SemanticTools, TRUE, TRUE, TRUE, {"default"}) /\ files = [p \in SomePaths |-> Absent]

ReadsOff ==
    reader = [text |-> {0}, limit |-> 1, sized |-> TRUE, base64 |-> TRUE, offset |-> 0, got |-> <<>>,
              kind |-> "list", state |-> "searching"]

-----------------------------------------------------------------------------
(* The HTTP server *)

Entry(name, arguments) == [name |-> name, arguments |-> arguments]

Post(path, token, body, entries) == [path |-> path, token |-> token, body |-> body, entries |-> entries]

SomeAccess ==
    {[allowed |-> {"any"}, denied |-> {}], [allowed |-> {"any"}, denied |-> {"write"}],
     [allowed |-> {"read", "batch"}, denied |-> {"batch"}], [allowed |-> {"batch"}, denied |-> {}]}

Reads == <<Entry("read", {}), Entry("batch", {"read"})>>

SomePosts ==
    {Post("/other", "good", "list", <<>>),
     Post("/actions", "good", "garbage", <<>>),
     Post("/actions", "good", "list", <<>>),
     Post("/actions", "good", "list", <<Entry(NoName, {"write"}), Entry("typo", {"write"}), Entry("batch", {"write", "text"})>>),
     Post("/actions", "good", "auto_control", Reads),
     Post("/actions", "good", "actions", Reads),
     Post("/actions", "good", "else", <<>>)}
    \union {Post("/actions", t, "list", Reads) : t \in {"none", "bad", "good"}}

ServerOff ==
    /\ secret = FALSE /\ acl = [allowed |-> {"any"}, denied |-> {}]
    /\ \A c \in Clients : post[c].request = Post("/other", "good", "list", <<>>)

-----------------------------------------------------------------------------
(* Edits: scripts of up to four lines, documents of depth two, small tables *)

KeyIndex == ("0" :> 0) @@ ("1" :> 1) @@ ("-1" :> -1)

Dashed == ("-" :> {"--"}) @@ ("+" :> {"++"})

EditPaths == << <<"p">>, <<"p", "x">>, <<"q">> >>

Edits == INSTANCE TextEdits
         WITH Questions <- {}, Index <- KeyIndex, Falsy <- {"0"}, PathOrder <- EditPaths, Dashes <- Dashed, Open <- {"end"},
              file <- edited

UpTo(n, values) == UNION {[1..m -> values] : m \in 0..n}

Scripts == {s \in UpTo(4, [op : {" ", "-", "+"}, line : {"a", "b", "--", "end"}]) : Edits!IsScript(s)}

Trees == {t \in UNION {[P -> {"v", "w"}] : P \in SUBSET {EditPaths[i] : i \in 1..3}} : Edits!IsTree(t)}

Values(v, w) ==
    {Edits!NewMap, Edits!List(<<>>), Edits!Atom("0"), v, Edits!Map([a |-> v]), Edits!Map([a |-> Edits!List(<<v, w>>)]),
     Edits!Map([a |-> Edits!Map([b |-> v]), b |-> w]), Edits!List(<<Edits!Map([a |-> v]), w>>),
     Edits!Map([a |-> Edits!List(<<>>)])}

Tables ==
    {<<>>} \union {<<header>> \o rows : header \in {<<>>, <<"a">>, <<"a", "b">>, <<"a", "a">>},
                                      rows \in UpTo(2, {<<>>, <<"x">>, <<"y", "x">>, <<"x", "y", "z">>})}

Questions ==
    [kind : {"patch"}, script : Scripts, context : 0..1, ends : {"platform", "other"}]
    \union [kind : {"dirs"}, left : Trees, right : Trees, lost : {<<>>, EditPaths[2], EditPaths[3]}]
    \union [kind : {"document"}, format : {"json", "yaml"}, op : {"set", "delete"}, value : {Edits!Atom("n")},
            doc : Values(Edits!Atom("v"), Edits!Atom("w")), path : UpTo(3, {"a", "b", "0", "1", "-1"})]
    \union [kind : {"split"}, bytes : {[i \in 1..n |-> i] : n \in 0..5}, size : 0..3, lost : {{}, {2}}]
    \union [kind : {"sed"}, text : UpTo(3, {"x", "y", "lf", "crlf"}), pattern : {"", "x", "lf", "crlf"}, replacement : {"y"}, count : -1..2]
    \union [kind : {"csv"}, table : Tables, columns : {<<>>, <<<<"a">>>>, <<<<"b", "a">>>>},
            where : {"none", "a", "b"}, equals : {"none", "x"}]
    \union [kind : {"jsonl"}, lines : UpTo(3, {"blank", "r1", "r2", "bad"}), finished : BOOLEAN, limit : 0..2, record : {"r1"}]

T == INSTANCE TextEdits
     WITH Index <- KeyIndex, Falsy <- {"0"}, PathOrder <- EditPaths, Dashes <- Dashed, Open <- {"end"}, file <- edited

EditsOff == question = Off /\ answer = Off /\ edited = Off /\ writers = Off

-----------------------------------------------------------------------------
(* Reporting: two threads and two administrators, one database and one store in memory *)

Bus == INSTANCE NotifyRouter WITH PruneInterval <- 1, MaxDedupKeys <- 1, FloodShare <- 1

Report(kind, type, subject, severity) ==
    [kind |-> kind, type |-> type, source |-> "pipeline", subject |-> subject, severity |-> severity,
     origin |-> 0]

SmallHappenings ==
    {Report("failure", <<"task", "failed">>, "job", Bus!Error),
     [kind |-> "operation", name |-> "upload", status |-> "error", callerError |-> FALSE, origin |-> 0],
     [kind |-> "operation", name |-> "read", status |-> "error", callerError |-> TRUE, origin |-> 0]}

PagerRoute(limit, dedup) ==
    [name |-> "pager", sinks |-> {"mail"}, sources |-> {}, types |-> {<<"task", "*">>},
     min |-> Bus!Warning, dedup |-> dedup, limit |-> limit, period |-> 1]

EveryRoute ==
    [name |-> "all", sinks |-> {}, sources |-> {}, types |-> {}, min |-> Bus!Error,
     dedup |-> 1, limit |-> 0, period |-> 1]

SmallRoutes == {PagerRoute(1, 0), EveryRoute}

SmallSynced == {<<>>, <<PagerRoute(1, 1)>>}

Setup(routes, attached, store, event, operation, routing, auditing) ==
    [routes |-> routes, sinks |-> attached, store |-> store,
     budget |-> [event |-> event, operation |-> operation, routing |-> routing, auditing |-> auditing]]

\* Reports that race one change of the routes; changes of the routes that
\* race each other; direct messages; a sink and a trail together; operations
\* that race the audit's administration.
SmallSetups ==
    {Setup(<<PagerRoute(1, 0)>>, <<"mail">>, "none", 2, 0, 1, 0),
     Setup(<<PagerRoute(1, 0)>>, <<"mail">>, "none", 0, 0, 3, 0),
     Setup(<<>>, <<"mail">>, "none", 2, 0, 0, 0),
     Setup(<<EveryRoute>>, <<"hook">>, "db", 1, 1, 0, 0),
     Setup(<<>>, <<>>, "db", 0, 1, 0, 2)}

SmallQueries == {[since |-> 0, until |-> u, status |-> s, offset |-> o, limit |-> l] :
                   u \in {1, 9}, s \in {"any", "error"}, o \in {0, 1}, l \in {2}}

SmallOldLog == <<[id |-> -1, at |-> 0, action |-> "FA_copy", origin |-> -1, status |-> "ok"],
                 [id |-> -2, at |-> 0, action |-> "FA_move", origin |-> -2, status |-> "error"]>>

N == INSTANCE Reporting
     WITH PruneInterval <- 1, MaxDedupKeys <- 1, FloodShare <- 1, Threads <- {"p", "q"}, Admins <- {"a", "b"},
          Happenings <- SmallHappenings, Routes <- SmallRoutes, Synced <- SmallSynced, Sinks <- {"mail", "hook"},
          Stores <- {"db", "memory"}, Owned <- {"db"}, Queries <- SmallQueries, OldLog <- SmallOldLog,
          ManagerDedup <- 1, Setups <- SmallSetups, MaxTime <- 1, clock <- reportClock

ReportingOff ==
    /\ subs = Off /\ router = Off /\ sinks = Off /\ told = Off /\ observers = Off /\ trail = Off /\ stores = Off
    /\ stack = Off /\ admin = Off /\ reportClock = Off /\ ids = Off /\ budget = Off /\ admitted = Off
    /\ spoken = Off /\ heard = Off /\ missing = Off

-----------------------------------------------------------------------------
editVars == <<question, answer, edited, writers>>

reportVars ==
    <<subs, router, sinks, told, observers, trail, stores, stack, admin, reportClock, ids, budget,
      admitted, spoken, heard, missing>>

MCvars == <<component, vars, execVars, configVars, toolVars, readVars, serverVars, editVars, reportVars>>

\* What a behaviour does not exercise starts in one state only.
MCInit ==
    /\ component \in {"queue", "executor", "config", "tools", "reads", "server", "edits", "reporting"}
    /\ component # "executor" => ExecutorOff
    /\ component # "config" => ConfigOff
    /\ component # "tools" => ToolsOff
    /\ component # "reads" => ReadsOff
    /\ Init /\ ExecInit /\ ConfigInit /\ ToolInit /\ ReadInit /\ ServerInit
    /\ component # "server" => ServerOff
    /\ IF component = "edits" THEN T!EditInit ELSE EditsOff
    /\ IF component = "reporting" THEN N!Init ELSE ReportingOff

QueueMoves ==
    /\ component = "queue" /\ Next
    /\ UNCHANGED <<component, execVars, configVars, toolVars, readVars, serverVars, editVars, reportVars>>

ExecutorMoves ==
    /\ component = "executor" /\ ExecNext
    /\ UNCHANGED <<component, vars, configVars, toolVars, readVars, serverVars, editVars, reportVars>>

ConfigMoves ==
    /\ component = "config" /\ ConfigNext
    /\ UNCHANGED <<component, vars, execVars, toolVars, readVars, serverVars, editVars, reportVars>>

ToolMoves ==
    /\ component = "tools" /\ ToolNext
    /\ UNCHANGED <<component, vars, execVars, configVars, readVars, serverVars, editVars, reportVars>>

ReadMoves ==
    /\ component = "reads" /\ ReadNext
    /\ UNCHANGED <<component, vars, execVars, configVars, toolVars, serverVars, editVars, reportVars>>

ServerMoves ==
    /\ component = "server" /\ ServerNext
    /\ UNCHANGED <<component, vars, execVars, configVars, toolVars, readVars, editVars, reportVars>>

EditMoves ==
    /\ component = "edits" /\ T!EditNext
    /\ UNCHANGED <<component, vars, execVars, configVars, toolVars, readVars, serverVars, reportVars>>

ReportMoves ==
    /\ component = "reporting" /\ N!Next
    /\ UNCHANGED <<component, vars, execVars, configVars, toolVars, readVars, serverVars, editVars>>

MCNext == QueueMoves \/ ExecutorMoves \/ ConfigMoves \/ ToolMoves \/ ReadMoves \/ ServerMoves \/ EditMoves
          \/ ReportMoves

MCSpec == MCInit /\ [][MCNext]_MCvars

\* TextEdits: what the editing helpers answer is what their definitions say, and files stay whole.
EditsAgree == component = "edits" => T!EditsAgree

\* Reporting, whatever is reconfigured meanwhile: the router is subscribed exactly while it is active,
\* deduplication and the rate limit keep their bounds, a failure to notify is not notified about, what
\* happened while the trail was active is in its store exactly once, and both kinds of store answer a
\* search alike.
ReportingSound ==
    component = "reporting" =>
        N!SubscriptionExact /\ N!ThrottleHolds /\ N!NoEcho /\ N!AuditedOnce /\ N!SearchAgrees
=============================================================================
