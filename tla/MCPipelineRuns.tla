--------------------------- MODULE MCPipelineRuns ---------------------------
(* Small instances of a pipeline's life outside the engine: its definition in *)
(* the editor, the page it is edited on, its runs as the editor follows them, *)
(* and the runs in the store; and the editor of plain action lists.  A        *)
(* behaviour exercises one of them; the variables of the others are Off.      *)
EXTENDS PipelineRuns, TLC

CONSTANT NoRun

VARIABLES
    component,
    file, layout, header, tasks, at, revision, saved, notes, made,
    calls, recorded, executing, tracked, cancelled, page, shown, bad,
    drawn, placed, canvas, form, typed, ticked,
    ed, raw, rawOn, disk, job, steps,
    book, given, inStage, inState, returned, called, flagged

Off == "off"

\* A build whose outcome is published once per key
ReportTasks == {"build", "publish"}
ReportDeps == [t \in ReportTasks |-> IF t = "publish" THEN {"build"} ELSE {}]

\* Two runs for the same date
SameKey == [r \in Runs |-> "date"]

-----------------------------------------------------------------------------
(* Definitions: a chain, a pair, and files with every kind of problem *)

Entry(action, field, deps, refs) == [action |-> action, field |-> field, deps |-> deps, refs |-> refs]

Good(deps, refs) == Entry("ok", "none", deps, refs)

Definition(version, name, entries) == [version |-> version, name |-> name, tasks |-> entries]

Definitions ==
    {Definition(TRUE, "ok", [a |-> Good(<<>>, {}), b |-> Good(<<"a">>, {"a"}), c |-> Good(<<"b">>, {"a", "b"})]),
     Definition(TRUE, "ok", [a |-> Good(<<>>, {}), b |-> Good(<<"a">>, {})]),
     Definition(TRUE, "type", [a |-> Good(<<"c", "a">>, {}), b |-> Good(<<"a", "a">>, {"c"})]),
     Definition(TRUE, "ok", [a |-> Good(<<"b">>, {}), b |-> Good(<<"a">>, {"malformed"})]),
     Definition(TRUE, "ok", ("!" :> Good(<<>>, {})) @@ ("a" :> Entry("type", "type", <<>>, {}))
                             @@ ("b" :> Entry("nospec", "none", <<>>, {}))
                             @@ ("c" :> Entry("empty", "value", <<"b">>, {"b"}))),
     Definition(FALSE, "ok", [a |-> Good(<<>>, {})]),
     Definition(TRUE, "ok", <<>>)}

D == INSTANCE PipelineDraft WITH Names <- {"a", "b", "c"}, Documents <- Definitions, MaxEdits <- 3

DraftOff ==
    /\ file = Off /\ layout = Off /\ header = Off /\ tasks = Off /\ at = Off /\ revision = Off
    /\ saved = Off /\ notes = Off /\ made = Off

-----------------------------------------------------------------------------
(* The editor: two runs, three calls, room for one ended run *)

E == INSTANCE PipelineEditor
     WITH RunIds <- {"r1", "r2"}, NoRun <- NoRun, MaxTracked <- 1, MaxCalls <- 3, MaxBad <- 1, Impatient <- FALSE

EditorOff ==
    /\ calls = Off /\ recorded = Off /\ executing = Off /\ tracked = Off /\ cancelled = Off /\ page = Off
    /\ shown = Off /\ bad = Off

-----------------------------------------------------------------------------
(* The page: a chain whose numbers the form cannot show, and two tasks without arrows *)

Seven == [k |-> "num", v |-> "7"]

Quoted(v) == [k |-> "str", v |-> v]

PageTask(action, args, deps, retry, timeout, when) ==
    [action |-> action, args |-> args, deps |-> deps, retry |-> retry, timeout |-> timeout, when |-> when]

Given(kw) == [kind |-> "map", kw |-> kw]

Positional == [kind |-> "list", kw |-> <<>>]

Nothing == [kind |-> "none", kw |-> <<>>]

PageDrafts ==
    {[a |-> PageTask("copy", Given([src |-> Quoted("7")]), {}, "two", "5", "always"),
      b |-> PageTask("run", Positional, {"a"}, "fine", "1234567", "sometimes"),
      c |-> PageTask("copy", Nothing, {"b"}, "bad", "", "on_success")],
     [a |-> PageTask("copy", Given([src |-> Quoted("x"), extra |-> Seven]), {}, "one", "", "on_success"),
      b |-> PageTask("copy", Given([src |-> Quoted("")]), {}, "one", "", "on_failure")]}

P == INSTANCE PipelinePage
     WITH Names <- {"a", "b", "c"}, Drafts <- PageDrafts, Parameters <- [copy |-> {"src", "dst"}, run |-> {}],
          Json <- ("7" :> Seven) @@ ("'7'" :> Quoted("7")) @@ ("''" :> Quoted("")), MaxSteps <- 5,
          tasks <- drawn, at <- placed

PageOff == drawn = Off /\ placed = Off /\ canvas = Off /\ form = Off /\ typed = Off /\ ticked = Off

-----------------------------------------------------------------------------
(* Action lists: known, opaque and unknown actions, positional arguments, elements that are no action *)

Param(type, required, default) == [type |-> type, required |-> required, default |-> default]

Signatures ==
    [copy |-> [src |-> Param("text", TRUE, ""), n |-> Param("number", FALSE, "3")],
     list |-> [opt |-> Param("text", FALSE, ""), deep |-> Param("flag", FALSE, "true")]]

Listed(name, kind, kw) == [name |-> name, payload |-> [kind |-> kind, kw |-> kw]]

Value(k, v) == [k |-> k, v |-> v]

ActionLists ==
    {<<>>,
     <<Listed("copy", "map", [src |-> Quoted("7"), n |-> Value("num", "9999999")]),
       Listed("list", "map", [opt |-> Value("null", "")])>>,
     <<Listed("copy", "map", [src |-> Value("bool", "true"), n |-> Quoted("word")]),
       Listed("gone", "map", [a |-> Value("map", "m")]), Listed("raw", "map", [a |-> Quoted("x")])>>,
     <<Listed("copy", "list", <<>>), Listed("list", "map", [deep |-> Value("num", "0")])>>,
     <<Listed("raw", "map", <<>>), Listed("odd", "odd", <<>>)>>}

L == INSTANCE ActionListEditor
     WITH Signature <- Signatures, Opaque <- {"raw"}, Lists <- ActionLists, MaxSteps <- 4,
          Json <- ("7" :> Seven) @@ ("9999999" :> Value("num", "9999999")) @@ ("true" :> Value("bool", "true"))

ListOff == ed = Off /\ raw = Off /\ rawOn = Off /\ disk = Off /\ job = Off

-----------------------------------------------------------------------------
(* Inputs: a chain of three; texts with up to two placeholders, alone, in a list or in a tuple *)

Text(pieces) == [kind |-> "text", pieces |-> pieces, items |-> <<>>]

Word(name) == [kind |-> "plain", name |-> name]

Ref(kind, name) == [kind |-> kind, name |-> name]

Number == [kind |-> "number", pieces |-> <<Word("7")>>, items |-> <<>>]

Inside(kind, items) == [kind |-> kind, pieces |-> <<>>, items |-> items]

Texts ==
    {Text(<<r>>) : r \in {Word("w"), Ref("other", "env"), Ref("params", "p"), Ref("params", "q"), Ref("tasks", "a"),
                          Ref("tasks", "b"), Ref("tasks", "malformed")}}
    \union {Text(<<Word("w"), r>>) : r \in {Ref("params", "p"), Ref("tasks", "a")}}

ChainTask(name, args, deps, when, key) == [name |-> name, args |-> args, deps |-> deps, when |-> when, key |-> key]

ChainBooks ==
    {[params |-> [p |-> Text(<<Ref("tasks", "a")>>)],
      tasks |-> [a |-> ChainTask(name, Inside("list", <<>>), {}, "on_success", key),
                 b |-> ChainTask(Text(<<Word("copy")>>), Inside("map", <<Number, text>>), {"a"}, when, Text(<<Word("k")>>)),
                 c |-> ChainTask(Text(<<Word("copy")>>), Inside("list", <<Inside(kind, <<text>>)>>), {"b"}, "always",
                                 Text(<<>>))]] :
        name \in {Text(<<Word("copy")>>), Text(<<Word("gone")>>), Text(<<Ref("params", "q")>>)},
        key \in {Text(<<Ref("params", "q")>>), Text(<<Ref("tasks", "a")>>), Text(<<Word("k"), Ref("params", "p")>>)},
        when \in {"on_success", "always"}, text \in Texts, kind \in {"list", "tuple"}}
    \union {[params |-> <<>>, tasks |-> <<>>]}

I == INSTANCE PipelineInputs
     WITH Books <- ChainBooks, Givens <- {<<>>, [q |-> Number]}, Known <- {Word("copy")}, ParamNames <- {"p", "q"},
          Returned <- {Number}, stage <- inStage, state <- inState

InputsOff ==
    /\ book = Off /\ given = Off /\ inStage = Off /\ inState = Off /\ returned = Off /\ called = Off /\ flagged = Off

-----------------------------------------------------------------------------
draftVars == <<file, layout, header, tasks, at, revision, saved, notes, made>>

editorVars == <<calls, recorded, executing, tracked, cancelled, page, shown, bad>>

pageVars == <<drawn, placed, canvas, form, typed, ticked>>

listVars == <<ed, raw, rawOn, disk, job>>

inputVars == <<book, given, inStage, inState, returned, called, flagged>>

MCvars == <<component, vars, draftVars, editorVars, pageVars, listVars, inputVars, steps>>

MCInit ==
    /\ Init
    /\ component \in {"runs", "draft", "editor", "page", "list", "inputs"}
    /\ component # "runs" => ~durable
    /\ IF component = "draft" THEN D!DraftInit ELSE DraftOff
    /\ IF component = "editor" THEN E!EditorInit ELSE EditorOff
    /\ IF component = "page" THEN P!PageInit ELSE PageOff
    /\ IF component = "list" THEN L!ListInit ELSE ListOff
    /\ IF component = "inputs" THEN I!InputInit ELSE InputsOff
    /\ steps = 0

Alone(action) ==
    component = "runs" /\ action /\ UNCHANGED <<component, draftVars, editorVars, pageVars, listVars, inputVars, steps>>

MCNext ==
    \/ Alone(Next)
    \/ component = "draft" /\ D!DraftNext /\ UNCHANGED <<component, vars, editorVars, pageVars, listVars, inputVars, steps>>
    \/ component = "editor" /\ E!EditorNext /\ UNCHANGED <<component, vars, draftVars, pageVars, listVars, inputVars, steps>>
    \/ component = "page" /\ P!PageNext /\ UNCHANGED <<component, vars, draftVars, editorVars, listVars, inputVars>>
    \/ component = "list" /\ L!ListNext /\ UNCHANGED <<component, vars, draftVars, editorVars, pageVars, inputVars>>
    \/ component = "inputs" /\ I!InputNext
       /\ UNCHANGED <<component, vars, draftVars, editorVars, pageVars, listVars, steps>>

\* The fairness of PipelineRuns!FairSpec
MCSpec ==
    /\ MCInit /\ [][MCNext]_MCvars
    /\ \A r \in Runs :
          WF_MCvars(Alone(EngineStep(r))) /\ WF_MCvars(Alone(Run(r))) /\ WF_MCvars(Alone(Resume(r)))

\* PipelineDraft: edits of a sound graph, refused ones included, keep it sound; exactly the definitions
\* that can be run are accepted; and a draft that is not marked as modified is what is on disk.
\* PipelineEditor: no run is executed twice at the same time, when nobody presses Resume twice, and the
\* page stops following at the end of the run it follows.  PipelineInputs: what validation lets through
\* can be called, with the results of the tasks it names.
AuthoringSound ==
    /\ component = "draft" => D!DraftGraphSound /\ D!ValidationExact /\ D!CleanMeansSaved
    /\ component = "editor" => E!OneExecutorPerRun /\ E!StopsAtTheEnd
    /\ component = "inputs" => I!InputsAgree

\* PipelinePage: canvas, form and draft stay in step, and no drawn arrow is undone by Apply.
\* ActionListEditor: what is run is what the list and its form showed.
ScreensAreTrue ==
    /\ component = "page" => P!PageInStep
    /\ component = "list" => L!RunsWhatIsShown

\* PipelinePage: Apply changes what was typed and nothing else.  PipelineDraft: renaming a task leaves a
\* valid draft valid.  PipelineEditor: what executes stays within reach of cancel.
StepsAreExact ==
    [][/\ component = "page" => P!ApplyIsExact
       /\ component = "draft" => D!RenameKeepsValid
       /\ component = "editor" => E!LiveStaysTracked]_MCvars

\* ActionListEditor: every button changes the list as it says.
ListEditsExact == [][component = "list" => L!ListEditsExact]_MCvars

\* ActionListEditor: json_editor_tab.py:5, "the tree and the textarea stay in sync".
RawInSync == component = "list" => L!RawInSync
=============================================================================
