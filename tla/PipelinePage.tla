----------------------------- MODULE PipelinePage -----------------------------
(* The page that edits a pipeline draft (ui/pages/pipelines_page.py): the     *)
(* canvas (pipeline_canvas.py), the form of the selected task (task_form.py)  *)
(* and the conversions of its arguments (app/arguments.py).  The canvas and   *)
(* the form are listeners: every change of the draft rebuilds the canvas,     *)
(* which reports its selection, which the page passes on to the form.         *)
(*                                                                            *)
(* A task has an action, arguments, dependencies, a retry rule, a timeout and *)
(* a condition; the idempotency key is treated as the action is.  An argument *)
(* value is [k, v]: its JSON type and its text.  The colours of a run's       *)
(* statuses and the drawing are left out.                                     *)
EXTENDS Naturals, SequencesExt, FiniteSetsExt, TLC

CONSTANTS
    Names,      \* valid task IDs
    Drafts,     \* the drafts a user may open, functions from task IDs to tasks
    Parameters, \* Parameters[a]: the parameters of action a
    Json,       \* what JSON reading makes of the texts that are JSON
    MaxSteps    \* bound on what the user does

VARIABLES
    tasks, at,  \* the draft: its tasks and their columns
    canvas,     \* nodes (their columns), edges, the selection in order, the selected arrow
    form,       \* the form's fields
    typed,      \* history: the fields typed into since the form was filled
    ticked,     \* history: the dependencies ticked or cleared since they were filled in
    steps

pageVars == <<tasks, at, canvas, form, typed, ticked, steps>>

Nobody == "nobody"

NoArguments == [kind |-> "none", kw |-> <<>>]

Keywords(kw) == [kind |-> "map", kw |-> kw]

NoArrow == <<>>

\* The draft's own operators on the tasks and their columns
D == INSTANCE PipelineDraft
     WITH Documents <- {}, MaxEdits <- 0, file <- {}, layout <- {}, header <- "", revision <- 0, saved <- 0,
          notes <- {}, made <- 0

-----------------------------------------------------------------------------
(* Arguments as text *)

Str(v) == [k |-> "str", v |-> v]

\* parse_argument_text
ParseArgumentText(text) == IF text \in DOMAIN Json THEN Json[text] ELSE Str(text)

\* Bug: a text that reads as JSON is not put in quotes.
FormatUnquoted(value) == value.v

\* format_argument_value: JSON text, but a plain text as it is
FormatArgumentValue(value) ==
    IF value.k = "str" /\ value.v # "" /\ value.v \notin DOMAIN Json THEN value.v
    ELSE CHOOSE text \in DOMAIN Json : Json[text] = value

\* _fill_table: a row for each parameter, empty when it is not given, then the other arguments
FillTable(kw, action) ==
    [p \in Parameters[action] \union DOMAIN kw |->
        IF p \in DOMAIN kw THEN FormatArgumentValue(kw[p]) ELSE ""]

\* _table_arguments: an empty row is not passed
TableArguments(rows) ==
    LET given == {p \in DOMAIN rows : rows[p] # ""} IN [p \in given |-> ParseArgumentText(rows[p])]

OrNone(kw) == IF kw = <<>> THEN NoArguments ELSE Keywords(kw)

\* ArgumentsEditor.set_arguments: a positional list is shown as JSON
SetArguments(f, arguments, action) ==
    [f EXCEPT !.rows = FillTable(arguments.kw, action), !.text = arguments, !.json = arguments.kind = "list"]

\* ArgumentsEditor.arguments
Arguments(f) == IF f.json THEN f.text ELSE OrNone(TableArguments(f.rows))

Unusable(arguments) == arguments.kind \in {"broken", "scalar"}

\* _on_mode_toggled: to JSON text; back, what the text names is typed into the
\* table, unless it has no rows to become.
Toggled(f) ==
    IF ~f.json THEN [f EXCEPT !.json = TRUE, !.text = OrNone(TableArguments(f.rows))]
    ELSE IF f.text.kind \in {"broken", "scalar", "list"} THEN f
    ELSE [f EXCEPT !.json = FALSE,
                   !.rows = [p \in DOMAIN f.text.kw |-> FormatArgumentValue(f.text.kw[p])] @@ f.rows]

-----------------------------------------------------------------------------
(* The numbers of a task as the form shows them *)

\* The seconds boxes have one decimal; a retry rule that is not numbers raises.
RoundedRetry(retry) == IF retry = "fine" THEN "coarse" ELSE retry

\* The format :g has six digits.
ShownTimeout(timeout) == IF timeout = "1234567" THEN "1.23457e+06" ELSE timeout

TimeoutValue(text) == IF text = "1.23457e+06" THEN "1234570" ELSE text

WhenChoices == {"on_success", "on_failure", "always"}

-----------------------------------------------------------------------------
(* TaskForm *)

\* _fill_dependencies
FillDependencies(f, entries, t) == [f EXCEPT !.deps = entries[t].deps \intersect (DOMAIN entries \ {t})]

\* _load: fields in this order; the retry rule that raises leaves the later ones as they were.
Loaded(f, entries, t) ==
    LET task == entries[t]
        first == FillDependencies(SetArguments([f EXCEPT !.task = t, !.id = t, !.action = task.action],
                                               task.args, task.action), entries, t)
    IN  IF task.retry = "bad" THEN first
        ELSE [first EXCEPT !.retry = RoundedRetry(task.retry), !.timeout = ShownTimeout(task.timeout),
                           !.when = IF task.when \in WhenChoices THEN task.when ELSE @]

\* Bug: the task that is shown already keeps its list of dependencies.
ShowTaskOnce(f, entries, t) ==
    IF t \notin DOMAIN entries THEN [f EXCEPT !.task = Nobody]
    ELSE IF t = f.task THEN f
    ELSE Loaded(f, entries, t)

ShowTask(f, entries, t) ==
    IF t \notin DOMAIN entries THEN [f EXCEPT !.task = Nobody]
    ELSE IF t = f.task THEN FillDependencies(f, entries, t)
    ELSE Loaded(f, entries, t)

LastSelected(order) == IF order = <<>> THEN Nobody ELSE Last(order)

\* _on_selection of the page: the form shows the task selected last.
OnSelection(entries, order) ==
    LET t == LastSelected(order) IN
    /\ form' = ShowTask(form, entries, t)
    /\ typed' = IF t = form.task THEN typed ELSE {}
    /\ ticked' = {}

-----------------------------------------------------------------------------
(* PipelineCanvas *)

EdgesOf(entries) == {<<u, t>> \in (DOMAIN entries) \X (DOMAIN entries) : u \in entries[t].deps}

\* sync: everything is built anew, of the selection what still exists
Synced(entries, columns, order) ==
    [nodes |-> columns, edges |-> EdgesOf(entries),
     order |-> SelectSeq(order, LAMBDA t : t \in DOMAIN entries), arrow |-> NoArrow]

\* _on_draft_changed of the canvas after a change of tasks or arrows, and what it sets off
DraftChanged(entries, columns) ==
    /\ tasks' = entries /\ at' = columns
    /\ canvas' = Synced(entries, columns, canvas.order)
    /\ OnSelection(entries, canvas'.order)

\* select_tasks, a click or a rubber band (_on_selection_changed)
Select(order) ==
    /\ ToSet(order) \subseteq DOMAIN canvas.nodes
    /\ canvas' = [canvas EXCEPT !.order = order, !.arrow = NoArrow]
    /\ OnSelection(tasks, order)
    /\ UNCHANGED <<tasks, at>>

SelectEdge(edge) ==
    /\ edge \in canvas.edges
    /\ canvas' = [canvas EXCEPT !.order = <<>>, !.arrow = edge]
    /\ OnSelection(tasks, <<>>)
    /\ UNCHANGED <<tasks, at>>

\* _node_moved writes the position back; its own notification is ignored.
Drag(t, column) ==
    /\ t \in DOMAIN canvas.nodes /\ canvas.nodes[t] # column
    /\ at' = [at EXCEPT ![t] = column]
    /\ canvas' = [canvas EXCEPT !.nodes[t] = column]
    /\ UNCHANGED <<tasks, form, typed, ticked>>

\* auto_layout, then _place_nodes
AutoLayout ==
    /\ at' = D!Levels(tasks)
    /\ canvas' = [canvas EXCEPT !.nodes = at']
    /\ UNCHANGED <<tasks, form, typed, ticked>>

-----------------------------------------------------------------------------
(* The page's buttons *)

\* set_draft of the canvas and of the form
Open(draft) ==
    /\ tasks' = draft /\ at' = D!Levels(draft)
    /\ canvas' = Synced(draft, at', <<>>)
    /\ form' = [form EXCEPT !.task = Nobody]
    /\ typed' = {} /\ ticked' = {}

NewTask(action) ==
    [action |-> action, args |-> NoArguments, deps |-> {}, retry |-> "one", timeout |-> "", when |-> "on_success"]

\* add_task, from the palette or dropped: the new task is selected.
AddTask(t, action) ==
    LET entries == tasks @@ (t :> NewTask(action)) IN
    /\ t \in Names \ DOMAIN tasks
    /\ tasks' = entries /\ at' = at @@ (t :> 0)
    /\ canvas' = Synced(entries, at', <<t>>)
    /\ OnSelection(entries, <<t>>)

Without(entries, gone) ==
    [t \in DOMAIN entries \ gone |-> [entries[t] EXCEPT !.deps = @ \ gone]]

\* remove_selected: the arrow, or else the tasks
RemoveSelected ==
    \/ /\ canvas.arrow # NoArrow
       /\ DraftChanged([tasks EXCEPT ![canvas.arrow[2]].deps = @ \ {canvas.arrow[1]}], at)
    \/ /\ canvas.arrow = NoArrow /\ canvas.order # <<>>
       /\ LET kept == Without(tasks, ToSet(canvas.order))
          IN  DraftChanged(kept, [t \in DOMAIN kept |-> at[t]])

\* connect_selected: the task selected second depends on the first.
ConnectSelected ==
    /\ Len(canvas.order) = 2
    /\ LET up == canvas.order[1]
           down == canvas.order[2]
       IN  /\ ~D!Refused(tasks, up, down) /\ up \notin tasks[down].deps
           /\ DraftChanged([tasks EXCEPT ![down].deps = @ \union {up}], at)

\* disconnect_selected: the arrow, or both directions between two tasks
DisconnectSelected ==
    LET pairs == IF canvas.arrow # NoArrow THEN {canvas.arrow}
                 ELSE IF Len(canvas.order) = 2 THEN {canvas.order, Reverse(canvas.order)} ELSE {}
        cut == pairs \intersect EdgesOf(tasks)
    IN  /\ cut # {}
        /\ DraftChanged([t \in DOMAIN tasks |->
                            [tasks[t] EXCEPT !.deps = {u \in @ : <<u, t>> \notin cut}]], at)

-----------------------------------------------------------------------------
(* Typing into the form *)

Type(f, field) ==
    /\ form.task # Nobody
    /\ form' = f
    /\ typed' = typed \union {field}
    /\ UNCHANGED <<tasks, at, canvas, ticked>>

\* _on_action_changed: the rows follow the signature of the action typed, with the values given.
TypeAction(action) ==
    LET f == [form EXCEPT !.action = action]
    IN  Type(IF form.json THEN f ELSE SetArguments(f, Arguments(form), action), "action")

TypeRow(p, text) == ~form.json /\ p \in DOMAIN form.rows /\ Type([form EXCEPT !.rows[p] = text], "args")

TypeJson(text) == form.json /\ Type([form EXCEPT !.text = text], "args")

\* set_json_mode; not a field of the task
ToggleJson ==
    /\ form.task # Nobody /\ form' = Toggled(form)
    /\ UNCHANGED <<tasks, at, canvas, typed, ticked>>

Tick(u) ==
    /\ form.task \in DOMAIN tasks /\ u \in DOMAIN tasks \ {form.task}
    /\ form' = [form EXCEPT !.deps = SymDiff(@, {u})]
    /\ ticked' = ticked \union {u}
    /\ UNCHANGED <<tasks, at, canvas, typed>>

\* revert
Revert ==
    /\ form.task # Nobody
    /\ form' = ShowTask([form EXCEPT !.task = Nobody], tasks, form.task)
    /\ typed' = {} /\ ticked' = {}
    /\ UNCHANGED <<tasks, at, canvas>>

-----------------------------------------------------------------------------
(* Apply *)

\* set_dependencies: unwanted arrows go, then the wanted ones are made until one is refused.
WithDependencies(entries, t, wanted) ==
    LET connect(acc, up) ==
            IF acc.raised \/ D!Refused(acc.tasks, up, t) THEN [acc EXCEPT !.raised = TRUE]
            ELSE [acc EXCEPT !.tasks[t].deps = @ \union {up}]
    IN  FoldLeft(connect, [tasks |-> [entries EXCEPT ![t].deps = @ \intersect wanted], raised |-> FALSE],
                 SetToSeq(wanted))

\* rename_task; placeholders are left to PipelineDraft
Renamed(map, old, new) == [u \in D!Renamed(DOMAIN map, old, new) |-> map[IF u = new THEN old ELSE u]]

RenamedTasks(entries, old, new) ==
    [u \in D!Renamed(DOMAIN entries, old, new) |->
        [Renamed(entries, old, new)[u] EXCEPT !.deps = D!Renamed(@, old, new)]]

\* _write up to the rename: what the draft holds and whether a field was refused
Written(entries, t) ==
    LET first == [entries EXCEPT ![t].action = form.action, ![t].args = Arguments(form)]
        linked == WithDependencies(first, t, form.deps)
    IN  IF linked.raised THEN linked
        ELSE [linked EXCEPT !.tasks[t].retry = form.retry, !.tasks[t].timeout = TimeoutValue(form.timeout),
                            !.tasks[t].when = form.when]

\* Arguments that are not JSON and a timeout that is not a number change nothing.
Unreadable == Unusable(Arguments(form)) \/ form.timeout = "junk"

Refused(written) ==
    written.raised \/ (form.id # form.task /\ (form.id \notin Names \/ form.id \in DOMAIN tasks))

\* A refusal half way keeps what was written and typed; the form ignores the
\* canvas while it applies.
ApplyRefused ==
    /\ form.task # Nobody /\ ~Unreadable
    /\ LET written == Written(tasks, form.task) IN
       /\ Refused(written)
       /\ tasks' = written.tasks
       /\ canvas' = Synced(tasks', at, canvas.order)
    /\ UNCHANGED <<at, form, typed, ticked>>

\* Accepted: the rename comes last, the form is filled again and the canvas selects the task.
ApplyAccepted ==
    /\ form.task # Nobody /\ ~Unreadable
    /\ LET written == Written(tasks, form.task) IN
       /\ ~Refused(written)
       /\ tasks' = RenamedTasks(written.tasks, form.task, form.id)
       /\ at' = Renamed(at, form.task, form.id)
       /\ canvas' = Synced(tasks', at', <<form.id>>)
       /\ form' = ShowTask([form EXCEPT !.task = Nobody], tasks', form.id)
       /\ typed' = {} /\ ticked' = {}

-----------------------------------------------------------------------------
EmptyForm ==
    [task |-> Nobody, id |-> "", action |-> "", rows |-> <<>>, json |-> FALSE, text |-> NoArguments, deps |-> {},
     retry |-> "one", timeout |-> "", when |-> "on_success"]

PageInit ==
    /\ tasks \in Drafts /\ at = D!Levels(tasks)
    /\ canvas = Synced(tasks, at, <<>>)
    /\ form = EmptyForm /\ typed = {} /\ ticked = {} /\ steps = 0

OnTheCanvas ==
    \/ \E t, u \in Names : Select(<<t>>) \/ (t # u /\ Select(<<t, u>>)) \/ SelectEdge(<<t, u>>)
    \/ \E t \in Names : AddTask(t, "copy") \/ Drag(t, 1)
    \/ AutoLayout \/ RemoveSelected \/ ConnectSelected \/ DisconnectSelected
    \/ \E draft \in Drafts : Open(draft)

InTheForm ==
    \/ \E id \in Names \union {"?"} : Type([form EXCEPT !.id = id], "id")
    \/ \E action \in DOMAIN Parameters : TypeAction(action)
    \/ \E p \in DOMAIN form.rows, text \in {"", "7"} : TypeRow(p, text)
    \/ \E kind \in {"broken", "scalar", "none"} : TypeJson([kind |-> kind, kw |-> <<>>])
    \/ \E text \in {"junk", "5"} : Type([form EXCEPT !.timeout = text], "timeout")
    \/ \E u \in Names : Tick(u)
    \/ ToggleJson \/ Revert \/ ApplyRefused \/ ApplyAccepted

PageNext == steps < MaxSteps /\ steps' = steps + 1 /\ (OnTheCanvas \/ InTheForm)

-----------------------------------------------------------------------------
\* Whatever was typed, drawn, applied or refused, the canvas shows the draft, the form shows the task
\* selected last, and the form's list of dependencies differs from the draft's only where the user
\* ticked it: an arrow drawn on the canvas is not undone by the next Apply (docstring of show_task).
PageInStep ==
    /\ canvas.nodes = at /\ canvas.edges = EdgesOf(tasks)
    /\ ToSet(canvas.order) \subseteq DOMAIN tasks
    /\ form.task = LastSelected(canvas.order)
    /\ form.task # Nobody => SymDiff(form.deps, tasks[form.task].deps) \subseteq ticked

\* What the form can show without loss
Fits(task) == task.retry \notin {"fine", "bad"} /\ task.timeout # "1234567" /\ task.when \in WhenChoices

\* A step that applies the form, accepted or not, changes no other task's fields, and of the task it
\* shows only what was typed or ticked, when the form can show its numbers without loss; switching the
\* arguments to JSON and back is not a change.
ApplyIsExact ==
    (ApplyAccepted \/ ApplyRefused) /\ Fits(tasks[form.task]) =>
        LET old == form.task
            new == IF ApplyAccepted THEN form.id ELSE old
            before == tasks[old]
            after == tasks'[new]
        IN  /\ \A t \in DOMAIN tasks \ {old} :
                  tasks'[t] = [tasks[t] EXCEPT !.deps = D!Renamed(@, old, new)]
            /\ "action" \notin typed => after.action = before.action
            /\ "args" \notin typed => after.args = before.args
            /\ "timeout" \notin typed => after.timeout = before.timeout
            /\ after.retry = before.retry /\ after.when = before.when
            /\ SymDiff(after.deps, before.deps) \subseteq ticked
=============================================================================
