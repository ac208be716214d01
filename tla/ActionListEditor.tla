--------------------------- MODULE ActionListEditor ---------------------------
(* The JSON action editor (ui/tabs/json_editor_tab.py): a list of actions, a  *)
(* form for the selected one made from its signature, the same list as raw    *)
(* JSON, and runs of the list on a worker thread (ui/worker.py).              *)
(*                                                                            *)
(* An action is [name, payload]; a payload is keyword arguments, positional   *)
(* arguments or absent, an argument value [k, v] its JSON type and its text.  *)
(* An element of the list that cannot be indexed is Odd.  Row 0 is "none".    *)
(* An exception inside a handler ends that handler, as Qt reports it and      *)
(* goes on.                                                                   *)
EXTENDS Naturals, SequencesExt, FiniteSetsExt, TLC

CONSTANTS
    Signature, \* Signature[a][p]: [type, required, default] of parameter p of the known action a
    Opaque,    \* known actions whose signature cannot be read
    Json,      \* what json.loads or int makes of the texts that _parse_maybe_json tries
    Lists,     \* lists that may be typed or loaded
    MaxSteps   \* bound on what the user does

VARIABLES
    ed,        \* _actions, the current row, whether the list's signals are blocked, _current_form
    raw, rawOn,
    disk,      \* the file last saved to
    job,       \* the run on the worker thread
    steps

listVars == <<ed, raw, rawOn, disk, job, steps>>

Odd == [name |-> "odd", payload |-> [kind |-> "odd", kw |-> <<>>]]

Payload(kind, kw) == [kind |-> kind, kw |-> kw]

Action(name, kw) == [name |-> name, payload |-> Payload("map", kw)]

NoForm == [row |-> 0, name |-> "", fields |-> <<>>, text |-> Payload("none", <<>>)]

Known(name) == name \in DOMAIN Signature \union Opaque

-----------------------------------------------------------------------------
(* Fields *)

Str(v) == [k |-> "str", v |-> v]

Num(v) == [k |-> "num", v |-> v]

Bool(b) == [k |-> "bool", v |-> b]

\* _parse_maybe_json: only texts that begin like JSON or are digits are read as JSON.
ParseMaybeJson(text) == IF text \in DOMAIN Json THEN Json[text] ELSE Str(text)

\* str(value) as a line edit shows it: None as nothing, a mapping in Python's notation
LineText(value) ==
    CASE value.k = "null" -> ""
      [] value.k = "bool" -> (IF value.v = "true" THEN "True" ELSE "False")
      [] value.k = "map" -> "{'a': 1}"
      [] OTHER -> value.v

Truth(value) ==
    IF value.k = "null" \/ value.v \in {"", "0", "false"} THEN "false" ELSE "true"

\* int(value) raises for a text that is not a number, and for a mapping.
IsNumber(value) ==
    \/ value.k \in {"null", "bool", "num"}
    \/ value.k = "str" /\ value.v \in DOMAIN Json /\ Json[value.v].k = "num"

\* The box is limited to a million.
Clamped(v) == IF v = "9999999" THEN "1000000" ELSE v

NumberText(value) ==
    CASE value.k = "null" -> "0"
      [] value.k = "bool" -> (IF value.v = "true" THEN "1" ELSE "0")
      [] OTHER -> Clamped(value.v)

\* The setters of _build_line_edit, _build_spinbox and _build_checkbox
FieldText(type, value) ==
    CASE type = "text" -> LineText(value)
      [] type = "number" -> NumberText(value)
      [] type = "flag" -> Truth(value)

\* Their getters
FieldValue(type, text) ==
    CASE type = "text" -> ParseMaybeJson(text)
      [] type = "number" -> Num(text)
      [] type = "flag" -> Bool(text)

-----------------------------------------------------------------------------
(* _ActionForm *)

\* to_kwargs: an optional field without text is left out; raw text that is not an object is empty.
ToKwargs(form) ==
    IF form.name \in Opaque THEN (IF form.text.kind = "map" THEN form.text.kw ELSE <<>>)
    ELSE LET sig == Signature[form.name]
             value(p) == FieldValue(sig[p].type, form.fields[p])
             given == {p \in DOMAIN sig : value(p) # Str("") \/ sig[p].required}
         IN  [p \in given |-> value(p)]

\* _unpack_action: positional arguments have no names to show.
UnpackKwargs(action) == IF action.payload.kind = "map" THEN action.payload.kw ELSE <<>>

LoadRaises(action) ==
    /\ action.name \in DOMAIN Signature
    /\ \E p \in DOMAIN UnpackKwargs(action) \intersect DOMAIN Signature[action.name] :
          Signature[action.name][p].type = "number" /\ ~IsNumber(UnpackKwargs(action)[p])

\* The constructor fills in the defaults, load_kwargs what the action gives.
NewForm(row, action) ==
    LET kw == UnpackKwargs(action) IN
    IF action.name \in Opaque
    THEN [row |-> row, name |-> action.name, fields |-> <<>>, text |-> Payload("map", kw)]
    ELSE LET sig == Signature[action.name] IN
         [row |-> row, name |-> action.name, text |-> Payload("none", <<>>),
          fields |-> [p \in DOMAIN sig |->
                        IF p \in DOMAIN kw THEN FieldText(sig[p].type, kw[p]) ELSE sig[p].default]]

-----------------------------------------------------------------------------
(* JSONEditorTab, as operators on its state *)

\* _commit_current_form
Commit(e) ==
    IF e.form.row \in DOMAIN e.actions
    THEN [e EXCEPT !.actions[e.form.row] = Action(e.form.name, ToKwargs(e.form))]
    ELSE e

ClearForm(e) == [e EXCEPT !.form = NoForm]

\* _on_row_changed
RowChanged(e, row) ==
    LET c == ClearForm(Commit(e)) IN
    IF row \notin DOMAIN c.actions THEN c
    ELSE LET action == c.actions[row]
         IN  IF ~Known(action.name) \/ LoadRaises(action) THEN c
             ELSE [c EXCEPT !.form = NewForm(row, action)]

\* _summary_for raises on such an element.
Raises(actions) == Odd \in ToSet(actions)

\* _refresh_list: signals are blocked while the rows are made; the selection is lost and set again.
Refresh(e, select) ==
    IF Raises(e.actions) THEN [e EXCEPT !.blocked = TRUE, !.row = 0]
    ELSE LET c == [e EXCEPT !.blocked = FALSE, !.row = 0] IN
         IF select \in DOMAIN c.actions THEN RowChanged([c EXCEPT !.row = select], select)
         ELSE IF c.actions = <<>> THEN RowChanged(c, 0)
         ELSE c

Text(list) == [kind |-> "list", list |-> list]

\* _sync_raw_from_model, not reached when the refresh raised
SyncRaw(e) == raw' = IF Raises(e.actions) THEN raw ELSE Text(e.actions)

\* The running job works on the very list the editor changes, until the editor takes another one.
Shares(e) ==
    job' = IF job.pc = "running" /\ job.shared /\ e.actions # ed.actions THEN [job EXCEPT !.edited = TRUE] ELSE job

Parts == job' = IF job.shared THEN [job EXCEPT !.shared = FALSE, !.list = ed.actions] ELSE job

\* A handler that changes the list in place
InPlace(e) == ed' = e /\ SyncRaw(e) /\ Shares(e) /\ UNCHANGED <<rawOn, disk>>

\* _on_add
Add(name) ==
    LET e == Commit(ed)
        longer == [e EXCEPT !.actions = Append(@, Action(name, <<>>))]
    IN  InPlace(Refresh(longer, Len(longer.actions)))

\* _on_duplicate
Duplicate ==
    LET e == Commit(ed) IN
    /\ ed.row # 0
    /\ InPlace(Refresh([e EXCEPT !.actions = InsertAt(@, ed.row + 1, @[ed.row])], ed.row + 1))

\* Bug: the form of the removed action is still open when the rows are made again.
RemovedKeepingForm(e) ==
    Refresh([e EXCEPT !.actions = RemoveAt(@, e.row)], Min({e.row, Len(e.actions) - 1}))

\* _on_remove
Removed(e) ==
    LET shorter == [e EXCEPT !.actions = RemoveAt(@, e.row)]
    IN  Refresh(ClearForm(shorter), Min({e.row, Len(shorter.actions)}))

RemoveRow == ed.row # 0 /\ InPlace(Removed(ed))

Swapped(list, i, j) == [list EXCEPT ![i] = list[j], ![j] = list[i]]

\* _on_move to the row below or above; the form still belongs to the old row
Move(target) ==
    LET e == Commit(ed) IN
    /\ ed.row # 0 /\ target \in DOMAIN ed.actions /\ target \in {ed.row - 1, ed.row + 1}
    /\ InPlace(Refresh([e EXCEPT !.actions = Swapped(@, ed.row, target)], target))

\* A click on another row
SelectRow(row) ==
    /\ row \in DOMAIN ed.actions \ {ed.row}
    /\ ed' = IF ed.blocked THEN [ed EXCEPT !.row = row] ELSE RowChanged([ed EXCEPT !.row = row], row)
    /\ Shares(ed')
    /\ UNCHANGED <<raw, rawOn, disk>>

\* Typing into a field of the form, or picking a file for it
TypeField(p, text) ==
    /\ p \in DOMAIN ed.form.fields
    /\ ed' = [ed EXCEPT !.form.fields[p] = text]
    /\ UNCHANGED <<raw, rawOn, disk, job>>

TypeText(text) ==
    /\ ed.form.name \in Opaque
    /\ ed' = [ed EXCEPT !.form.text = text]
    /\ UNCHANGED <<raw, rawOn, disk, job>>

\* _load_path, from the dialog or dropped; a file that is no list changes nothing
Load(list) ==
    /\ ed' = Refresh(ClearForm([ed EXCEPT !.actions = list]), 1)
    /\ SyncRaw(ed') /\ Parts
    /\ UNCHANGED <<rawOn, disk>>

\* _on_clear
Clear ==
    /\ ed' = Refresh(ClearForm([ed EXCEPT !.actions = <<>>]), 0)
    /\ SyncRaw(ed') /\ Parts
    /\ UNCHANGED <<rawOn, disk>>

\* _on_save: cancelled in the dialog, written, or failed after the file was opened
Save(outcome) ==
    /\ ed' = Commit(ed) /\ Shares(ed')
    /\ disk' = CASE outcome = "cancelled" -> disk
                 [] outcome = "written" -> Text(ed'.actions)
                 [] outcome = "failed" -> [kind |-> "broken", list |-> <<>>]
    /\ UNCHANGED <<raw, rawOn>>

\* _on_raw_toggled
ToggleRaw ==
    /\ rawOn' = ~rawOn
    /\ ed' = IF rawOn THEN ed ELSE Commit(ed)
    /\ raw' = IF rawOn THEN raw ELSE Text(ed'.actions)
    /\ Shares(ed')
    /\ UNCHANGED disk

\* _on_raw_changed: text that is not a list, or not JSON yet, is ignored.
TypeRaw(text) ==
    /\ rawOn /\ raw' = text
    /\ IF text.kind \in {"list", "empty"}
       THEN ed' = Refresh([ed EXCEPT !.actions = text.list], 1) /\ Parts
       ELSE UNCHANGED <<ed, job>>
    /\ UNCHANGED <<rawOn, disk>>

\* What the user sees: the list, with what the form shows in place of its row
Seen(e) == Commit(e).actions

\* _current_actions
CurrentActions(e) == Commit(e)

\* _on_run and _on_validate hand the list itself to the worker thread.
Run ==
    /\ job.pc # "running"
    /\ ed' = CurrentActions(ed)
    /\ ed'.actions # <<>>
    /\ job' = [pc |-> "running", shared |-> TRUE, list |-> <<>>, at |-> 1, done |-> <<>>,
               asked |-> Seen(ed), edited |-> FALSE]
    /\ UNCHANGED <<raw, rawOn, disk>>

\* The worker takes the next action of its list.
JobStep ==
    LET list == IF job.shared THEN ed.actions ELSE job.list IN
    /\ job.pc = "running"
    /\ job' = IF job.at > Len(list) THEN [job EXCEPT !.pc = "done", !.shared = FALSE]
              ELSE [job EXCEPT !.at = @ + 1, !.done = Append(@, list[job.at])]
    /\ UNCHANGED <<ed, raw, rawOn, disk>>

-----------------------------------------------------------------------------
NoJob == [pc |-> "idle", shared |-> FALSE, list |-> <<>>, at |-> 1, done |-> <<>>, asked |-> <<>>, edited |-> FALSE]

ListInit ==
    /\ ed = [actions |-> <<>>, row |-> 0, blocked |-> FALSE, form |-> NoForm]
    /\ raw = [kind |-> "empty", list |-> <<>>] /\ rawOn = FALSE
    /\ disk = [kind |-> "empty", list |-> <<>>]
    /\ job = NoJob /\ steps = 0

FieldTexts == {"", "7", "word"}

UserStep ==
    \/ \E name \in DOMAIN Signature \union Opaque : Add(name)
    \/ \E row \in 1..4 : SelectRow(row) \/ Move(row)
    \/ Duplicate \/ RemoveRow \/ Clear \/ ToggleRaw \/ Run
    \/ \E p \in DOMAIN ed.form.fields, text \in FieldTexts : TypeField(p, text)
    \/ \E text \in {Payload("map", [a |-> Str("x")]), Payload("broken", <<>>)} : TypeText(text)
    \/ \E list \in Lists : Load(list) \/ TypeRaw(Text(list))
    \/ \E kind \in {"empty", "broken"} : TypeRaw([kind |-> kind, list |-> <<>>])
    \/ \E outcome \in {"cancelled", "written", "failed"} : Save(outcome)

ListNext ==
    \/ steps < MaxSteps /\ UserStep /\ steps' = steps + 1
    \/ JobStep /\ UNCHANGED steps

ListSpec == ListInit /\ [][ListNext]_listVars

-----------------------------------------------------------------------------
\* An action as its form gives it back: a form does not keep what it cannot show.
Normal(action) ==
    IF ~Known(action.name) \/ LoadRaises(action) THEN action
    ELSE Action(action.name, ToKwargs(NewForm(1, action)))

Contents(list) == [i \in DOMAIN list |-> Normal(list[i])]

Shown(e) == Contents(Seen(e))

\* Each handler does to the actions the user sees just what its button says, whatever form was open
\* and whatever was typed into it: adding, duplicating and removing leave the others as they were,
\* looking at a row, saving, running and switching views change none, and the file gets what is seen.
\* A move with an open form is left out: there the form is committed once more, over the row that took
\* the moved action's place.  So is a form that raw text has left behind on another row.
ListEditsExact ==
    LET old == Shown(ed)
        new == Shown(ed')
    IN  ed.form.row \in {0, ed.row} =>
        /\ \A name \in DOMAIN Signature \union Opaque :
              Add(name) /\ ~Raises(ed.actions) => new = Append(old, Normal(Action(name, <<>>)))
        /\ Duplicate => new = InsertAt(old, ed.row + 1, old[ed.row])
        /\ RemoveRow => new = RemoveAt(old, ed.row)
        /\ \A row \in DOMAIN ed.actions : Move(row) /\ ed.form = NoForm => new = Swapped(old, ed.row, row)
        /\ (ToggleRaw \/ Run \/ JobStep \/ \E row \in DOMAIN ed.actions : SelectRow(row)) => new = old
        /\ Save("written") => disk'.list = Seen(ed) /\ new = old

\* A run that nobody edited under executed, in order, what the list and its form showed when it was
\* started.
RunsWhatIsShown == job.pc = "done" /\ ~job.edited => job.done = job.asked

\* json_editor_tab.py:5: "the tree and the textarea stay in sync".  Here: for a text that is a list of
\* actions, as long as no element that is none has made a refresh raise.
RawInSync == rawOn /\ raw.kind = "list" /\ ~ed.blocked => Contents(ed.actions) = Contents(raw.list)
=============================================================================
