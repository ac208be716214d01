---------------------------- MODULE PipelineInputs ----------------------------
(* What a pipeline hands to its actions: the checks of pipeline.py that let a *)
(* run start, and the substitution of ${params.<name>} and                    *)
(* ${tasks.<id>.result} when a task is called (pipeline/substitution.py).     *)
(* A text is a sequence of pieces; keys of mappings play no part.  The graph  *)
(* of a pipeline is sound here: PipelineDraft is about those that are not.    *)
EXTENDS Sequences, SequencesExt, FiniteSets, TLC

CONSTANTS
    Books,      \* pipelines: [tasks: id -> [name, args, deps, when, key], params: name -> value]
    Givens,     \* the parameters of a run: name -> value
    Known,      \* the pieces of registered action names
    ParamNames, \* every name of a parameter
    Returned    \* what an action may return

VARIABLES
    book, given,
    stage,      \* "new", "built", "running", "planned", "tested" or "refused"
    state,      \* of each task: "pending", "succeeded", "failed", "skipped" or "raised"
    returned,   \* of each task: its result, Nil unless it succeeded
    called,     \* of each task: the arguments its action was called with
    flagged     \* the tasks a dry run has something to say about

inputVars == <<book, given, stage, state, returned, called, flagged>>

Node(kind, pieces, items) == [kind |-> kind, pieces |-> pieces, items |-> items]

Piece(kind, name) == [kind |-> kind, name |-> name]

Nil == Node("null", <<>>, <<>>)

Raised == Node("raised", <<>>, <<>>)

Containers == {"map", "list", "tuple"}

-----------------------------------------------------------------------------
(* Placeholders *)

IsReference(piece) == piece.kind \in {"params", "tasks"}

References(text) == SelectSeq(text.pieces, IsReference)

Whole(text) == Len(text.pieces) = 1 /\ IsReference(text.pieces[1])

\* walk_strings
RECURSIVE WalkStrings(_)
WalkStrings(value) ==
    CASE value.kind = "text" -> {value}
      [] value.kind \in Containers -> UNION {WalkStrings(value.items[i]) : i \in DOMAIN value.items}
      [] OTHER -> {}

\* text_problems.  Where no task may be named upstream is empty; where any parameter may be, params is ParamNames.
TextProblems(text, upstream, params) ==
    {p \in ToSet(References(text)) :
        \/ p.name = "malformed"
        \/ p.kind = "tasks" /\ (~Whole(text) \/ p.name \notin upstream)
        \/ p.kind = "params" /\ p.name \notin params}

\* action_reference_problems: the name of the action is not looked at
ActionReferenceProblems(task, upstream, params) ==
    UNION {TextProblems(text, upstream, params) : text \in WalkStrings(task.args)}

\* _resolve: a task that did not succeed has no result
Resolve(piece, params, results) ==
    IF piece.name = "malformed" THEN Raised
    ELSE IF piece.kind = "tasks" THEN IF piece.name \in DOMAIN results THEN results[piece.name] ELSE Nil
    ELSE IF piece.name \in DOMAIN params THEN params[piece.name] ELSE Raised

\* str() of a value
Spelled(value) ==
    IF value.kind \in {"text", "number"} THEN value.pieces ELSE <<Piece("plain", value.kind)>>

\* _render_text: one pass, what a parameter brings along is not looked at again
RenderText(text, params, results) ==
    IF Whole(text) THEN Resolve(text.pieces[1], params, results)
    ELSE LET Value(i) == Resolve(text.pieces[i], params, results)
             Filled(i) == IF IsReference(text.pieces[i]) THEN Spelled(Value(i)) ELSE <<text.pieces[i]>>
         IN  IF \E i \in DOMAIN text.pieces : IsReference(text.pieces[i]) /\ Value(i) = Raised THEN Raised
             ELSE Node("text", FlattenSeq([i \in DOMAIN text.pieces |-> Filled(i)]), <<>>)

\* render: mappings and lists; a tuple is left as it is
RECURSIVE Render(_, _, _)
Render(value, params, results) ==
    CASE value.kind = "text" -> RenderText(value, params, results)
      [] value.kind \in {"map", "list"} ->
            LET items == [i \in DOMAIN value.items |-> Render(value.items[i], params, results)]
            IN  IF Raised \in ToSet(items) THEN Raised ELSE Node(value.kind, <<>>, items)
      [] OTHER -> value

-----------------------------------------------------------------------------
(* Building and planning *)

\* upstream_tasks: everything a task comes after
Upstream(t) ==
    LET Step(S) == S \union UNION {book.tasks[u].deps : u \in S}
        Depth == Cardinality(DOMAIN book.tasks)
        reached[n \in 0..Depth] == IF n = 0 THEN book.tasks[t].deps ELSE Step(reached[n - 1])
    IN  reached[Depth]

\* {**self.params, **(params or {})}
Merged == given @@ book.params

\* _task_problems of Pipeline.task: of the placeholders only those of the key
TaskProblems(t) == TextProblems(book.tasks[t].key, {}, ParamNames)

\* problems
Problems == UNION {ActionReferenceProblems(book.tasks[t], Upstream(t), ParamNames) : t \in DOMAIN book.tasks}

\* _input_problems of one task
InputProblems(t) ==
    ActionReferenceProblems(book.tasks[t], Upstream(t), DOMAIN Merged)
    \union TextProblems(book.tasks[t].key, {}, DOMAIN Merged)

\* from_dict and task: a pipeline is built task by task
Build ==
    /\ stage = "new"
    /\ stage' = IF \E t \in DOMAIN book.tasks : TaskProblems(t) # {} THEN "refused" ELSE "built"
    /\ UNCHANGED <<book, given, state, returned, called, flagged>>

\* _plan: what keeps a run from starting
PlanProblems(lenient) ==
    IF Problems # {} \/ lenient THEN Problems ELSE UNION {InputProblems(t) : t \in DOMAIN book.tasks}

\* run, start and resume: the engine is made when the plan holds
Start ==
    /\ stage = "built"
    /\ stage' = IF DOMAIN book.tasks = {} \/ PlanProblems(FALSE) # {} THEN "refused" ELSE "running"
    /\ UNCHANGED <<book, given, state, returned, called, flagged>>

IsKnown(name) == name.kind = "text" /\ Len(name.pieces) = 1 /\ name.pieces[1] \in Known

\* _dry_run
DryRun ==
    /\ stage = "built"
    /\ stage' = IF DOMAIN book.tasks = {} \/ PlanProblems(TRUE) # {} THEN "refused" ELSE "planned"
    /\ flagged' = {t \in DOMAIN book.tasks : InputProblems(t) # {} \/ ~IsKnown(book.tasks[t].name)}
    /\ UNCHANGED <<book, given, state, returned, called>>

-----------------------------------------------------------------------------
(* Calling *)

\* _results_for: of what came before, what succeeded
ResultsFor(t) == [u \in {v \in Upstream(t) : state[v] = "succeeded"} |-> returned[u]]

Outcome(t, how, value, arguments) ==
    /\ state' = [state EXCEPT ![t] = how]
    /\ returned' = [returned EXCEPT ![t] = value]
    /\ called' = [called EXCEPT ![t] = arguments]
    /\ UNCHANGED <<book, given, stage, flagged>>

Due(t) ==
    /\ stage = "running" /\ state[t] = "pending"
    /\ \A u \in book.tasks[t].deps : state[u] # "pending"

Wanted(t) == book.tasks[t].when = "always" \/ \A u \in book.tasks[t].deps : state[u] = "succeeded"

Skip(t) == Due(t) /\ ~Wanted(t) /\ Outcome(t, "skipped", Nil, Nil)

\* _seen_before fills the key in, then _invoke renders the action, its name included, and calls it.
Invoke(t) ==
    LET task == book.tasks[t]
        name == Render(task.name, Merged, ResultsFor(t))
        arguments == Render(task.args, Merged, ResultsFor(t))
    IN  /\ Due(t) /\ Wanted(t)
        /\ \/ /\ Raised \in {name, arguments, Render(task.key, Merged, <<>>)}
              /\ Outcome(t, "raised", Nil, Nil)
           \/ /\ Raised \notin {name, arguments, Render(task.key, Merged, <<>>)}
              /\ ~IsKnown(name) /\ Outcome(t, "failed", Nil, Nil)
           \/ /\ Raised \notin {name, arguments, Render(task.key, Merged, <<>>)} /\ IsKnown(name)
              /\ \/ Outcome(t, "failed", Nil, arguments)
                 \/ \E value \in Returned : Outcome(t, "succeeded", value, arguments)

\* PipelineService.validate: what the service has to say of a task
Faulty(t) ==
    \/ TaskProblems(t) # {} \/ ActionReferenceProblems(book.tasks[t], Upstream(t), ParamNames) # {}
    \/ ~IsKnown(book.tasks[t].name)

\* PipelineService.test_task: one task alone, behind constants that stand for what comes before it
TestTask(t, value) ==
    LET task == book.tasks[t]
        results == [u \in Upstream(t) |-> IF u \in task.deps THEN value ELSE Nil]
        refused == Faulty(t) \/ ActionReferenceProblems(task, Upstream(t), DOMAIN Merged) # {}
    IN  /\ stage = "new"
        /\ stage' = IF refused THEN "refused" ELSE "tested"
        /\ called' = [called EXCEPT ![t] = IF refused THEN Nil ELSE Render(task.args, Merged, results)]
        /\ UNCHANGED <<book, given, state, returned, flagged>>

InputInit ==
    /\ book \in Books /\ given \in Givens
    /\ stage = "new" /\ flagged = {}
    /\ state = [t \in DOMAIN book.tasks |-> "pending"]
    /\ returned = [t \in DOMAIN book.tasks |-> Nil]
    /\ called = [t \in DOMAIN book.tasks |-> Nil]

InputNext ==
    \/ Build \/ Start \/ DryRun
    \/ \E t \in DOMAIN book.tasks :
          \/ Skip(t) \/ Invoke(t)
          \/ \E value \in Returned : TestTask(t, value)

-----------------------------------------------------------------------------
PlainName(t) == References(book.tasks[t].name) = <<>>

\* What succeeded, of the whole run
Results == [u \in {v \in DOMAIN book.tasks : state[v] = "succeeded"} |-> returned[u]]

\* What validation lets through can be called: no task of a run that was started fails because a
\* placeholder of its arguments or of its key cannot be filled in, and each is called with the results
\* of the tasks it names, however far upstream, None standing for those that did not succeed.  The name
\* of an action is rendered but not validated, so tasks that put a placeholder there are left out.  A
\* dry run flags nothing exactly when a run would start and find all of its actions.
InputsAgree ==
    /\ \A t \in DOMAIN book.tasks :
          stage \in {"running", "tested"} /\ PlainName(t) =>
              /\ state[t] # "raised"
              /\ called[t] # Raised
              /\ stage = "running" /\ called[t] # Nil => called[t] = Render(book.tasks[t].args, Merged, Results)
    /\ stage = "planned" =>
          (flagged = {} <=> PlanProblems(FALSE) = {} /\ \A t \in DOMAIN book.tasks : IsKnown(book.tasks[t].name))
=============================================================================
