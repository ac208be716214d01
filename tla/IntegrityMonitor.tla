-------------------------- MODULE IntegrityMonitor --------------------------
(* The integrity monitor: snapshots, baselines, verification passes, alerts   *)
(* and remediation, while the tree is changed by its users.                   *)
(*                                                                            *)
(* The monitor's lock makes passes exclusive; the tree is not locked, so the  *)
(* listing, each checksum and each repair are steps between which files       *)
(* change.  A time stamp stands for modification time and etag: every write   *)
(* gives a new one (a write that puts an old one back is documented to go     *)
(* unnoticed by a quick pass).                                                *)
EXTENDS Integers, SequencesExt

CONSTANTS
    Paths,        \* the files of the tree, numbered in the order of their names
    Contents, Size,  \* contents, and the size of each
    Under,        \* Under[x]: the files at or below the place x a watcher may name
    MirrorOf,     \* MirrorOf[p]: the content of the mirror of the baseline, or NoSum
    Setups,       \* first tree, kind of baseline, policy and budget of a run
    Instants,     \* what the wall clock may say when repairs start; it can be set back
    MaxTime       \* a bound

VARIABLES
    tree,         \* tree[p]: the file there, or Absent
    baseline,     \* the stored snapshot, or NoBaseline
    pass,         \* the verification or snapshot that holds the lock
    announced,    \* _announced
    reports,      \* the snapshots of the reports returned so far that list no repairs
    lastError,    \* last_error is set
    failing,      \* failures that are being recorded, outside the lock
    quarantine,   \* what was moved out: [at, path, sum]
    policy, clock, budget,
    told,         \* history: the signatures published since the baseline was approved
    verdict       \* history: what the latest pass found, and what there was to find

vars == <<tree, baseline, pass, announced, reports, lastError, failing, quarantine,
          policy, clock, budget, told, verdict>>

NoSum == "none"

Unknown == -1

Absent == [sum |-> NoSum, size |-> Unknown, stamp |-> Unknown, mode |-> Unknown]

\* Every file has a content, a size, a stamp and a mode, and is not stamped before its time.
IsFile(file) ==
    /\ file = [sum |-> file.sum, size |-> file.size, stamp |-> file.stamp, mode |-> file.mode]
    /\ file.stamp \in Int

ASSUME IntegrityAssumption ==
    /\ \A x \in DOMAIN Under : Under[x] \subseteq Paths
    /\ \A setup \in Setups :
          /\ setup.stored \in {"none", "legacy", "present"}
          /\ setup.tree = [p \in Paths |-> setup.tree[p]]
          /\ \A p \in Paths : setup.tree[p] # Absent => IsFile(setup.tree[p]) /\ setup.tree[p].stamp <= 1

NoBaseline == [p \in {} |-> Absent]

Idle == [stage |-> "idle"]

Quiet == [drift |-> {}]

-----------------------------------------------------------------------------
(* Detection *)

Bare(sum) == [sum |-> sum, size |-> Size[sum], stamp |-> Unknown, mode |-> Unknown]

\* A manifest of the first format has sizes and checksums only.
FromLegacy(files) == [p \in Paths |-> IF files[p] = Absent THEN Absent ELSE Bare(files[p].sum)]

ContentDiffers(before, after) ==
    \/ before.sum # after.sum
    \/ before.size # Unknown /\ after.size # Unknown /\ before.size # after.size

Differs(before, after, field) ==
    before[field] # Unknown /\ after[field] # Unknown /\ before[field] # after[field]

Change(kind, path, previous, before, after) ==
    [kind |-> kind, path |-> path, previous |-> previous, before |-> before, after |-> after]

\* What changed in a file that both snapshots hold
Compare(p, before, after) ==
    (IF ContentDiffers(before, after) THEN {Change("modified", p, 0, before, after)}
     ELSE IF Differs(before, after, "stamp") THEN {Change("metadata", p, 0, before, after)} ELSE {})
    \union
    (IF Differs(before, after, "mode") THEN {Change("permission", p, 0, before, after)} ELSE {})

SameContent(files, places, file) ==
    {p \in places : files[p].sum = file.sum /\ files[p].size = file.size}

\* One file of a content left and one arrived: a rename.  Otherwise both halves.
Pair(before, after, gone, new) ==
    LET left(e) == SameContent(before, gone, e)
        came(e) == SameContent(after, new, e)
        follows(g, n) == left(before[g]) = {g} /\ came(before[g]) = {n}
        renamed(g) == \E n \in new : follows(g, n)
        arrived(n) == \E g \in gone : left(after[n]) = {g} /\ came(after[n]) = {n}
    IN  {Change("renamed", pair[2], pair[1], before[pair[1]], after[pair[2]]) :
            pair \in {q \in gone \X new : follows(q[1], q[2])}}
        \union {Change("deleted", g, 0, before[g], Absent) : g \in {x \in gone : ~renamed(x)}}
        \union {Change("created", n, 0, Absent, after[n]) : n \in {x \in new : ~arrived(x)}}

DetectChanges(before, after) ==
    LET held(files) == {p \in DOMAIN files : files[p] # Absent} IN
    (UNION {Compare(p, before[p], after[p]) : p \in held(before) \intersect held(after)})
    \union Pair(before, after, held(before) \ held(after), held(after) \ held(before))

\* Bug: what a file became is not part of what was told.
SignatureOfPaths(changes) == {<<c.kind, c.path, c.previous>> : c \in changes}

Signature(changes) == {<<c.kind, c.path, c.previous, c.after.sum>> : c \in changes}

\* What a listener is told: which files changed, and into what
Drift(changes) == {<<c.kind, c.path, c.previous, c.after.sum>> : c \in changes}

SameStamp(info, known) ==
    known.size = info.size /\ known.stamp # Unknown /\ known.stamp = info.stamp

QuickMatches(infos, known) ==
    {p \in Paths : infos[p] # Absent /\ known[p] # Absent /\ SameStamp(infos[p], known[p])}

-----------------------------------------------------------------------------
(* The remediation of one pass: a sequence of steps *)

Step(action, path, expected, follows) ==
    [action |-> action, path |-> path, expected |-> expected, follows |-> follows]

Created(p) == IF policy.created = "quarantine" THEN <<Step("aside", p, NoSum, FALSE)>> ELSE <<>>

MirrorRefuses(p, expected) == MirrorOf[p] # expected

Deleted(p, before) ==
    IF policy.deleted # "restore" THEN <<>>
    ELSE IF MirrorRefuses(p, before.sum) THEN <<Step("refuse", p, before.sum, FALSE)>>
    ELSE <<Step("restore", p, before.sum, FALSE)>>

Modified(p, before) ==
    CASE policy.modified = "quarantine" -> <<Step("aside", p, NoSum, FALSE)>>
      [] policy.modified = "restore" ->
           IF MirrorRefuses(p, before.sum) THEN <<Step("refuse", p, before.sum, FALSE)>>
           ELSE IF ~policy.keeps THEN <<Step("restore", p, before.sum, FALSE)>>
           ELSE <<Step("aside", p, NoSum, FALSE), Step("restore", p, before.sum, TRUE)>>
      [] OTHER -> <<>>

Handle(c) ==
    CASE c.kind = "created" -> Created(c.path)
      [] c.kind = "modified" -> Modified(c.path, c.before)
      [] c.kind = "deleted" -> Deleted(c.path, c.before)
      [] c.kind = "renamed" -> Deleted(c.previous, c.before) \o Created(c.path)
      [] OTHER -> <<>>

ByPath(c, d) == c.path < d.path \/ (c.path = d.path /\ c.kind = "modified" /\ d.kind # "modified")

Plan(changes) == FlattenSeq([i \in 1..Cardinality(changes) |-> Handle(SetToSortSeq(changes, ByPath)[i])])

PolicyActive == policy.created # "none" \/ policy.modified # "none" \/ policy.deleted # "none"

-----------------------------------------------------------------------------
(* Passes *)

Init ==
    \E setup \in Setups :
        /\ tree = setup.tree
        /\ baseline = (CASE setup.stored = "none" -> NoBaseline
                         [] setup.stored = "legacy" -> FromLegacy(setup.tree)
                         [] setup.stored = "present" -> setup.tree)
        /\ policy = setup.policy
        /\ budget = setup.budget
        /\ pass = Idle /\ announced = {<<"nothing">>} /\ reports = {} /\ lastError = FALSE
        /\ failing = <<>> /\ quarantine = {} /\ clock = 1
        /\ told = {} /\ verdict = Quiet

\* Spends one of the kind of action that the run bounds
Spend(kind) == budget[kind] > 0 /\ budget' = [budget EXCEPT ![kind] = @ - 1]

\* The ways a pass starts: verify, check_once (and the continuous tick), the poll
\* tick, verify_paths and the watcher's batch, create_baseline, accept.
\* `guarded' says whether a failure is recorded, `repeat' whether known drift is told.
Passes ==
    {[does |-> "verify", deep |-> d, repeat |-> TRUE, guarded |-> FALSE, scope |-> Paths] : d \in BOOLEAN}
    \union {[does |-> "verify", deep |-> TRUE, repeat |-> TRUE, guarded |-> TRUE, scope |-> Paths],
            [does |-> "verify", deep |-> FALSE, repeat |-> FALSE, guarded |-> TRUE, scope |-> Paths],
            [does |-> "store", deep |-> TRUE, repeat |-> FALSE, guarded |-> FALSE, scope |-> Paths]}
    \union {[does |-> "verify", deep |-> TRUE, repeat |-> r, guarded |-> ~r, scope |-> Under[x]] :
               x \in DOMAIN Under, r \in BOOLEAN}

Within(files, scope) == [p \in Paths |-> IF p \in scope THEN files[p] ELSE Absent]

\* A monitor thread that met an error goes on to _record_failure.
Failed(kind) ==
    failing' = IF kind.guarded THEN Append(failing, [repeat |-> kind.repeat, stage |-> "judge"])
               ELSE failing

\* The lock is taken, the baseline loaded and the tree listed.
BeginPass(kind) ==
    /\ pass.stage = "idle" /\ Spend("pass")
    /\ IF kind.does = "verify" /\ baseline = NoBaseline
       THEN Failed(kind) /\ pass' = pass
       ELSE LET infos == Within(tree, kind.scope)
                listed == {p \in Paths : infos[p] # Absent}
                trusted == IF kind.deep THEN {} ELSE QuickMatches(infos, baseline)
            IN  /\ pass' = [stage |-> "hash", kind |-> kind, infos |-> infos, disturbed |-> FALSE,
                            todo |-> listed \ trusted,
                            seen |-> [p \in Paths |->
                                IF p \in trusted THEN [infos[p] EXCEPT !.sum = baseline[p].sum]
                                ELSE Absent]]
                /\ failing' = failing
    /\ UNCHANGED <<tree, baseline, announced, reports, lastError, quarantine, policy, clock, told, verdict>>

\* describe: the checksum and the mode are read now, the stamp is the listing's.
\* A file that is gone is left out.
HashFile(p) ==
    /\ pass.stage = "hash" /\ p \in pass.todo
    /\ pass' = [pass EXCEPT !.todo = @ \ {p},
                  !.seen[p] = IF tree[p] = Absent THEN Absent
                              ELSE [pass.infos[p] EXCEPT !.sum = tree[p].sum, !.mode = tree[p].mode]]
    /\ UNCHANGED <<tree, baseline, announced, reports, lastError, failing, quarantine, policy, clock,
                   budget, told, verdict>>

\* The backend fails in the middle of a pass.
BreakPass ==
    /\ pass.stage = "hash" /\ Spend("fault")
    /\ Failed(pass.kind) /\ pass' = Idle
    /\ UNCHANGED <<tree, baseline, announced, reports, lastError, quarantine, policy, clock, told, verdict>>

\* create_baseline, or accept without a report: the snapshot replaces the baseline in one step.
StoreBaseline ==
    /\ pass.stage = "hash" /\ pass.todo = {} /\ pass.kind.does = "store"
    /\ baseline' = pass.seen
    /\ announced' = {<<"nothing">>} /\ told' = {} /\ pass' = Idle
    /\ verdict' = Quiet
    /\ UNCHANGED <<tree, reports, lastError, failing, quarantine, policy, clock, budget>>

\* accept(report): any report without repairs, however old, carries the snapshot to approve.
AcceptReport ==
    /\ pass.stage = "idle" /\ Spend("pass")
    /\ \E snapshot \in reports : baseline' = snapshot
    /\ announced' = {<<"nothing">>} /\ told' = {} /\ verdict' = Quiet
    /\ UNCHANGED <<tree, pass, reports, lastError, failing, quarantine, policy, clock>>

\* The comparison, and which repairs it calls for: known drift is not repaired again.
Conclude ==
    /\ pass.stage = "hash" /\ pass.todo = {} /\ pass.kind.does = "verify"
    /\ LET changes == DetectChanges(Within(baseline, pass.kind.scope), pass.seen)
           announce == pass.kind.repeat \/ Signature(changes) # announced
       IN  \E now \in IF announce /\ PolicyActive THEN Instants ELSE {0} :
           pass' = [stage |-> "repair", kind |-> pass.kind, seen |-> pass.seen, infos |-> pass.infos,
                    disturbed |-> pass.disturbed, changes |-> changes, announce |-> announce,
                    at |-> now, half |-> FALSE, done |-> <<>>,
                    todo |-> IF announce /\ PolicyActive THEN Plan(changes) ELSE <<>>]
    /\ UNCHANGED <<tree, baseline, announced, reports, lastError, failing, quarantine, policy, clock,
                   budget, told, verdict>>

NextStep == Head(pass.todo)

StepDone(ok) ==
    pass' = [pass EXCEPT !.todo = Tail(@), !.half = FALSE,
                         !.done = Append(@, [step |-> NextStep, ok |-> ok])]

Repairing(action) ==
    pass.stage = "repair" /\ pass.todo # <<>> /\ NextStep.action = action

SetAsideFree(p) == ~\E q \in quarantine : q.at = pass.at /\ q.path = p

SetAside(p) ==
    quarantine' = {q \in quarantine : ~(q.at = pass.at /\ q.path = p)}
                    \union {[at |-> pass.at, path |-> p, sum |-> tree[p].sum]}

\* _quarantined: move_to without overwriting.  A rename where the backend has one,
\* elsewhere a copy and then a removal.
Quarantine ==
    /\ Repairing("aside") /\ ~pass.half
    /\ LET p == NextStep.path IN
       IF tree[p] = Absent \/ ~SetAsideFree(p)
       THEN StepDone(FALSE) /\ UNCHANGED <<tree, quarantine>>
       ELSE /\ SetAside(p)
            /\ IF policy.renames THEN tree' = [tree EXCEPT ![p] = Absent] /\ StepDone(TRUE)
               ELSE pass' = [pass EXCEPT !.half = TRUE] /\ tree' = tree
    /\ UNCHANGED <<baseline, announced, reports, lastError, failing, policy, clock, budget, told, verdict>>

QuarantineRemove ==
    /\ Repairing("aside") /\ pass.half
    /\ StepDone(tree[NextStep.path] # Absent)
    /\ tree' = [tree EXCEPT ![NextStep.path] = Absent]
    /\ UNCHANGED <<baseline, announced, reports, lastError, failing, quarantine, policy, clock, budget,
                   told, verdict>>

Refuse ==
    /\ Repairing("refuse") /\ StepDone(FALSE)
    /\ UNCHANGED <<tree, baseline, announced, reports, lastError, failing, quarantine, policy, clock,
                   budget, told, verdict>>

\* _restored: the mirror's copy goes into place, whatever is there by then.  It is
\* left alone when the modified file could not be set aside.
Restore ==
    /\ Repairing("restore") /\ ~pass.half
    /\ IF NextStep.follows /\ ~Last(pass.done).ok
       THEN StepDone(FALSE) /\ UNCHANGED <<tree, clock>>
       ELSE /\ clock < MaxTime /\ clock' = clock + 1
            /\ tree' = [tree EXCEPT ![NextStep.path] =
                          [sum |-> MirrorOf[NextStep.path], size |-> Size[MirrorOf[NextStep.path]],
                           stamp |-> clock', mode |-> 0]]
            /\ pass' = [pass EXCEPT !.half = TRUE]
    /\ UNCHANGED <<baseline, announced, reports, lastError, failing, quarantine, policy, budget, told, verdict>>

\* The restored file is hashed again.
RestoreCheck ==
    /\ Repairing("restore") /\ pass.half
    /\ StepDone(tree[NextStep.path].sum = NextStep.expected)
    /\ UNCHANGED <<tree, baseline, announced, reports, lastError, failing, quarantine, policy, clock,
                   budget, told, verdict>>

\* Snapshot.merged: what a partial pass did not look at is as the baseline has it.
Merged == [p \in Paths |-> IF p \in pass.kind.scope THEN pass.seen[p] ELSE baseline[p]]

\* A pass of a watcher tells what the pass before it has found.
ToldAgain ==
    /\ ~pass.kind.repeat /\ pass.announce /\ pass.changes # {}
    /\ verdict # Quiet /\ ~verdict.failed /\ Drift(pass.changes) = Drift(verdict.drift)

\* The report is remembered, and published when there is something new to tell.
EndPass ==
    /\ pass.stage = "repair" /\ pass.todo = <<>>
    /\ reports' = IF pass.done = <<>> THEN reports \union {Merged} ELSE reports
    /\ announced' = Signature(pass.changes) /\ lastError' = FALSE
    /\ told' = IF pass.changes # {} /\ pass.announce
               THEN told \union {Drift(pass.changes)} ELSE told
    /\ verdict' = [drift |-> pass.changes, disturbed |-> pass.disturbed, scope |-> pass.kind.scope,
                   infos |-> pass.infos, done |-> pass.done, announce |-> pass.announce,
                   before |-> baseline, after |-> tree, failed |-> FALSE, again |-> ToldAgain]
    /\ pass' = Idle
    /\ UNCHANGED <<tree, baseline, failing, quarantine, policy, clock, budget>>

\* _record_failure, outside the lock: whether to tell is decided first ...
JudgeFailure(i) ==
    /\ failing[i].stage = "judge"
    /\ failing' = [failing EXCEPT ![i] =
         [stage |-> "note", announce |-> @.repeat \/ announced # {<<"error">>}]]
    /\ UNCHANGED <<tree, baseline, pass, announced, reports, lastError, quarantine, policy, clock,
                   budget, told, verdict>>

\* ... and then remembered and told.
NoteFailure(i) ==
    /\ failing[i].stage = "note"
    /\ failing' = RemoveAt(failing, i)
    /\ lastError' = TRUE /\ announced' = {<<"error">>}
    /\ verdict' = IF verdict = Quiet THEN Quiet ELSE [verdict EXCEPT !.failed = TRUE]
    /\ UNCHANGED <<tree, baseline, pass, reports, quarantine, policy, clock, budget, told>>

-----------------------------------------------------------------------------
(* The users of the tree *)

Disturb == pass' = IF pass.stage = "idle" THEN pass ELSE [pass EXCEPT !.disturbed = TRUE]

Edit(p) ==
    /\ Spend("edit") /\ clock < MaxTime /\ clock' = clock + 1
    /\ \/ \E c \in Contents :
            tree' = [tree EXCEPT ![p] = [sum |-> c, size |-> Size[c], stamp |-> clock', mode |-> 0]]
       \/ tree[p] # Absent /\ tree' = [tree EXCEPT ![p] = Absent]
       \/ tree[p] # Absent /\ tree' = [tree EXCEPT ![p].mode = 1 - @]
       \/ \E q \in Paths \ {p} : /\ tree[p] # Absent
            /\ tree' = [tree EXCEPT ![q] = [tree[p] EXCEPT !.stamp = clock'], ![p] = Absent]
    /\ Disturb
    /\ UNCHANGED <<baseline, announced, reports, lastError, failing, quarantine, policy, told, verdict>>

Next ==
    \/ \E kind \in Passes : BeginPass(kind)
    \/ \E p \in Paths : HashFile(p) \/ Edit(p)
    \/ BreakPass \/ StoreBaseline \/ AcceptReport \/ Conclude
    \/ Quarantine \/ QuarantineRemove \/ Refuse \/ Restore \/ RestoreCheck \/ EndPass
    \/ \E i \in DOMAIN failing : JudgeFailure(i) \/ NoteFailure(i)

Spec == Init /\ [][Next]_vars

-----------------------------------------------------------------------------
(* Properties *)

Mentioned(changes) ==
    {c.path : c \in changes} \union {c.previous : c \in {d \in changes : d.kind = "renamed"}}

Truly(before, now) ==
    \/ (before = Absent) # (now = Absent)
    \/ before.sum # now.sum
    \/ Differs(before, now, "size") \/ Differs(before, now, "stamp") \/ Differs(before, now, "mode")

\* A pass nobody disturbed reports exactly the files that differ from the baseline, even
\* a quick pass against a baseline whose snapshot was taken while files were written
\* (an old stamp with a newer checksum), or against one of the first format.
ReportExact ==
    (verdict # Quiet /\ ~verdict.disturbed) =>
        Mentioned(verdict.drift) =
            {p \in verdict.scope : Truly(verdict.before[p], verdict.infos[p])}

\* What the latest pass found was told since the baseline was approved: no new drift hides behind
\* known drift, although the watchers, the poll and the failures share one memory of what was told.
DriftIsTold ==
    (verdict # Quiet /\ verdict.drift # {}) => Drift(verdict.drift) \in told

\* A pass of a watcher does not tell again what the pass before it has found, unless a failure was
\* noted in between.  monitor.py:362-364 promises more, a drift told once while it stays the same:
\* the memory is of one pass, so passes over two drifted paths in turn each tell theirs again.
KnownStaysQuiet ==
    verdict # Quiet => ~verdict.again

\* The alerts are about what there is, about all of it, and are not repeated pass after pass.
MonitorSound == ReportExact /\ DriftIsTold /\ KnownStaysQuiet

\* When every repair of an undisturbed pass succeeded under a policy that handles every
\* kind of change, the files it looked at have the content of the baseline again.
RepairIsComplete ==
    /\ verdict # Quiet
    /\ ~verdict.disturbed /\ verdict.announce
    /\ policy.created = "quarantine" /\ policy.deleted = "restore" /\ policy.modified = "restore"
    /\ \A i \in DOMAIN verdict.done : verdict.done[i].ok
    => \A p \in verdict.scope : verdict.after[p].sum = verdict.before[p].sum

=============================================================================
