------------------------------ MODULE TextEdits ------------------------------
(* The helpers that edit the inside of files: unified diffs (diff_ops.py),    *)
(* dotted key paths in JSON and YAML documents (json_edit.py, data_ops.py),   *)
(* split and merge (text_ops.py), CSV and JSON Lines (data_ops.py), and the   *)
(* way they all write a file.  A helper is a function of what it reads; a     *)
(* behaviour asks one question and gets its answer, or has two callers        *)
(* rewrite one file step by step.                                             *)
EXTENDS Integers, Sequences, SequencesExt, FiniteSets, TLC

CONSTANTS
    Questions,  \* what may be asked: records with a field "kind"
    Index,      \* Index[s]: the number a key segment stands for, if it does
    Falsy,      \* the atoms that Python takes for false
    PathOrder,  \* the paths of files in trees, sorted; a path is a sequence of names
    Dashes,     \* Dashes[op]: lines that look like a file's header behind op: "--" behind "-", "++" behind "+"
    Open        \* lines without a newline: the last of their file

VARIABLES question, answer,
    file,       \* [whole, edits]: the edits the file holds; not whole while it is written in place
    writers     \* [at, base, style, temp, alone] of each caller

editVars == <<question, answer, file, writers>>

-----------------------------------------------------------------------------
(* Unified diffs.  A script is a sequence of [op, line], op one of " ", "-"   *)
(* and "+"; difflib (external) finds one that leads from left to right.       *)
(* Files are read as text: whatever ends a line is read as the same.          *)

Lines(script, op) ==
    LET kept == SelectSeq(script, LAMBDA s : s.op \in {" ", op}) IN [i \in DOMAIN kept |-> kept[i].line]

Left(script) == Lines(script, "-")

Right(script) == Lines(script, "+")

\* What is dropped comes before what is added; only the last line of a file is without a newline.
IsScript(script) ==
    /\ \A i \in 2..Len(script) : ~ (script[i - 1].op = "+" /\ script[i].op = "-")
    /\ \A f \in {Left(script), Right(script)} : \A i \in 1..Len(f) - 1 : f[i] \notin Open

\* The script's steps with n lines of context, and where they touch
InHunk(script, n) == {i \in DOMAIN script : \E j \in DOMAIN script : script[j].op # " " /\ j - n <= i /\ i <= j + n}

Header(number) == [op |-> "@@", line |-> "", number |-> number]

\* The number in a hunk's header: its first line in left, or the one before when it has none there
HunkNumber(script, hunk, i) ==
    LET before == Len(Left(SubSeq(script, 1, i - 1)))
        last == CHOOSE j \in hunk : j >= i /\ i..j \subseteq hunk /\ j + 1 \notin hunk
    IN  IF Left(SubSeq(script, i, last)) = <<>> THEN before ELSE before + 1

DiffTextFiles(script, n) ==
    LET hunk == InHunk(script, n)
        Step(i) == [op |-> script[i].op, line |-> script[i].line, number |-> 0]
    IN  FoldLeftDomain(LAMBDA patch, i :
                           IF i \notin hunk THEN patch
                           ELSE IF i - 1 \in hunk THEN Append(patch, Step(i))
                           ELSE patch \o <<Header(HunkNumber(script, hunk, i)), Step(i)>>,
                       <<>>, script)

\* The text of a patch read line by line: a line without a newline swallows the next one.
AsText(patch) ==
    FoldLeftDomain(LAMBDA text, i :
                       IF i > 1 /\ patch[i - 1].line \in Open THEN text
                       ELSE Append(text, IF patch[i].line \in Open /\ i < Len(patch)
                                         THEN [patch[i] EXCEPT !.line = "glued"] ELSE patch[i]),
                   <<>>, patch)

ParseHunkHeader(number) == IF number - 1 > 0 THEN number - 1 ELSE 0

\* Lines that look like the header of a file are not part of a hunk.
Ignored(raw) == raw.op \in DOMAIN Dashes /\ raw.line \in Dashes[raw.op]

\* A patch is applied to a copy: [lines, cursor, start, failed].
Failed(state, why) == [state EXCEPT !.failed = why]

CopyUpTo(live, state, stop) ==
    IF stop <= state.cursor THEN state
    ELSE IF stop > Len(live) THEN Failed(state, "IndexError")
    ELSE [state EXCEPT !.lines = @ \o SubSeq(live, state.cursor + 1, stop), !.cursor = stop]

ApplyHunkOp(live, state, raw) ==
    IF raw.op = "+" THEN [state EXCEPT !.lines = Append(@, raw.line)]
    ELSE IF state.cursor >= Len(live) THEN Failed(state, "DiffException")
    ELSE IF live[state.cursor + 1] # raw.line THEN Failed(state, "DiffException")
    ELSE [state EXCEPT !.cursor = @ + 1, !.lines = IF raw.op = " " THEN Append(@, raw.line) ELSE @]

\* A hunk takes effect with its first line: without one its header does nothing.  What is written has
\* the line ends of the platform, whatever "ends" the target had.
ApplyTextPatch(live, ends, patch) ==
    LET end == FoldLeft(LAMBDA state, raw :
                            IF state.failed # "" \/ Ignored(raw) THEN state
                            ELSE IF raw.op = "@@" THEN [state EXCEPT !.start = ParseHunkHeader(raw.number)]
                            ELSE LET copied == CopyUpTo(live, state, state.start)
                                 IN  IF copied.failed # "" THEN copied ELSE ApplyHunkOp(live, copied, raw),
                        [lines |-> <<>>, cursor |-> 0, start |-> 0, failed |-> ""], patch)
    IN  IF end.failed # "" THEN [failed |-> end.failed, lines |-> live, ends |-> ends]
        ELSE [failed |-> "", lines |-> end.lines \o SubSeq(live, end.cursor + 1, Len(live)), ends |-> "platform"]

(* With context and no line that looks like a header, a diff applied to the   *)
(* file it was made from gives the other file up to its line ends; a last     *)
(* line without a newline may make it be refused, never applied wrongly, and  *)
(* what is refused leaves the file byte for byte.                             *)
PatchExact(q, a) ==
    (q.context > 0 /\ \A i \in DOMAIN q.script : ~ Ignored(q.script[i])) =>
        \/ a.failed = "" /\ a.lines = Right(q.script)
        \/ /\ a.failed = "DiffException" /\ \E i \in DOMAIN q.script : q.script[i].line \in Open
           /\ a.lines = Left(q.script) /\ a.ends = q.ends

-----------------------------------------------------------------------------
(* Trees of files: diff_dirs and apply_dir_diff.  A tree maps the paths of     *)
(* its files to contents; a directory is what a path goes through.            *)

SortedPaths(paths) == SelectSeq(PathOrder, LAMBDA p : p \in paths)

IsTree(tree) == \A p, q \in DOMAIN tree : ~ IsStrictPrefix(p, q)

DiffDirs(left, right) ==
    [added |-> SortedPaths(DOMAIN right \ DOMAIN left), removed |-> SortedPaths(DOMAIN left \ DOMAIN right),
     changed |-> SortedPaths({p \in DOMAIN left \intersect DOMAIN right : left[p] # right[p]})]

\* One file: its directory cannot be made where a file is, and it cannot be copied over a directory.
CopyPath(state, path, source) ==
    IF state.failed # "" THEN state
    ELSE IF path \notin DOMAIN source THEN Failed(state, "DiffException")
    ELSE IF \E p \in DOMAIN state.tree : IsStrictPrefix(p, path) \/ IsStrictPrefix(path, p) THEN Failed(state, "OSError")
    ELSE [state EXCEPT !.tree = (path :> source[path]) @@ @]

\* Copies go path by path and stop at the first that fails; files that went are removed after.
ApplyDirDiff(diff, target, source) ==
    LET copied == FoldLeft(LAMBDA state, path : CopyPath(state, path, source),
                           [failed |-> "", tree |-> target], diff.added \o diff.changed)
    IN  IF copied.failed # "" THEN copied
        ELSE [copied EXCEPT !.tree = [p \in DOMAIN @ \ Range(diff.removed) |-> @[p]]]

\* The source as it is when the diff is applied: a path may have gone since.
SourceTree(q) == [p \in DOMAIN q.right \ {q.lost} |-> q.right[p]]

(* Applying the diff of two trees to the one gives the other.  When it stops, *)
(* a file is in the other's way or the source lost one; nothing is removed or *)
(* half copied, and applying it again to what is there ends at the other.     *)
DirsExact(q, a) ==
    LET inTheWay == \E p \in DOMAIN q.left, r \in DOMAIN q.right : IsStrictPrefix(p, r) \/ IsStrictPrefix(r, p)
        again == ApplyDirDiff(DiffDirs(q.left, q.right), a.tree, q.right)
    IN  IF a.failed = "" THEN a.tree = q.right
        ELSE /\ inTheWay \/ q.lost \in DOMAIN q.right
             /\ DOMAIN q.left \subseteq DOMAIN a.tree
             /\ \A p \in DOMAIN a.tree : \E t \in {q.left, q.right} : p \in DOMAIN t /\ a.tree[p] = t[p]
             /\ ~ inTheWay => again = [failed |-> "", tree |-> q.right]

-----------------------------------------------------------------------------
(* Key paths.  A document is an atom, a map with strings for keys, or a list;  *)
(* a path is what is left of the text between its dots, its index a number.   *)

Atom(v) == [kind |-> "atom", items |-> v]

Map(items) == [kind |-> "map", items |-> items]

List(items) == [kind |-> "list", items |-> items]

NewMap == Map(<<>>)

Missing == [kind |-> "missing", items |-> ""]

IsInt(segment) == segment \in DOMAIN Index

\* Python's index: negative from the end
Within(items, segment) == -Len(items) <= Index[segment] /\ Index[segment] < Len(items)

Position(items, segment) == IF Index[segment] < 0 THEN Len(items) + Index[segment] + 1 ELSE Index[segment] + 1

Has(d, segment) ==
    \/ d.kind = "map" /\ segment \in DOMAIN d.items
    \/ d.kind = "list" /\ IsInt(segment) /\ Within(d.items, segment)

Child(d, segment) == IF d.kind = "map" THEN d.items[segment] ELSE d.items[Position(d.items, segment)]

With(d, segment, sub) ==
    IF d.kind = "map" THEN Map((segment :> sub) @@ d.items)
    ELSE List([d.items EXCEPT ![Position(d.items, segment)] = sub])

Walk(d, path) ==
    FoldLeft(LAMBDA at, segment : IF Has(at, segment) THEN Child(at, segment) ELSE Missing, d, path)

\* Bug: a list grows when the index is beyond its end.
AppendsBeyond(items, segment) == Index[segment] >= Len(items)

AppendsAt(items, segment) == Index[segment] = Len(items)

SetLast(d, segment, value) ==
    CASE d.kind = "map" \/ Has(d, segment) -> With(d, segment, value)
      [] d.kind = "list" /\ IsInt(segment) /\ ~ Has(d, segment) /\ AppendsAt(d.items, segment) -> List(Append(d.items, value))
      [] OTHER -> Missing

\* What _descend_for_set steps into: a map makes room, a list does not.
SetTarget(d, segment) ==
    IF d.kind # "map" THEN IF Has(d, segment) THEN Child(d, segment) ELSE Missing
    ELSE IF Has(d, segment) /\ Child(d, segment).kind \in {"map", "list"} THEN Child(d, segment)
    ELSE NewMap

RECURSIVE SetIn(_, _, _)

\* The document with the value in place; Missing when an exception ends the call
SetIn(d, path, value) ==
    IF Len(path) = 1 THEN SetLast(d, Head(path), value)
    ELSE LET sub == SetIn(SetTarget(d, Head(path)), Tail(path), value)
         IN  IF sub.kind = "missing" THEN Missing ELSE With(d, Head(path), sub)

RemoveLast(d, segment) ==
    IF d.kind = "map" THEN Map([k \in DOMAIN d.items \ {segment} |-> d.items[k]])
    ELSE List(RemoveAt(d.items, Position(d.items, segment)))

RECURSIVE DeleteIn(_, _)

\* The document without the value; the same one when there is none
DeleteIn(d, path) ==
    IF ~ Has(d, Head(path)) THEN d
    ELSE IF Len(path) = 1 THEN RemoveLast(d, Head(path))
    ELSE With(d, Head(path), DeleteIn(Child(d, Head(path)), Tail(path)))

\* YAML takes every document that is false in Python for an empty map.
YamlLoad(d) ==
    IF (d.kind = "atom" /\ d.items \in Falsy) \/ (d.kind # "atom" /\ DOMAIN d.items = {}) THEN NewMap ELSE d

Loaded(q) == IF q.format = "yaml" THEN YamlLoad(q.doc) ELSE q.doc

\* An empty path is refused, and the file is left alone when there is nothing to delete.
EditDocument(q) ==
    LET d == Loaded(q)
        found == Walk(d, q.path).kind # "missing"
        new == IF q.path = <<>> THEN Missing
               ELSE IF q.op = "set" THEN SetIn(d, q.path, q.value)
               ELSE IF found THEN DeleteIn(d, q.path) ELSE q.doc
    IN  [failed |-> new.kind = "missing", found |-> found, doc |-> IF new.kind = "missing" THEN q.doc ELSE new]

\* Reference: a document as the set of its leaves, [path, value], a step being a key or a position.
RECURSIVE Leaves(_)

Leaves(d) ==
    IF d.kind = "atom" THEN {[path |-> <<>>, value |-> d.items]}
    ELSE IF DOMAIN d.items = {} THEN {[path |-> <<>>, value |-> d.kind]}
    ELSE UNION {{[path |-> <<IF d.kind = "map" THEN [key |-> k, at |-> 0] ELSE [key |-> "", at |-> k]>> \o l.path,
                  value |-> l.value] : l \in Leaves(d.items[k])} : k \in DOMAIN d.items}

\* The steps a path stands for in d
Steps(d, path) ==
    [i \in DOMAIN path |->
        LET parent == Walk(d, SubSeq(path, 1, i - 1))
        IN  IF parent.kind = "list" THEN [key |-> "", at |-> Position(parent.items, path[i])]
            ELSE [key |-> path[i], at |-> 0]]

Below(steps, leaves) == {l \in leaves : IsPrefix(steps, l.path)}

\* Where a leaf is once the list element at "steps" is gone
Shifted(steps, path) ==
    LET n == Len(steps)
    IN  IF steps[n].at > 0 /\ IsStrictPrefix(Front(steps), path) /\ path[n].at > steps[n].at
        THEN [path EXCEPT ![n].at = @ - 1] ELSE path

(* A value that was set is the one that is read back and nothing else has     *)
(* changed; a delete removes what a get would have found, and only that.      *)
EditExact(q, a) ==
    LET d == Loaded(q)
        steps == Steps(d, q.path)
        rest == {[l EXCEPT !.path = Shifted(steps, @)] : l \in Leaves(d) \ Below(steps, Leaves(d))}
    IN  CASE a.failed -> a.doc = q.doc
          [] ~ a.failed /\ q.op = "set" ->
                /\ Walk(a.doc, q.path).items = q.value.items
                /\ Leaves(a.doc) = {l \in Leaves(d) : ~ IsPrefix(l.path, steps) /\ ~ IsPrefix(steps, l.path)}
                                   \union {[path |-> steps, value |-> q.value.items]}
          [] ~ a.failed /\ q.op = "delete" ->
                IF ~ a.found THEN a.doc = q.doc
                ELSE Leaves(a.doc) \ {l \in Leaves(a.doc) : l.path = Front(steps)} = rest

-----------------------------------------------------------------------------
(* file_split and file_merge: parts are read until one is empty.              *)

RECURSIVE FileSplit(_, _)

FileSplit(bytes, size) ==
    LET chunk == SubSeq(bytes, 1, IF size < Len(bytes) THEN size ELSE Len(bytes))
    IN  IF chunk = <<>> THEN <<>> ELSE <<chunk>> \o FileSplit(SubSeq(bytes, Len(chunk) + 1, Len(bytes)), size)

\* No parts, or one that is not there (its number is in "lost"), are refused before anything is written.
FileMerge(parts, lost) ==
    IF parts = <<>> THEN [failed |-> "TextOpsException", bytes |-> <<>>]
    ELSE IF lost \intersect DOMAIN parts # {} THEN [failed |-> "FileNotExistsException", bytes |-> <<>>]
    ELSE [failed |-> "", bytes |-> FlattenSeq(parts)]

SplitAndMerge(q) ==
    IF q.size <= 0 THEN [failed |-> "TextOpsException", bytes |-> <<>>, parts |-> <<>>]
    ELSE LET parts == FileSplit(q.bytes, q.size)
             merged == FileMerge(parts, q.lost)
         IN  [failed |-> merged.failed, bytes |-> merged.bytes, parts |-> parts]

(* Parts of the size asked for, merged, are the file; a part lost in between  *)
(* is told, never left out.                                                   *)
SplitExact(q, a) ==
    /\ a.failed = "" => a.bytes = q.bytes
    /\ (q.size > 0 /\ q.bytes # <<>> /\ q.lost \intersect DOMAIN a.parts = {}) => a.failed = ""
    /\ \A i \in DOMAIN a.parts : Len(a.parts[i]) = q.size \/ i = Len(a.parts)

\* read_text, which has universal newlines
ReadText(text) == [i \in DOMAIN text |-> IF text[i] = "crlf" THEN "lf" ELSE text[i]]

\* sed_replace: at most "count" occurrences, all when it is 0; the answer is how many
SedHits(text, pattern, count) ==
    LET hits == Cardinality({i \in DOMAIN text : text[i] = pattern})
    IN  IF count = 0 \/ hits < count THEN hits ELSE count

\* str.replace: from the left, while there are replacements left
StrReplace(text, pattern, replacement, count) ==
    FoldLeft(LAMBDA done, word :
                 IF word = pattern /\ (count = 0 \/ done.hits < count)
                 THEN [text |-> Append(done.text, replacement), hits |-> done.hits + 1]
                 ELSE [done EXCEPT !.text = Append(@, word)],
             [text |-> <<>>, hits |-> 0], text).text

\* The file is written only when something was hit, as it was read; a negative count and an empty
\* pattern are refused.
SedReplace(q) ==
    LET text == ReadText(q.text)
        hits == SedHits(text, q.pattern, q.count)
    IN  IF q.count < 0 \/ q.pattern = "" THEN [failed |-> TRUE, hits |-> 0, text |-> q.text]
        ELSE [failed |-> FALSE, hits |-> hits,
              text |-> IF hits > 0 THEN StrReplace(text, q.pattern, q.replacement, q.count) ELSE q.text]

(* The number sed_replace answers is the number of places that have changed,  *)
(* line ends apart: a file that is hit comes back with every line end as "lf", *)
(* one that is not keeps its bytes.                                           *)
SedExact(q, a) ==
    LET plain(text) == [i \in DOMAIN text |-> IF text[i] \in {"lf", "crlf"} THEN "end" ELSE text[i]]
    IN  /\ Cardinality({i \in DOMAIN q.text : plain(a.text)[i] # plain(q.text)[i]}) = a.hits
        /\ IF a.hits = 0 THEN a.text = q.text ELSE \A i \in DOMAIN a.text : a.text[i] # "crlf"

-----------------------------------------------------------------------------
(* CSV: a table is a sequence of rows, the first its header; a row may be     *)
(* shorter or longer than it.                                                 *)

None == "none"

Fieldnames(table) == Head(table)

Extra == "null"

\* csv.DictReader (external): a later column of the same name wins, a short row is filled with
\* None, and the fields a row has too many are kept together.
Record(header, row) ==
    [name \in Range(header) |->
        LET at == CHOOSE i \in DOMAIN header : header[i] = name /\ \A j \in DOMAIN header : header[j] = name => j <= i
        IN  IF at \in DOMAIN row THEN row[at] ELSE None]
    @@ (IF Len(row) > Len(header) THEN (Extra :> SubSeq(row, Len(header) + 1, Len(row))) ELSE <<>>)

\* A blank row is no record.
Records(table) ==
    IF table = <<>> THEN <<>>
    ELSE LET rows == SelectSeq(Tail(table), LAMBDA row : row # <<>>)
         IN  [i \in DOMAIN rows |-> Record(Fieldnames(table), rows[i])]

\* What is requested is <<>> or <<a list of names>>.
ResolveFieldnames(header, requested) == IF requested = <<>> THEN header ELSE requested[1]

CsvRefusal(q) ==
    CASE (q.where = None) # (q.equals = None) -> "where"
      [] (q.where = None) = (q.equals = None) /\ q.table = <<>> -> "header"
      [] OTHER ->
            LET names == Range(Fieldnames(q.table))
            IN  IF ~ Range(ResolveFieldnames(Fieldnames(q.table), q.columns)) \subseteq names THEN "columns"
                ELSE IF q.where # None /\ q.where \notin names THEN "where_column"
                ELSE ""

Chosen(q, record) == q.where # None => record[q.where] = q.equals

\* csv.DictWriter (external) writes None as an empty field.
Field(value) == IF value = None THEN "" ELSE value

\* The requested fields of the chosen records, whatever else a record holds
CsvFilter(q) ==
    IF CsvRefusal(q) # "" THEN [failed |-> TRUE, table |-> q.table, written |-> 0]
    ELSE LET names == ResolveFieldnames(Fieldnames(q.table), q.columns)
             rows == SelectSeq(Records(q.table), LAMBDA r : Chosen(q, r))
         IN  [failed |-> FALSE, written |-> Len(rows),
              table |-> <<names>> \o [i \in DOMAIN rows |-> [j \in DOMAIN names |-> Field(rows[i][names[j]])]]]

\* csv_to_jsonl: one record a line, also the fields a row has too many
CsvToJsonl(table) == Records(table)

(* What csv_filter wrote, read as CSV, is the chosen records of what it read, *)
(* with None as the empty field, cut to the requested columns, of which there *)
(* is one at least.                                                           *)
CsvExact(q, a) ==
    LET source == SelectSeq(CsvToJsonl(q.table), LAMBDA r : Chosen(q, r))
        copy == CsvToJsonl(a.table)
    IN  (~ a.failed /\ Fieldnames(a.table) # <<>>) =>
          /\ a.written = Len(copy) /\ Len(copy) = Len(source)
          /\ \A i \in DOMAIN copy : \A name \in DOMAIN copy[i] : copy[i][name] = Field(source[i][name])

-----------------------------------------------------------------------------
(* JSON Lines: a file is a sequence of lines, the last one perhaps unfinished. *)

Objects == {"r1", "r2"}

\* Records up to the limit (no limit: -1), or the exception the first bad line raises
JsonlIter(lines, limit) ==
    FoldLeft(LAMBDA got, line :
                 IF got.failed \/ got.done \/ line = "blank" THEN got
                 ELSE IF line \notin Objects THEN [got EXCEPT !.failed = TRUE]
                 ELSE [got EXCEPT !.records = Append(@, line), !.done = (limit # -1 /\ Len(got.records) + 1 >= limit)],
             [records |-> <<>>, failed |-> FALSE, done |-> FALSE], lines)

\* Appending to an unfinished line makes one line of the two.
JsonlAppend(lines, finished, record) ==
    IF finished \/ lines = <<>> THEN Append(lines, record)
    ELSE Front(lines) \o <<IF Last(lines) = "blank" THEN record ELSE "glued">>

(* A limit of at least one cuts the list of all records and nothing else; a   *)
(* record appended to a file that ends with a newline is read last.           *)
JsonlExact(q, a) ==
    /\ (~ a.all.failed /\ q.limit > 0) =>
          \E n \in 0..q.limit : /\ a.some.records = SubSeq(a.all.records, 1, n)
                                /\ n < q.limit => n = Len(a.all.records)
    /\ (q.finished /\ ~ a.all.failed) => a.after.records = Append(a.all.records, q.record)

-----------------------------------------------------------------------------
Answer(q) ==
    CASE q.kind = "patch" -> ApplyTextPatch(Left(q.script), q.ends, AsText(DiffTextFiles(q.script, q.context)))
      [] q.kind = "dirs" -> ApplyDirDiff(DiffDirs(q.left, q.right), q.left, SourceTree(q))
      [] q.kind = "document" -> EditDocument(q)
      [] q.kind = "split" -> SplitAndMerge(q)
      [] q.kind = "sed" -> SedReplace(q)
      [] q.kind = "csv" -> CsvFilter(q)
      [] q.kind = "jsonl" -> [all |-> JsonlIter(q.lines, -1), some |-> JsonlIter(q.lines, q.limit),
                              after |-> JsonlIter(JsonlAppend(q.lines, q.finished, q.record), -1)]

AnswerExact(q, a) ==
    CASE q.kind = "patch" -> PatchExact(q, a)
      [] q.kind = "dirs" -> DirsExact(q, a)
      [] q.kind = "document" -> EditExact(q, a)
      [] q.kind = "split" -> SplitExact(q, a)
      [] q.kind = "sed" -> SedExact(q, a)
      [] q.kind = "csv" -> CsvExact(q, a)
      [] q.kind = "jsonl" -> JsonlExact(q, a)

-----------------------------------------------------------------------------
(* Writing.  The styles are "finally" (a temporary file that every exit       *)
(* removes), "dump" (json_edit: an exception while it is written leaves it)   *)
(* and "direct" (apply_text_patch: the file itself is rewritten).             *)

Whole(edits) == [whole |-> TRUE, edits |-> edits]

Writer(style) == [at |-> "idle", base |-> Whole({}), style |-> style, temp |-> FALSE, alone |-> TRUE]

Resting(c) == writers[c].at \in {"idle", "saved", "failed", "dead"}

\* The file is read, and edited in memory.
Read(c) ==
    /\ writers[c].at = "idle"
    /\ writers' = [d \in DOMAIN writers |->
                      IF d = c
                      THEN [writers[d] EXCEPT !.at = "edited", !.base = [file EXCEPT !.edits = @ \union {c}],
                                              !.alone = \A e \in DOMAIN writers : Resting(e)]
                      ELSE [writers[d] EXCEPT !.alone = @ /\ Resting(d)]]
    /\ UNCHANGED file

Direct(c) == writers[c].style = "direct"

Write(c) ==
    /\ writers[c].at = "edited"
    /\ writers' = [writers EXCEPT ![c].at = "written", ![c].temp = ~ Direct(c)]
    /\ file' = IF Direct(c) THEN [file EXCEPT !.whole = FALSE] ELSE file

\* os.replace, or the last write of a direct writer
Replace(c) ==
    /\ writers[c].at = "written"
    /\ writers' = [writers EXCEPT ![c].at = "saved", ![c].temp = FALSE]
    /\ file' = writers[c].base

\* The edit is refused or changes nothing, or no temporary file can be made.
Leave(c) ==
    /\ writers[c].at = "edited"
    /\ writers' = [writers EXCEPT ![c].at = "failed"]
    /\ UNCHANGED file

\* An exception while the content is written ("write"), or of os.replace ("replace")
Fail(c, why) ==
    /\ writers[c].at = "written"
    /\ why = "replace" => ~ Direct(c)
    /\ writers' = [writers EXCEPT ![c].at = "failed", ![c].temp = @ /\ writers[c].style = "dump" /\ why = "write"]
    /\ UNCHANGED file

Crash(c) ==
    /\ writers[c].at \in {"edited", "written"}
    /\ writers' = [writers EXCEPT ![c].at = "dead"]
    /\ UNCHANGED file

Rewrite ==
    \E c \in DOMAIN writers :
        Read(c) \/ Write(c) \/ Replace(c) \/ Leave(c) \/ Crash(c) \/ \E why \in {"write", "replace"} : Fail(c, why)

(* However many callers die or fail, a helper that writes through a temporary *)
(* file leaves the file whole, and keeps the edits made before it; only the   *)
(* JSON editor, failing while it writes, leaves its temporary file behind     *)
(* without a crash.                                                           *)
FileWhole ==
    (\A c \in DOMAIN writers : writers[c].style # "direct") =>
        /\ file.whole
        /\ (\A c \in DOMAIN writers : writers[c].alone) =>
              \A c \in DOMAIN writers : writers[c].at = "saved" => c \in file.edits
        /\ \A c \in DOMAIN writers :
              (writers[c].temp /\ Resting(c)) => writers[c].at = "dead" \/ writers[c].style = "dump"

-----------------------------------------------------------------------------
EditInit ==
    /\ question \in Questions \union {[kind |-> "none"]} /\ answer = <<>> /\ file = Whole({})
    /\ writers \in IF question.kind # "none" THEN {<<>>}
                   ELSE {<<Writer(a), Writer(b)>> : a, b \in {"finally", "dump", "direct"}}

Ask ==
    /\ question.kind # "none" /\ answer = <<>>
    /\ answer' = <<Answer(question)>>
    /\ UNCHANGED <<question, file, writers>>

EditNext == Ask \/ (Rewrite /\ UNCHANGED <<question, answer>>)

(* Every helper's answer agrees with its reference definition, and rewriting  *)
(* leaves whole files.                                                        *)
EditsAgree ==
    /\ answer # <<>> => AnswerExact(question, answer[1])
    /\ FileWhole
=============================================================================
