---------------------------- MODULE StorageNames -----------------------------
(* How a storage URI finds its file: parsing and writing URIs                 *)
(* (storage/uri.py), the table of mounts and scheme factories                 *)
(* (storage/resolver.py) and the Files service that works through them        *)
(* (app/file_service.py).  The text of a URI is its scheme and the pieces     *)
(* between its slashes, the first being the authority; a path has no scheme.  *)
EXTENDS Integers, Sequences, SequencesExt, FiniteSets

CONSTANTS
    Texts,       \* [scheme, pieces]: URIs a client may write
    Schemes,     \* the schemes that have a default factory
    Alias,       \* Alias[s]: the canonical form of a scheme's other spellings
    Ambiguous,   \* schemes written with a colon and no slashes after it: neither a URI nor a path
    Cwd,         \* the working directory
    Credentials, \* authorities with user information or white space in them
    Folded,      \* Folded[a]: an authority without regard to case
    MountPoints, \* texts that may be mounted
    Backends,
    Files,       \* [size, kind]: files a client may preview, kind "text" or "binary"
    FetchLimit, HexBytes,
    MaxChanges

VARIABLES
    part,        \* which of the three a behaviour uses: "resolver", "service" or "preview"
    mounts,      \* the mount table: [key, backend]
    factories,   \* the schemes that have a factory
    changes,     \* changes so far
    lookup,      \* a client's lookup: its URI and what it was given
    disk,        \* what is at each place of the Files service's storage
    job,         \* the call of the Files service
    peek         \* a preview: the file and what is shown of it

tableVars == <<mounts, factories, changes, lookup>>

serviceVars == <<disk, job>>

-----------------------------------------------------------------------------
(* URIs *)

Refused == [scheme |-> "refused", authority |-> "", path |-> <<>>]

CanonicalScheme(s) == IF s \in DOMAIN Alias THEN Alias[s] ELSE s

\* Empty and "." segments are dropped; ".." is an error.
NormalizePath(pieces) == SelectSeq(pieces, LAMBDA p : p \notin {"", "."})

IsRefused(pieces) == ".." \in Range(pieces)

StorageURI(scheme, authority, pieces) ==
    IF authority \in Credentials \/ IsRefused(pieces) THEN Refused
    ELSE [scheme |-> CanonicalScheme(scheme), authority |-> authority, path |-> NormalizePath(pieces)]

\* os.path.abspath: an absolute path starts at the root; ".." leads up, and not above the root.
Absolute(pieces) ==
    LET Step(path, p) == CASE p \in {"", "."} -> path
                           [] p = ".." -> IF path = <<>> THEN <<>> ELSE Front(path)
                           [] OTHER -> Append(path, p)
    IN  FoldLeft(Step, IF Head(pieces) = "" THEN <<>> ELSE Cwd, pieces)

LocalPathToUri(pieces) == StorageURI("local", "", Absolute(pieces))

\* What has no scheme is a path of the local file system.
Parse(text) ==
    IF text.scheme = "none"
    THEN IF text.pieces = <<"">> THEN Refused ELSE LocalPathToUri(text.pieces)
    ELSE IF text.scheme \in Ambiguous THEN Refused
    ELSE StorageURI(text.scheme, Head(text.pieces), Tail(text.pieces))

\* str(uri): the root of an authority is written without a slash.
Written(u) ==
    [scheme |-> u.scheme,
     pieces |-> <<u.authority>> \o (IF u.path = <<>> /\ u.authority = "" THEN <<"">> ELSE u.path)]

Name(u) == IF u.path = <<>> THEN "" ELSE Last(u.path)

ParentOf(u) == [u EXCEPT !.path = IF @ = <<>> THEN <<>> ELSE Front(@)]

JoinPath(u, pieces) == StorageURI(u.scheme, u.authority, u.path \o pieces)

(* A URI written out is read back as the same URI, a name put below it is its *)
(* name and leads back to it, and no URI leads above its root.                *)
UrisAgree ==
    LET u == lookup.uri
    IN  u # Refused =>
          /\ Parse(Written(u)) = u
          /\ Name(JoinPath(u, <<".", "x">>)) = "x" /\ ParentOf(JoinPath(u, <<"x", "">>)) = u
          /\ JoinPath(u, <<"x", "..">>) = Refused
          /\ {"", ".", ".."} \intersect Range(u.path) = {}

-----------------------------------------------------------------------------
(* The resolver *)

MountKey(u) == <<u.scheme, Folded[u.authority], u.path>>

\* _below: what is left of a path below a prefix, as <<rest>>; <<>> when it is not below it
BelowPrefix(path, prefix) ==
    IF IsPrefix(prefix, path) THEN <<SubSeq(path, Len(prefix) + 1, Len(path))>> ELSE <<>>

Covers(m, u) ==
    m.key[1] = u.scheme /\ m.key[2] = Folded[u.authority] /\ BelowPrefix(u.path, m.key[3]) # <<>>

\* The longest prefix wins.
IsBest(m, u) == \A n \in mounts : Covers(n, u) => Len(n.key[3]) <= Len(m.key[3])

FindMount(u) == {m \in mounts : Covers(m, u) /\ IsBest(m, u)}

Given(backend, path) == [backend |-> backend, path |-> path]

Unserved == Given("exception", <<>>)

\* A local file has no authority, a store in memory may have one, a bucket is one.
FactoryTakes(u) ==
    CASE u.scheme = "local" -> u.authority = ""
      [] u.scheme = "memory" -> TRUE
      [] OTHER -> u.authority # ""

FromFactory(u) ==
    IF u.scheme \in factories /\ FactoryTakes(u) THEN Given(u.scheme, u.path) ELSE Unserved

Mount(t, b) ==
    LET key == MountKey(Parse(t))
    IN  /\ changes < MaxChanges /\ changes' = changes + 1
        /\ mounts' = {m \in mounts : m.key # key} \union {[key |-> key, backend |-> b]}
        /\ UNCHANGED <<factories, lookup>>

Unmount(t) ==
    /\ changes < MaxChanges /\ changes' = changes + 1
    /\ mounts' = {m \in mounts : m.key # MountKey(Parse(t))}
    /\ UNCHANGED <<factories, lookup>>

RegisterScheme(s) ==
    /\ changes < MaxChanges /\ changes' = changes + 1
    /\ factories' \in {factories \union {s}, factories \ {s}}
    /\ UNCHANGED <<mounts, lookup>>

\* The table is read under the lock; the answer is made from what was read.
Resolve(t) ==
    LET u == Parse(t)
        given == IF u = Refused THEN {Unserved}
                 ELSE IF FindMount(u) = {} THEN {FromFactory(u)}
                 ELSE {Given(m.backend, BelowPrefix(u.path, m.key[3])[1]) : m \in FindMount(u)}
    IN  /\ ~ lookup.made
        /\ lookup' \in {[made |-> TRUE, uri |-> u, given |-> g, mounts |-> mounts, factories |-> factories] : g \in given}
        /\ UNCHANGED <<mounts, factories, changes>>

\* Reference: the nearest of the URI and its parents that is mounted
Ancestors(u) == {[u EXCEPT !.path = SubSeq(@, 1, n)] : n \in 0..Len(u.path)}

Nearest(u, table) ==
    {m \in table : \E a \in Ancestors(u) :
        /\ m.key = MountKey(a)
        /\ \A b \in Ancestors(u) : Len(b.path) > Len(a.path) => \A n \in table : n.key # MountKey(b)}

(* A lookup gives the backend mounted nearest above the URI when the table    *)
(* was read, with what is left of the path, else the scheme's factory.        *)
LookupExact ==
    lookup.given # Unserved =>
        \/ \E m \in Nearest(lookup.uri, lookup.mounts) :
              lookup.given.backend = m.backend /\ m.key[3] \o lookup.given.path = lookup.uri.path
        \/ /\ Nearest(lookup.uri, lookup.mounts) = {} /\ lookup.uri.scheme \in lookup.factories
           /\ lookup.given = Given(lookup.uri.scheme, lookup.uri.path)

-----------------------------------------------------------------------------
(* The Files service, on a storage with the places f, d, d/f, g and g/f       *)

Places == {"f", "d", "df", "g", "gf"}

Above == [df |-> "d", gf |-> "g"]

Inside == [d |-> "df", g |-> "gf"]

NoCall == [op |-> "none", at |-> "idle", source |-> "f", target |-> "f", overwrite |-> FALSE,
           native |-> TRUE, listed |-> FALSE, seen |-> disk, meddled |-> FALSE, outcome |-> "none"]

Holds(p) == disk[p] \notin {"none", "dir"}

\* origin.stat(): a directory is copied as a tree, and never moved.
Begin(op, s, t, o, native) ==
    LET next == IF Holds(s) THEN "destination" ELSE IF disk[s] = "dir" /\ op = "copy" THEN "tree" ELSE "end"
    IN  /\ job.at = "idle"
        /\ job' = [NoCall EXCEPT !.op = op, !.source = s, !.target = t, !.overwrite = o, !.native = native,
                                 !.at = next, !.outcome = IF next = "end" THEN "refused" ELSE "none"]
        /\ UNCHANGED <<changes, disk>>

Ends(outcome) == job' = [job EXCEPT !.at = "end", !.outcome = outcome]

Where(t) == IF disk[t] = "dir" THEN Inside[t] ELSE t

Destination ==
    /\ job.at = "destination"
    /\ job' = [job EXCEPT !.at = "act", !.target = Where(@)]
    /\ UNCHANGED <<changes, disk>>

\* The backend's contract (StorageBackend): a file goes where no directory is, below no file, and not
\* onto itself.
Lands(s, t) ==
    /\ Holds(s) /\ s # t /\ disk[t] # "dir"
    /\ t \in DOMAIN Above => ~ Holds(Above[t])
    /\ job.overwrite \/ disk[t] = "none"

Pulled(s, t) ==
    [p \in Places |->
        IF p = t THEN disk[s] ELSE IF t \in DOMAIN Above /\ p = Above[t] THEN "dir" ELSE disk[p]]

\* copy_to, or move_to: a rename where the backends can, a copy and a delete otherwise
Act ==
    /\ job.at = "act"
    /\ IF ~ Lands(job.source, job.target) THEN Ends("refused") /\ UNCHANGED disk
       ELSE IF job.op = "copy"
       THEN disk' = Pulled(job.source, job.target) /\ job' = [job EXCEPT !.at = "stat"]
       ELSE IF job.native
       THEN /\ disk' = [Pulled(job.source, job.target) EXCEPT ![job.source] = "none"]
            /\ job' = [job EXCEPT !.at = "stat"]
       ELSE disk' = Pulled(job.source, job.target) /\ job' = [job EXCEPT !.at = "remove"]
    /\ UNCHANGED changes

RemoveOrigin ==
    /\ job.at = "remove"
    /\ IF disk[job.source] = "none" THEN Ends("refused") /\ UNCHANGED disk
       ELSE disk' = [disk EXCEPT ![job.source] = "none"] /\ job' = [job EXCEPT !.at = "stat"]
    /\ UNCHANGED changes

\* The answer is the entry at the target.
StatTarget ==
    /\ job.at = "stat"
    /\ Ends(IF disk[job.target] = "none" THEN "refused" ELSE "done")
    /\ UNCHANGED <<changes, disk>>

\* copy_tree lists both sides (the listing of a file raises) ...
ListTrees ==
    /\ job.at = "tree"
    /\ IF job.source = job.target \/ Holds(job.target) \/ disk[job.source] # "dir" THEN Ends("refused")
       ELSE job' = [job EXCEPT !.at = "files",
                               !.listed = /\ Holds(Inside[job.source])
                                          /\ job.overwrite \/ ~ Holds(Inside[job.target])]
    /\ UNCHANGED <<changes, disk>>

\* ... and copies what it has listed; a file that fails is left out of the copy and not told of.
CopyListed ==
    /\ job.at = "files"
    /\ disk' = IF job.listed /\ Holds(Inside[job.source]) /\ ~ Holds(job.target)
               THEN Pulled(Inside[job.source], Inside[job.target]) ELSE disk
    /\ job' = [job EXCEPT !.at = "stat"]
    /\ UNCHANGED changes

\* Another client: a directory with entries needs recursive.
DeletePlace(p, recursive) ==
    /\ changes < MaxChanges /\ changes' = changes + 1 /\ disk[p] # "none"
    /\ disk[p] = "dir" => recursive \/ disk[Inside[p]] = "none"
    /\ disk' = [q \in Places |-> IF q = p \/ (q \in DOMAIN Above /\ p = Above[q]) THEN "none" ELSE disk[q]]
    /\ job' = [job EXCEPT !.meddled = TRUE]

MakeDirectory(p) ==
    /\ changes < MaxChanges /\ changes' = changes + 1 /\ disk[p] = "none" /\ p \in DOMAIN Inside
    /\ disk' = [disk EXCEPT ![p] = "dir"]
    /\ job' = [job EXCEPT !.meddled = TRUE]

Touched(t) == {t} \union (IF t \in DOMAIN Above THEN {Above[t]} ELSE {})

(* What the service answers is what it did: the content is at the target, or  *)
(* in it when it was a directory, a move has left the source, a tree that was *)
(* copied is in the target, no other place has changed, and what it refused   *)
(* it did not touch.                                                          *)
ServiceExact ==
    (job.at = "end" /\ ~ job.meddled) =>
        IF job.outcome = "refused" THEN disk = job.seen
        ELSE IF job.seen[job.source] = "dir"
        THEN LET s == Inside[job.source]
                 t == Inside[job.target]
             IN  /\ job.seen[s] # "none" /\ (job.overwrite \/ job.seen[t] = "none") => disk[t] = job.seen[s]
                 /\ job.seen[t] # "none" /\ ~ job.overwrite => disk[t] = job.seen[t]
                 /\ \A p \in Places \ Touched(t) : disk[p] = job.seen[p]
        ELSE /\ disk[job.target] = job.seen[job.source]
             /\ disk[job.source] = IF job.op = "copy" THEN job.seen[job.source] ELSE "none"
             /\ ~ job.overwrite => job.seen[job.target] = "none"
             /\ \A p \in Places \ ({job.source} \union Touched(job.target)) : disk[p] = job.seen[p]

\* A file sent to a directory is refused only for itself, or a file of its name it may not replace.
GoesInside ==
    (job.at = "end" /\ job.outcome = "refused" /\ ~ job.meddled /\ job.seen[job.source] \notin {"none", "dir"}) =>
        \/ job.seen[job.target] # "none" /\ (~ job.overwrite \/ job.source = job.target)
        \/ job.target \in DOMAIN Above /\ job.seen[Above[job.target]] \notin {"none", "dir"}

-----------------------------------------------------------------------------
(* Previews *)

Least(a, b) == IF a < b THEN a ELSE b

\* The beginning of a file; a large remote one is not fetched.
Preview(f, limit, inPlace) ==
    IF ~ inPlace /\ f.size > FetchLimit THEN [shown |-> 0, truncated |-> TRUE]
    ELSE LET data == Least(limit + 1, f.size)
             sample == Least(limit, data)
         IN  IF f.kind = "binary"
             THEN [shown |-> Least(sample, HexBytes), truncated |-> data > limit \/ sample > HexBytes]
             ELSE [shown |-> sample, truncated |-> data > limit]

(* A preview says it is cut exactly when something is not shown.              *)
PreviewsAgree == peek.truncated <=> peek.shown < peek.size

Peek(f, limit, inPlace) ==
    LET p == Preview(f, limit, inPlace)
    IN  peek' = [size |-> f.size, shown |-> p.shown, truncated |-> p.truncated]

-----------------------------------------------------------------------------
NameInit ==
    /\ part \in {"resolver", "service", "preview"}
    /\ peek = [size |-> 0, shown |-> 0, truncated |-> FALSE]
    /\ mounts = {} /\ factories = Schemes /\ changes = 0
    /\ lookup = [made |-> FALSE, uri |-> Refused, given |-> Unserved, mounts |-> {}, factories |-> {}]
    /\ disk \in {t \in [Places -> {"none", "dir", "x", "y"}] :
                    /\ t["f"] # "dir" /\ \A p \in DOMAIN Above : t[p] # "dir" /\ (t[p] # "none" => t[Above[p]] = "dir")
                    /\ part # "service" => \A p \in Places : t[p] = "none"}
    /\ job = NoCall

Resolving ==
    \/ \E t \in MountPoints : Unmount(t) \/ \E b \in Backends : Mount(t, b)
    \/ \E s \in Schemes : RegisterScheme(s)
    \/ \E t \in Texts : Resolve(t)

Serving ==
    \/ \E op \in {"copy", "move"}, s \in {"f", "d", "df"}, t \in Places, o, native \in BOOLEAN :
          (disk[s] = "dir" => t \in DOMAIN Inside) /\ Begin(op, s, t, o, native)
    \/ Destination \/ Act \/ RemoveOrigin \/ StatTarget \/ ListTrees \/ CopyListed
    \/ \E p \in Places, recursive \in BOOLEAN : DeletePlace(p, recursive)
    \/ \E p \in Places : MakeDirectory(p)

NameNext ==
    \/ part = "resolver" /\ Resolving /\ UNCHANGED <<part, serviceVars, peek>>
    \/ part = "service" /\ Serving /\ UNCHANGED <<part, mounts, factories, lookup, peek>>
    \/ /\ part = "preview"
       /\ \E f \in Files, limit \in 1..4, inPlace \in BOOLEAN : Peek(f, limit, inPlace)
       /\ UNCHANGED <<part, tableVars, serviceVars>>

(* Names lead where they say. *)
NamesLead == UrisAgree /\ LookupExact /\ ServiceExact /\ GoesInside /\ PreviewsAgree
=============================================================================
