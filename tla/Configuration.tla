----------------------------- MODULE Configuration -----------------------------
(* The configuration file and its watcher: AutomationConfig.load, apply_to    *)
(* and ConfigWatcher (core/config.py, config_watcher.py, secrets.py).  The    *)
(* watcher's thread polls the file and hands on what it loads; whoever        *)
(* started it applies the first document in its own time.  The file is edited *)
(* and secrets come and go at any moment.                                     *)
EXTENDS Naturals, FiniteSets, TLC

CONSTANTS
    ConfigFiles, \* documents: [text, secret, sinks, dedup, routes], the text being "toml", "broken" or
                 \* "garbled" (no UTF-8) and a sink [name, type, whole]
    SinkTypes,   \* _SINK_BUILDERS
    MaxRewrites  \* a bound

VARIABLES
    file,        \* the document on disk, or NoFile
    stamp,       \* its modification time and size
    secrets,     \* whether the secret it refers to can be resolved
    watcher,     \* the thread: [pc, seen, doc]
    caller,      \* what start returned and its caller has not applied yet, or NoFile
    manager,     \* the notification manager: its sinks, dedup window and configured routes
    outdated,    \* history: when the caller applied what start had loaded, the file was another
    edits

configVars == <<file, stamp, secrets, watcher, caller, manager, outdated, edits>>

NoFile == [text |-> "none"]

Idle == [pc |-> "off", seen |-> 0, doc |-> NoFile]

Nobody == [sinks |-> {}, dedup |-> "default", routes |-> {}, of |-> NoFile]

ConfigInit ==
    /\ file \in ConfigFiles
    /\ stamp = 1
    /\ secrets \in BOOLEAN
    /\ watcher = Idle
    /\ caller = NoFile
    /\ manager = Nobody
    /\ outdated = FALSE
    /\ edits = 0

-----------------------------------------------------------------------------
\* _fingerprint
Fingerprint == IF file = NoFile THEN 0 ELSE stamp

\* resolve_secret_refs: a missing secret is an error, never an empty string.
Resolves(doc) == doc.secret => secrets

\* AutomationConfig.load
Loads == file.text = "toml" /\ Resolves(file)

\* notification_sinks and notification_routes
Declared(doc) == {doc.sinks[i].name : i \in DOMAIN doc.sinks}

Unbuildable(doc) == {i \in DOMAIN doc.sinks : doc.sinks[i].type \notin SinkTypes \/ ~doc.sinks[i].whole}

Builds(doc, known) ==
    /\ Unbuildable(doc) = {}
    /\ \A r \in doc.routes : r \subseteq known \union Declared(doc)

\* What load or apply_to raises outside FileAutomationException: text that is no UTF-8, and a sink of a
\* known type without its "url", "webhook_url" or "host" when it is the first that cannot be built.
Escapes(doc) ==
    \/ doc.text = "garbled"
    \/ \E i \in Unbuildable(doc) : doc.sinks[i].type \in SinkTypes /\ \A j \in Unbuildable(doc) : i <= j

\* apply_to: sinks and routes are built before anything is registered; a bad default raises between.
ApplyTo(doc) ==
    IF ~Builds(doc, manager.sinks) THEN manager
    ELSE IF doc.dedup = "bad" THEN [manager EXCEPT !.sinks = @ \union Declared(doc), !.of = NoFile]
    ELSE [sinks |-> manager.sinks \union Declared(doc), routes |-> doc.routes, of |-> doc,
          dedup |-> IF doc.dedup = "absent" THEN manager.dedup ELSE doc.dedup]

-----------------------------------------------------------------------------
(* ConfigWatcher *)

\* start: the load comes first; a document that cannot be loaded raises
Start ==
    /\ watcher.pc \in {"off", "dead"} /\ caller = NoFile /\ Loads
    /\ watcher' = [watcher EXCEPT !.pc = "loaded", !.doc = file]
    /\ UNCHANGED <<file, stamp, secrets, caller, manager, outdated, edits>>

StartFails ==
    /\ watcher.pc \in {"off", "dead"} /\ ~Loads
    /\ UNCHANGED configVars

\* ... then the fingerprint, the thread and the return of what was loaded, ...
Arm ==
    /\ watcher.pc = "loaded"
    /\ watcher' = [watcher EXCEPT !.pc = "polling", !.seen = Fingerprint]
    /\ caller' = watcher.doc
    /\ UNCHANGED <<file, stamp, secrets, manager, outdated, edits>>

\* ... which the caller applies while the thread is already at work.
ApplyInitial ==
    /\ caller # NoFile
    /\ caller' = NoFile
    /\ manager' = ApplyTo(caller)
    /\ outdated' = (file # caller)
    /\ UNCHANGED <<file, stamp, secrets, watcher, edits>>

\* check_once: remember the new fingerprint, ...
Notice ==
    /\ watcher.pc = "polling" /\ Fingerprint # watcher.seen
    /\ watcher' = [watcher EXCEPT !.pc = "reload", !.seen = Fingerprint]
    /\ UNCHANGED <<file, stamp, secrets, caller, manager, outdated, edits>>

\* ... load what the file is by now, or log the error and wait for the next change, ...
Reload ==
    /\ watcher.pc = "reload"
    /\ IF Loads THEN watcher' = [watcher EXCEPT !.pc = "apply", !.doc = file]
       ELSE watcher' = [watcher EXCEPT !.pc = "polling"] /\ file.text # "garbled"
    /\ outdated' = FALSE
    /\ UNCHANGED <<file, stamp, secrets, caller, manager, edits>>

\* ... unless what is raised is not one of the exceptions that are caught.
ReloadEscapes ==
    /\ watcher.pc = "reload" /\ file.text = "garbled"
    /\ watcher' = [watcher EXCEPT !.pc = "dead", !.doc = file]
    /\ UNCHANGED <<file, stamp, secrets, caller, manager, outdated, edits>>

\* Bug: the fingerprint is taken after the load.
HandedOnSeen(w) == [w EXCEPT !.pc = "polling", !.seen = Fingerprint]

HandedOn(w) == [w EXCEPT !.pc = "polling"]

\* ... and hand it on; of what on_change raises, the same exceptions are logged.
OnChange ==
    /\ watcher.pc = "apply"
    /\ watcher' = IF Escapes(watcher.doc) THEN [watcher EXCEPT !.pc = "dead"] ELSE HandedOn(watcher)
    /\ manager' = ApplyTo(watcher.doc)
    /\ outdated' = FALSE
    /\ UNCHANGED <<file, stamp, secrets, caller, edits>>

\* stop
Stop ==
    /\ watcher.pc = "polling"
    /\ watcher' = [watcher EXCEPT !.pc = "off"]
    /\ UNCHANGED <<file, stamp, secrets, caller, manager, outdated, edits>>

\* The environment
Edit(doc) ==
    /\ edits < MaxRewrites /\ doc # file
    /\ file' = doc
    /\ stamp' = stamp + 1
    /\ edits' = edits + 1
    /\ UNCHANGED <<secrets, watcher, caller, manager, outdated>>

Rotate ==
    /\ edits < MaxRewrites
    /\ secrets' = ~secrets
    /\ edits' = edits + 1
    /\ UNCHANGED <<file, stamp, watcher, caller, manager, outdated>>

ConfigNext ==
    \/ Start \/ StartFails \/ Arm \/ ApplyInitial \/ Notice \/ Reload \/ ReloadEscapes \/ OnChange \/ Stop \/ Rotate
    \/ \E doc \in ConfigFiles \union {NoFile} : Edit(doc)

-----------------------------------------------------------------------------
\* When the thread has nothing left to notice, the document on disk has been applied - unless it
\* cannot be loaded or applied, became loadable without an edit, or was another when the caller of
\* start applied the one start had loaded: then an edit before the fingerprint (config_watcher.py:51)
\* is missed, and one after it is undone, until the next edit.  Errors do not end the thread (lines
\* 6-8) as far as they are FileAutomationExceptions: it dies only of a document whose error is none.
\* And whatever failed half-way, routes only name sinks that are registered.
ConfigCatchesUp ==
    /\ (watcher.pc = "polling" /\ watcher.seen = Fingerprint /\ caller = NoFile /\ ~outdated) =>
           \/ manager.of = file
           \/ ~Loads \/ file.secret
           \/ ~Builds(file, manager.sinks) \/ file.dedup = "bad"
    /\ watcher.pc = "dead" => Escapes(watcher.doc)
    /\ \A r \in manager.routes : r \subseteq manager.sinks
=============================================================================
