--------------------------- MODULE MCCoordination ---------------------------
(* Small instances of what coordinates work inside and between processes: the *)
(* shared lease (SQLiteLock), the action graph (DagExecutor) and the watchers  *)
(* of directories (FileWatching).  A behaviour exercises one of them; the      *)
(* others stay as they start.                                                  *)
EXTENDS SQLiteLock, DagExecutor, FileWatching

VARIABLE component

\* Two leases that expire and one that does not; the second host's clock is ahead.
MixedTtl == [o \in Owners |-> IF o = "c" THEN 0 ELSE 2]

AheadB == [o \in Owners |-> IF o = "b" THEN 1 ELSE 0]

\* A diamond with a tail, a side branch into the tail and a last node after one arm
DiamondNodes == {"fetch", "left", "right", "merge", "side", "tail", "audit", "report"}

DiamondDeps ==
    [n \in DiamondNodes |->
        CASE n \in {"left", "right"} -> {"fetch"}
          [] n = "merge" -> {"left", "right"}
          [] n = "tail" -> {"merge", "side"}
          [] n = "audit" -> {"left"}
          [] n = "report" -> {"audit", "side"}
          [] OTHER -> {}]

\* What the theorems about DagExecutor and FileWatching ask of their constants
ASSUME ConstantsAreSound == GraphOK /\ WatchOK

\* A file saved, a directory touched, a move out of an ignored directory
SomeEvents ==
    {[kind |-> "modified", directory |-> FALSE, paths |-> {"a"}],
     [kind |-> "modified", directory |-> TRUE, paths |-> {"a"}],
     [kind |-> "moved", directory |-> FALSE, paths |-> {"tmp", "b"}]}

MCInit ==
    /\ component \in {"lock", "dag", "debouncer", "registry"}
    /\ Init /\ DagInit /\ WatchInit
    /\ component # "dag" => failFast

LockMoves == component = "lock" /\ Next /\ UNCHANGED <<component, dagVars, watchVars>>

DagMoves == component = "dag" /\ DagNext /\ UNCHANGED <<component, vars, watchVars>>

DebouncerMoves == component = "debouncer" /\ Debounce /\ UNCHANGED <<component, vars, dagVars, registryVars>>

RegistryMoves == component = "registry" /\ Registry /\ UNCHANGED <<component, vars, dagVars, debounceVars>>

MCNext == LockMoves \/ DagMoves \/ DebouncerMoves \/ RegistryMoves

\* The fairness of SQLiteLock and of FileWatching
MCSpec ==
    /\ MCInit
    /\ [][MCNext]_<<component, vars, dagVars, watchVars>>
    /\ WF_watchVars(component = "debouncer" /\ TimePasses /\ UNCHANGED <<component, vars, dagVars, registryVars>>)
    /\ \A l \in Loops :
          WF_watchVars(component = "debouncer" /\ WakeUp(l) /\ UNCHANGED <<component, vars, dagVars, registryVars>>)
    /\ WF_vars(component = "lock" /\ Tick /\ UNCHANGED <<component, dagVars, watchVars>>)
    /\ \A o \in Owners :
          /\ WF_vars(component = "lock" /\ Operation(o) /\ UNCHANGED <<component, dagVars, watchVars>>)
          /\ SF_vars(component = "lock" /\ Claim(o) /\ UNCHANGED <<component, dagVars, watchVars>>)
=============================================================================
