------------------------- MODULE MCSchedulerDispatch -------------------------
(* Small schedulers for SchedulerDispatch. *)
EXTENDS SchedulerDispatch, TLC

CONSTANTS r1, r2, r3

\* One job that is removed and registered again
AgainNameOf == [o \in {"backup#1", "backup#2"} |-> "backup"]

\* Two jobs
PairNameOf == [o \in {"backup#1", "report#1"} |-> IF o = "report#1" THEN "report" ELSE "backup"]

RunSymmetry == Permutations(Runs)
=============================================================================
