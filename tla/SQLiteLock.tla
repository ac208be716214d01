------------------------------ MODULE SQLiteLock ------------------------------
(* SQLiteLock of core/sqlite_lock.py: the lease on one name, a row that the   *)
(* instances of any number of processes and hosts share.                      *)
(*                                                                            *)
(* Every instance has an owner id of its own and a lock that its threads take *)
(* for a whole acquire, release or refresh.  Each operation reads the clock   *)
(* of its host before it gets to the database, where it may have to wait.  The *)
(* proofs are at the end; they hold for any owners, leases and skews.         *)
EXTENDS Integers, TLAPS

CONSTANTS
    Owners,
    NoOne,      \* the row is not there
    Ttl,        \* Ttl[o]: seconds, 0 when ttl is None (0 itself is refused)
    Impatient,  \* the instances with a timeout
    Skew,       \* Skew[o]: how far the clock of o's host is ahead
    MaxSkew,
    MaxTime     \* bounds the clock

ASSUME LockAssumption ==
    /\ NoOne \notin Owners
    /\ Ttl \in [Owners -> Nat]
    /\ Impatient \subseteq Owners
    /\ MaxSkew \in Nat /\ MaxTime \in Nat
    /\ Skew \in [Owners -> 0 .. MaxSkew]

VARIABLES
    clock,
    owner,    \* the row: its owner
    expires,  \* and when it expires
    held,     \* _held
    step,     \* what goes on under the instance's lock: "free" when nothing does
    read,     \* read[o]: the time that operation has read
    until     \* history: the expiry of the last lease that was granted to or extended for o

vars == <<clock, owner, expires, held, step, read, until>>

\* expires_at is NULL
Never == -1

Step == {"free", "poll", "claim", "release", "refresh", "dead"}

Init ==
    /\ clock = 0
    /\ owner = NoOne /\ expires = Never
    /\ held = [o \in Owners |-> FALSE]
    /\ step = [o \in Owners |-> "free"]
    /\ read = [o \in Owners |-> 0]
    /\ until = [o \in Owners |-> 0]

Goto(o, s) == step' = [step EXCEPT ![o] = s]

\* time.time() on the host of o
ReadClock(o) == read' = [read EXCEPT ![o] = clock + Skew[o]]

-----------------------------------------------------------------------------

\* acquire: the instance already holds the lease (and raises), or begins to poll.
Acquire(o) ==
    /\ step[o] = "free" /\ ~held[o]
    /\ Goto(o, "poll")
    /\ UNCHANGED <<clock, owner, expires, held, read, until>>

Poll(o) ==
    /\ step[o] = "poll"
    /\ ReadClock(o)
    /\ Goto(o, "claim")
    /\ UNCHANGED <<clock, owner, expires, held, until>>

\* Bug: the row of an owner that has died is there for good.
ClaimableUnlessTaken(o) == owner = NoOne

\* Bug: the lease's last second counts as expired.
ClaimableEarly(o) == owner = NoOne \/ (expires # Never /\ expires <= read[o] + 1)

Claimable(o) == owner = NoOne \/ (expires # Never /\ expires <= read[o])

\* The expiry of a lease that o writes
Expiry(o) == IF Ttl[o] = 0 THEN Never ELSE read[o] + Ttl[o]

\* _try_claim: INSERT OR REPLACE
Claim(o) ==
    /\ step[o] = "claim" /\ Claimable(o)
    /\ owner' = o /\ expires' = Expiry(o)
    /\ until' = [until EXCEPT ![o] = Expiry(o)]
    /\ held' = [held EXCEPT ![o] = TRUE]
    /\ Goto(o, "free")
    /\ UNCHANGED <<clock, read>>

\* _try_claim finds the row taken, and acquire raises when its deadline has passed.
Refused(o) ==
    /\ step[o] = "claim" /\ ~Claimable(o)
    /\ \/ Goto(o, "poll")
       \/ o \in Impatient /\ Goto(o, "free")
    /\ UNCHANGED <<clock, owner, expires, held, read, until>>

\* The database is busy: _try_claim is false whatever the row.
Busy(o) ==
    /\ step[o] = "claim"
    /\ \/ Goto(o, "poll")
       \/ o \in Impatient /\ Goto(o, "free")
    /\ UNCHANGED <<clock, owner, expires, held, read, until>>

\* WHERE name=? AND owner=?
OwnRow(o) == owner = o

ReleaseRow(o) ==
    /\ step[o] = "free" /\ held[o]
    /\ owner' = IF OwnRow(o) THEN NoOne ELSE owner
    /\ expires' = IF OwnRow(o) THEN Never ELSE expires
    /\ Goto(o, "release")
    /\ UNCHANGED <<clock, held, read, until>>

Release(o) ==
    /\ step[o] = "release"
    /\ held' = [held EXCEPT ![o] = FALSE]
    /\ Goto(o, "free")
    /\ UNCHANGED <<clock, owner, expires, read, until>>

Refresh(o) ==
    /\ Ttl[o] # 0
    /\ step[o] = "free" /\ held[o]
    /\ ReadClock(o)
    /\ Goto(o, "refresh")
    /\ UNCHANGED <<clock, owner, expires, held, until>>

\* UPDATE ... WHERE name=? AND owner=?
Extend(o) ==
    /\ step[o] = "refresh"
    /\ expires' = IF OwnRow(o) THEN Expiry(o) ELSE expires
    /\ until' = IF OwnRow(o) THEN [until EXCEPT ![o] = Expiry(o)] ELSE until
    /\ Goto(o, "free")
    /\ UNCHANGED <<clock, owner, held, read>>

\* The database is busy, and refresh raises.
RefreshFails(o) ==
    /\ step[o] = "refresh"
    /\ Goto(o, "free")
    /\ UNCHANGED <<clock, owner, expires, held, read, until>>

\* The process dies.  Another one makes an instance, and an owner, of its own.
Die(o) ==
    /\ step[o] # "dead"
    /\ Goto(o, "dead")
    /\ UNCHANGED <<clock, owner, expires, held, read, until>>

Tick ==
    /\ clock < MaxTime
    /\ clock' = clock + 1
    /\ UNCHANGED <<owner, expires, held, step, read, until>>

Operation(o) ==
    Poll(o) \/ Claim(o) \/ Refused(o) \/ Busy(o) \/ Release(o) \/ Extend(o) \/ RefreshFails(o)

Next ==
    \/ \E o \in Owners : Operation(o) \/ Acquire(o) \/ ReleaseRow(o) \/ Refresh(o) \/ Die(o)
    \/ Tick

Spec == Init /\ [][Next]_vars

\* Time passes, an operation that has begun goes on, and the database is not busy for ever.
FairSpec ==
    /\ Spec /\ WF_vars(Tick)
    /\ \A o \in Owners :
          WF_vars(Operation(o)) /\ SF_vars(Claim(o))

-----------------------------------------------------------------------------

TypeOK ==
    /\ clock \in 0 .. MaxTime
    /\ owner \in Owners \union {NoOne}
    /\ expires \in Int
    /\ held \in [Owners -> BOOLEAN]
    /\ step \in [Owners -> Step]
    /\ read \in [Owners -> 0 .. MaxTime + MaxSkew]
    /\ until \in [Owners -> Int]

\* o is between acquire and release.
Inside(o) == held[o] /\ step[o] \notin {"release", "dead"}

\* The lease of o has not expired on any host.
Valid(o) == until[o] = Never \/ until[o] > clock + MaxSkew

\* An instance inside its critical section whose lease has not expired, on the fastest clock,
\* has the row: nobody else has replaced or deleted it, however late the claims, refreshes
\* and releases of others reached the database.
LeaseIsRespected ==
    \A o \in Owners : Inside(o) /\ Valid(o) => owner = o /\ expires = until[o]

\* No operation has read a time that is still to come on its host, and the row expires when
\* its owner's last claim or refresh says, or never.
RowIsHonest ==
    /\ \A o \in Owners : read[o] <= clock + Skew[o]
    /\ owner = NoOne => expires = Never
    /\ \A o \in Owners : owner = o =>
          IF Ttl[o] = 0 THEN expires = Never ELSE expires \in 0 .. read[o] + Ttl[o]

\* What makes LeaseIsRespected inductive
LeaseInv == LeaseIsRespected /\ RowIsHonest

\* Two instances are never inside with unexpired leases.
MutualExclusion ==
    \A o, p \in Owners : Inside(o) /\ Valid(o) /\ Inside(p) /\ Valid(p) => o = p

\* A refresh that is late does not shorten the lease, and no lease is cut by its own owner.
LeaseNeverShortens ==
    [][owner' = owner /\ expires' # expires => expires' > expires]_vars

\* "lets a crashed owner's lease expire": when an owner has died, whoever waits for its lease
\* takes it, or gives up or dies.  (A lease beyond the bounded time is left out.)
OrphansAreFreed ==
    \A o \in {u \in Owners : Ttl[u] # 0} : \A p \in Owners \ (Impatient \union {o}) :
        (owner = o /\ step[o] = "dead" /\ expires <= MaxTime /\ step[p] \in {"poll", "claim"})
        ~> (owner # o \/ step[p] = "dead")

-----------------------------------------------------------------------------
(* Proofs                                                                     *)

\* Every variable keeps its type, the times that operations have read included.
THEOREM TypeCorrect == Spec => []TypeOK
<1>1. Init => TypeOK
  BY LockAssumption DEF Init, TypeOK, Step, Never
<1>2. TypeOK /\ [Next]_vars => TypeOK'
  <2> SUFFICES ASSUME TypeOK, [Next]_vars PROVE TypeOK'
    OBVIOUS
  <2> USE LockAssumption DEF TypeOK, Step, Never
  <2>1. CASE UNCHANGED vars
    BY <2>1 DEF vars
  <2>2. CASE Tick
    BY <2>2 DEF Tick
  <2>3. ASSUME NEW o \in Owners,
               Operation(o) \/ Acquire(o) \/ ReleaseRow(o) \/ Refresh(o) \/ Die(o)
        PROVE  TypeOK'
    <3>1. Expiry(o) \in Int
      BY DEF Expiry
    <3>2. CASE Poll(o) \/ Refresh(o)
      BY <3>2 DEF Poll, Refresh, ReadClock, Goto
    <3>3. CASE Claim(o)
      BY <3>1, <3>3 DEF Claim, Goto
    <3>4. CASE Extend(o)
      BY <3>1, <3>4 DEF Extend, OwnRow, Goto
    <3>5. CASE Refused(o) \/ Busy(o) \/ RefreshFails(o) \/ Acquire(o) \/ Die(o)
      BY <3>5 DEF Refused, Busy, RefreshFails, Acquire, Die, Goto
    <3>6. CASE ReleaseRow(o)
      BY <3>6 DEF ReleaseRow, OwnRow, Goto
    <3>7. CASE Release(o)
      BY <3>7 DEF Release, Goto
    <3>8. QED
      BY <2>3, <3>2, <3>3, <3>4, <3>5, <3>6, <3>7 DEF Operation
  <2>4. QED
    BY <2>1, <2>2, <2>3 DEF Next
<1>3. QED
  BY <1>1, <1>2, PTL DEF Spec

-----------------------------------------------------------------------------

\* Claims, releases and refreshes of any owner leave every valid lease alone.
LEMMA StepKeepsLeases == TypeOK /\ LeaseInv /\ [Next]_vars => LeaseIsRespected'
<1> SUFFICES ASSUME TypeOK, LeaseInv, [Next]_vars PROVE LeaseIsRespected'
  OBVIOUS
<1> USE LockAssumption DEF TypeOK, LeaseInv, LeaseIsRespected, Inside, Valid
<1>1. CASE UNCHANGED vars
  BY <1>1 DEF vars
<1>2. CASE Tick
  BY <1>2 DEF Tick
<1>3. ASSUME NEW o \in Owners,
             Operation(o) \/ Acquire(o) \/ ReleaseRow(o) \/ Refresh(o) \/ Die(o)
      PROVE  LeaseIsRespected'
  <2>1. CASE Claim(o)
    \* What can be claimed has expired on the host of o, so nobody inside can rely on it.
    <3>1. read[o] <= clock + MaxSkew
      BY DEF RowIsHonest
    <3>2. \A p \in Owners \ {o} : Inside(p) => ~ Valid(p)
      BY <2>1, <3>1 DEF Claim, Claimable
    <3>3. QED
      BY <2>1, <3>2 DEF Claim, Goto
  <2>2. CASE Extend(o)
    BY <2>2 DEF Extend, OwnRow, Goto
  <2>3. CASE ReleaseRow(o)
    BY <2>3 DEF ReleaseRow, OwnRow, Goto
  <2>4. CASE Release(o)
    BY <2>4 DEF Release, Goto
  <2>5. CASE Acquire(o) \/ Poll(o) \/ Refused(o) \/ Busy(o) \/ Refresh(o) \/ RefreshFails(o)
    BY <2>5 DEF Acquire, Poll, Refused, Busy, Refresh, RefreshFails, Goto
  <2>6. CASE Die(o)
    BY <2>6 DEF Die, Goto
  <2>7. QED
    BY <1>3, <2>1, <2>2, <2>3, <2>4, <2>5, <2>6 DEF Operation
<1>4. QED
  BY <1>1, <1>2, <1>3 DEF Next

\* The times that were read and the row agree in every step.
LEMMA StepKeepsRow == TypeOK /\ LeaseInv /\ [Next]_vars => RowIsHonest'
<1> SUFFICES ASSUME TypeOK, RowIsHonest, [Next]_vars PROVE RowIsHonest'
  BY DEF LeaseInv
<1> USE LockAssumption DEF TypeOK, RowIsHonest
<1>1. CASE UNCHANGED vars
  BY <1>1 DEF vars
<1>2. CASE Tick
  BY <1>2 DEF Tick
<1>3. ASSUME NEW o \in Owners,
             Operation(o) \/ Acquire(o) \/ ReleaseRow(o) \/ Refresh(o) \/ Die(o)
      PROVE  RowIsHonest'
  <2>1. CASE Claim(o)
    BY <2>1 DEF Claim, Expiry
  <2>2. CASE Extend(o)
    BY <2>2 DEF Extend, Expiry, OwnRow
  <2>3. CASE ReleaseRow(o)
    BY <2>3 DEF ReleaseRow
  <2>4. CASE Poll(o) \/ Refresh(o)
    BY <2>4 DEF Poll, Refresh, ReadClock
  <2>5. CASE Acquire(o) \/ Release(o) \/ Refused(o) \/ Busy(o) \/ RefreshFails(o) \/ Die(o)
    BY <2>5 DEF Acquire, Release, Refused, Busy, RefreshFails, Die
  <2>6. QED
    BY <1>3, <2>1, <2>2, <2>3, <2>4, <2>5 DEF Operation
<1>4. QED
  BY <1>1, <1>2, <1>3 DEF Next

\* Whoever is inside with an unexpired lease has the row, for any number of hosts.
THEOREM LeasesAreRespected == Spec => []LeaseInv
<1>1. Init => LeaseInv
  BY LockAssumption DEF Init, LeaseInv, LeaseIsRespected, RowIsHonest, Inside
<1>2. TypeOK /\ LeaseInv /\ [Next]_vars => LeaseInv'
  BY StepKeepsLeases, StepKeepsRow DEF LeaseInv
<1>3. QED
  BY <1>1, <1>2, TypeCorrect, PTL DEF Spec

\* Two instances are never inside with unexpired leases.
THEOREM Exclusion == Spec => []MutualExclusion
<1>1. LeaseInv => MutualExclusion
  BY DEF LeaseInv, LeaseIsRespected, MutualExclusion
<1>2. QED
  BY <1>1, LeasesAreRespected, PTL

\* No refresh, however late it gets to the database, shortens a lease.
THEOREM LeasesGrow == Spec => LeaseNeverShortens
<1>1. TypeOK /\ LeaseInv /\ [Next]_vars =>
          [owner' = owner /\ expires' # expires => expires' > expires]_vars
  <2> SUFFICES ASSUME TypeOK, RowIsHonest, Next, owner' = owner, expires' # expires
               PROVE  expires' > expires
    BY DEF LeaseInv
  <2> USE LockAssumption DEF TypeOK, RowIsHonest
  <2>1. CASE Tick
    BY <2>1 DEF Tick
  <2>2. ASSUME NEW o \in Owners,
               Operation(o) \/ Acquire(o) \/ ReleaseRow(o) \/ Refresh(o) \/ Die(o)
        PROVE  expires' > expires
    <3>1. CASE Claim(o)
      BY <3>1 DEF Claim, Claimable, Expiry, Never
    <3>2. CASE Extend(o)
      <4>1. owner = o /\ expires' = Expiry(o)
        BY <3>2 DEF Extend, OwnRow
      <4>2. CASE Ttl[o] = 0
        BY <4>1, <4>2 DEF Expiry
      <4>3. CASE Ttl[o] # 0
        BY <4>1, <4>3 DEF Expiry
      <4>4. QED
        BY <4>2, <4>3
    <3>3. CASE ReleaseRow(o)
      BY <3>3 DEF ReleaseRow, OwnRow
    <3>4. QED
      BY <2>2, <3>1, <3>2, <3>3
         DEF Operation, Poll, Refused, Busy, RefreshFails, Release, Acquire, Refresh, Die
  <2>3. QED
    BY <2>1, <2>2 DEF Next
<1>2. QED
  BY <1>1, TypeCorrect, LeasesAreRespected, PTL DEF Spec, LeaseNeverShortens
=============================================================================
