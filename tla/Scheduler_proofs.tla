-------------------------- MODULE Scheduler_proofs --------------------------
(* Proofs about the parts of the scheduler around its dispatcher: what is      *)
(* armed (SchedulerArming), what is polled (SchedulerClock) and what a run     *)
(* does with its target (SchedulerTargets).  Each has an inductive invariant   *)
(* of its own; the dispatcher's proofs are module SchedulerDispatch_proofs.    *)
EXTENDS SchedulerArming, SchedulerClock, SchedulerTargets, FiniteSetTheorems, TLAPS

-----------------------------------------------------------------------------
(* Arming: any number of names, registrations, starts and triggers.          *)

\* A scheduler starts without jobs.
LEMMA InitArms == ConstantsOK /\ ArmInit => ArmInv
<1> SUFFICES ASSUME ConstantsOK, ArmInit PROVE ArmInv
  OBVIOUS
<1>1. (CHOOSE n \in JobNames : TRUE) \in JobNames
  BY DEF ConstantsOK
<1>2. ArmTypeOK
  <2>1. name \in [Armings -> JobNames] /\ live \in [Armings -> 0..Triggers]
    BY <1>1 DEF ArmInit, ConstantsOK
  <2> QED
    BY <2>1 DEF ArmInit, ArmTypeOK, ArmStages
<1> QED
  BY <1>2 DEF ArmInit, ConstantsOK, ArmInv, SlotsAreNamed, KeptIsFull, LiveIsKnown, BooksAreComplete, OneThread

\* The locked section of start gives every job without a slot an arming of its own, under its name.
LEMMA StartGives ==
    ASSUME ConstantsOK, ArmInv, NEW caller \in SUBSET Armings, StartSection(caller),
           \A a \in caller : armPc[a] = "armed"
    PROVE  /\ \A n \in JobNames : armed[n] # Nothing => armed'[n] = armed[n]
           /\ \A n \in JobNames : jobOf[n] # Nothing => armed'[n] # Nothing
           /\ \A n \in JobNames : armed[n] = Nothing /\ armed'[n] # Nothing =>
                 /\ armed'[n] \in Armings /\ jobOf[n] # Nothing
                 /\ armPc[armed'[n]] = "idle" /\ armPc'[armed'[n]] = "arming" /\ name'[armed'[n]] = n
           /\ armed' \in [JobNames -> Armings \union {Nothing}]
           /\ armPc' \in [Armings -> ArmStages] /\ name' \in [Armings -> JobNames]
           /\ \A a \in Armings : armPc[a] # "idle" =>
                 name'[a] = name[a] /\ armPc'[a] = IF a \in caller THEN "done" ELSE armPc[a]
           /\ \A a \in Armings : armPc[a] = "idle" => armPc'[a] \in {"idle", "arming"}
<1>1. PICK f \in [Unarmed -> {a \in Armings : armPc[a] = "idle"}] :
         LET started == {f[n] : n \in Unarmed} IN
         /\ \A m, n \in Unarmed : f[m] = f[n] => m = n
         /\ armed' = [n \in JobNames |-> IF n \in Unarmed THEN f[n] ELSE armed[n]]
         /\ armPc' = [a \in Armings |-> IF a \in started THEN "arming"
                                     ELSE IF a \in caller THEN "done" ELSE armPc[a]]
         /\ name' = [a \in Armings |->
                        IF a \in started THEN CHOOSE n \in Unarmed : f[n] = a ELSE name[a]]
  BY DEF StartSection
<1> DEFINE started == {f[n] : n \in Unarmed}
           named(a) == CHOOSE n \in Unarmed : f[n] = a
<1>2. /\ \A m, n \in Unarmed : f[m] = f[n] => m = n
      /\ armed' = [n \in JobNames |-> IF n \in Unarmed THEN f[n] ELSE armed[n]]
      /\ armPc' = [a \in Armings |-> IF a \in started THEN "arming" ELSE IF a \in caller THEN "done" ELSE armPc[a]]
      /\ name' = [a \in Armings |-> IF a \in started THEN named(a) ELSE name[a]]
  BY <1>1
<1>3. Unarmed \subseteq JobNames /\ \A n \in JobNames : n \in Unarmed <=> jobOf[n] # Nothing /\ armed[n] = Nothing
  BY DEF Unarmed
<1>4. \A n \in Unarmed : f[n] \in Armings /\ armPc[f[n]] = "idle" /\ f[n] \in started
  OBVIOUS
<1>5. \A a \in started : a \in Armings /\ armPc[a] = "idle" /\ named(a) \in Unarmed /\ f[named(a)] = a
  OBVIOUS
<1>6. \A n \in Unarmed : named(f[n]) = n
  BY <1>2, <1>4, <1>5
<1>7. ArmTypeOK
  BY DEF ArmInv
<1> HIDE DEF started, named
<1>8. /\ armed' \in [JobNames -> Armings \union {Nothing}]
      /\ armPc' \in [Armings -> ArmStages] /\ name' \in [Armings -> JobNames]
  BY <1>2, <1>3, <1>4, <1>5, <1>7 DEF ArmTypeOK, ArmStages
<1>9. \A n \in Unarmed : armed'[n] = f[n] /\ armPc'[f[n]] = "arming" /\ name'[f[n]] = n /\ f[n] # Nothing
  BY <1>2, <1>3, <1>4, <1>6 DEF ConstantsOK
<1>10. \A n \in JobNames \ Unarmed : armed'[n] = armed[n]
  BY <1>2
<1>11. \A a \in Armings \ started : name'[a] = name[a] /\ armPc'[a] = IF a \in caller THEN "done" ELSE armPc[a]
  BY <1>2
<1>12. \A a \in Armings : armPc[a] = "idle" => armPc'[a] \in {"idle", "arming"}
  BY <1>2
<1> QED
  BY <1>3, <1>4, <1>5, <1>8, <1>9, <1>10, <1>11, <1>12

\* start, and the end of a registration that starts the scheduler
LEMMA StartArms ==
    ASSUME ConstantsOK, ArmInv, NEW caller \in SUBSET Armings, StartSection(caller),
           \A a \in caller : armPc[a] = "armed"
    PROVE  ArmInv'
<1> USE DEF ArmInv, ConstantsOK
<1>1. /\ \A n \in JobNames : armed[n] # Nothing => armed'[n] = armed[n]
      /\ \A n \in JobNames : jobOf[n] # Nothing => armed'[n] # Nothing
      /\ \A n \in JobNames : armed[n] = Nothing /\ armed'[n] # Nothing =>
            /\ armed'[n] \in Armings /\ jobOf[n] # Nothing
            /\ armPc[armed'[n]] = "idle" /\ armPc'[armed'[n]] = "arming" /\ name'[armed'[n]] = n
      /\ armed' \in [JobNames -> Armings \union {Nothing}]
      /\ armPc' \in [Armings -> ArmStages] /\ name' \in [Armings -> JobNames]
      /\ \A a \in Armings : armPc[a] # "idle" =>
            name'[a] = name[a] /\ armPc'[a] = IF a \in caller THEN "done" ELSE armPc[a]
      /\ \A a \in Armings : armPc[a] = "idle" => armPc'[a] \in {"idle", "arming"}
  BY StartGives
<1>2. down' = FALSE /\ UNCHANGED <<jobOf, register, live, kept, doomed, autostart>> /\ EnsureThread
  BY DEF StartSection
<1>3. ArmTypeOK'
  <2>1. thread' \in Threads \union {Nothing} /\ ticking' \subseteq Threads
    BY <1>2 DEF ArmTypeOK, EnsureThread
  <2> QED
    BY <1>1, <1>2, <2>1 DEF ArmTypeOK
<1>4. SlotsAreNamed'
  BY <1>1, <1>2 DEF ArmTypeOK, SlotsAreNamed
<1>5. KeptIsFull'
  BY <1>1, <1>2 DEF ArmTypeOK, SlotsAreNamed, KeptIsFull
<1>6. LiveIsKnown'
  BY <1>1, <1>2 DEF ArmTypeOK, SlotsAreNamed, LiveIsKnown
<1>7. BooksAreComplete'
  <2> SUFFICES ASSUME Unrefused' PROVE BooksAreComplete'
    BY DEF BooksAreComplete
  <2>1. Unrefused
    BY <1>1 DEF Unrefused
  <2>2. \A a \in kept : a \in Armings /\ armPc[a] # "idle" /\ name[a] \in JobNames /\ name'[a] = name[a]
    BY <1>1 DEF ArmTypeOK, SlotsAreNamed
  <2>3. \A a \in kept' : armed'[name'[a]] = a \/ a \in doomed'
    BY <1>1, <1>2, <2>1, <2>2 DEF BooksAreComplete
  <2>4. \A n \in JobNames : armed'[n] # Nothing => jobOf'[n] # Nothing
    BY <1>1, <1>2, <2>1 DEF BooksAreComplete
  <2>5. \A n \in JobNames : jobOf'[n] # Nothing => armed'[n] # Nothing
    BY <1>1, <1>2
  <2> QED
    BY <2>3, <2>4, <2>5 DEF BooksAreComplete
<1>8. OneThread'
  BY <1>2 DEF OneThread, EnsureThread
<1> QED
  BY <1>3, <1>4, <1>5, <1>6, <1>7, <1>8

\* A step of one call of _arm, _register or _disarm
LEMMA StepArms ==
    ASSUME ConstantsOK, ArmInv, NEW a \in Armings, Step(a)
    PROVE  ArmInv'
<1> USE DEF ArmInv, ConstantsOK, ArmStages
<1>1. CASE ArmOne(a)
  BY <1>1 DEF ArmOne, ArmTypeOK, SlotsAreNamed, KeptIsFull, LiveIsKnown, BooksAreComplete, OneThread, Unrefused
<1>2. CASE ArmRefused(a)
  BY <1>2 DEF ArmRefused, ArmTypeOK, SlotsAreNamed, KeptIsFull, LiveIsKnown, BooksAreComplete, OneThread, Unrefused
<1>3. CASE ArmClose(a)
  BY <1>3 DEF ArmClose, SlotRegistered, ArmTypeOK, SlotsAreNamed, KeptIsFull, LiveIsKnown, BooksAreComplete, OneThread, Unrefused
<1>4. CASE ArmDisarm(a)
  BY <1>4 DEF ArmDisarm, AfterDisarm, ArmTypeOK, SlotsAreNamed, KeptIsFull, LiveIsKnown, BooksAreComplete, OneThread, Unrefused
<1>5. CASE Undo(a)
  BY <1>5 DEF Undo, ArmTypeOK, SlotsAreNamed, KeptIsFull, LiveIsKnown, BooksAreComplete, OneThread, Unrefused
<1>6. CASE Registered(a)
  <2>1. CASE StartSection({a})
    BY <1>6, <2>1, StartArms DEF Registered
  <2>2. CASE ~autostart
    BY <1>6, <2>2 DEF Registered, ArmTypeOK, SlotsAreNamed, KeptIsFull, LiveIsKnown, BooksAreComplete, OneThread, Unrefused
  <2> QED
    BY <1>6, <2>1, <2>2 DEF Registered
<1>7. CASE Disarm(a)
  BY <1>7 DEF Disarm, ArmTypeOK, SlotsAreNamed, KeptIsFull, LiveIsKnown, BooksAreComplete, OneThread, Unrefused
<1> QED
  BY <1>1, <1>2, <1>3, <1>4, <1>5, <1>6, <1>7 DEF Step

\* Every step keeps the books of slots, jobs and triggers.
LEMMA NextArms == ConstantsOK /\ ArmInv /\ [ArmNext]_armVars => ArmInv'
<1> SUFFICES ASSUME ConstantsOK, ArmInv, [ArmNext]_armVars PROVE ArmInv'
  OBVIOUS
<1> USE DEF ArmInv, ConstantsOK, ArmStages
<1>1. ASSUME NEW a \in Armings, NEW n \in JobNames, RegisterJob(a, n) PROVE ArmInv'
  <2>1. ArmTypeOK'
    BY <1>1 DEF RegisterJob, ArmTypeOK
  <2>2. SlotsAreNamed'
    BY <1>1 DEF RegisterJob, ArmTypeOK, SlotsAreNamed
  <2>3. KeptIsFull'
    BY <1>1 DEF RegisterJob, ArmTypeOK, SlotsAreNamed, KeptIsFull
  <2>4. LiveIsKnown'
    BY <1>1 DEF RegisterJob, ArmTypeOK, SlotsAreNamed, LiveIsKnown
  <2>5. BooksAreComplete'
    BY <1>1 DEF RegisterJob, ArmTypeOK, SlotsAreNamed, KeptIsFull, BooksAreComplete, Unrefused
  <2>6. OneThread'
    BY <1>1 DEF RegisterJob, OneThread
  <2> QED
    BY <2>1, <2>2, <2>3, <2>4, <2>5, <2>6
<1>2. ASSUME NEW n \in JobNames, RemoveJob(n) PROVE ArmInv'
  BY <1>2 DEF RemoveJob, Taken, ArmTypeOK, SlotsAreNamed, KeptIsFull, LiveIsKnown, BooksAreComplete, OneThread, Unrefused
<1>3. CASE Start
  BY <1>3, StartArms DEF Start
<1>4. CASE RemoveAll
  BY <1>4 DEF RemoveAll, Taken, ArmTypeOK, SlotsAreNamed, KeptIsFull, LiveIsKnown, BooksAreComplete, OneThread, Unrefused
<1>5. CASE Shutdown
  BY <1>5 DEF Shutdown, Taken, ArmTypeOK, SlotsAreNamed, KeptIsFull, LiveIsKnown, BooksAreComplete, OneThread, Unrefused
<1>6. CASE UNCHANGED armVars
  BY <1>6 DEF armVars, ArmTypeOK, SlotsAreNamed, KeptIsFull, LiveIsKnown, BooksAreComplete, OneThread, Unrefused
<1> QED
  BY <1>1, <1>2, <1>3, <1>4, <1>5, <1>6, StepArms DEF ArmNext

\* The books say what ArmingSound promises.
LEMMA ArmsAreSound == ConstantsOK /\ ArmInv => ArmingSound
<1> SUFFICES ASSUME ConstantsOK, ArmInv PROVE ArmingSound
  OBVIOUS
<1>1. TriggersBelong
  BY DEF ArmInv, ConstantsOK, TriggersBelong, Quiet, ArmTypeOK, LiveIsKnown, BooksAreComplete
<1>2. RunningMeansArmed
  BY DEF ArmInv, ConstantsOK, RunningMeansArmed, Quiet, ArmTypeOK, SlotsAreNamed, KeptIsFull, BooksAreComplete
<1>3. CleanShutdown
  BY <1>1 DEF ArmInv, ConstantsOK, TriggersBelong, CleanShutdown, ShutdownStopsAll, ArmTypeOK, OneThread
<1>4. FailureLeavesNothing
  BY DEF ArmInv, ConstantsOK, FailureLeavesNothing, ArmTypeOK, SlotsAreNamed, KeptIsFull, LiveIsKnown
<1> QED
  BY <1>1, <1>2, <1>3, <1>4 DEF ArmingSound

\* Registration and arming for any number of threads and jobs: what can fire belongs to a registered job
\* the scheduler can disarm, a running scheduler has every job armed, a shutdown stops everything unless
\* an arming was refused before, and a refused registration leaves nothing behind.
THEOREM ArmingIsSound == ASSUME ConstantsOK PROVE ArmSpec => []ArmingSound
<1>1. ArmInit => ArmInv
  BY InitArms
<1>2. ArmInv /\ [ArmNext]_armVars => ArmInv'
  BY NextArms
<1>3. ArmInv => ArmingSound
  BY ArmsAreSound
<1> QED
  BY <1>1, <1>2, <1>3, PTL DEF ArmSpec

-----------------------------------------------------------------------------
(* The clock: any clocks, threads, jobs and cron fields.                     *)

(* Cron fields                                                                *)

\* A remainder is zero exactly for a multiple.
LEMMA Multiples ==
    ASSUME NEW a \in Nat, NEW b \in Nat \ {0}
    PROVE  a % b = 0 <=> \E n \in 0..a : a = n * b
<1>1. ASSUME a % b = 0 PROVE \E n \in 0..a : a = n * b
  <2>1. a = (a \div b) * b /\ a \div b \in Nat
    BY <1>1, SMTT(30)
  <2>2. a \div b <= a
    BY <2>1, SMTT(30)
  <2> QED BY <2>1, <2>2, SMT
<1>2. ASSUME NEW n \in 0..a, a = n * b PROVE a % b = 0
  BY <1>2, SMTT(30)
<1> QED BY <1>1, <1>2

\* What the five fields range over
LEMMA Ranges ==
    ASSUME NEW index \in 1..5
    PROVE  /\ FieldBounds[index][1] \in {0, 1}
           /\ FieldBounds[index][2] \in 6..59
           /\ index = 5 => FieldBounds[index][1] = 0 /\ FieldBounds[index][2] = 6
<1>1. CASE index = 1  BY <1>1 DEF FieldBounds
<1>2. CASE index = 2  BY <1>2 DEF FieldBounds
<1>3. CASE index = 3  BY <1>3 DEF FieldBounds
<1>4. CASE index = 4  BY <1>4 DEF FieldBounds
<1>5. CASE index = 5  BY <1>5 DEF FieldBounds
<1> QED BY <1>1, <1>2, <1>3, <1>4, <1>5

\* A value that some number of steps, none of them beyond `high`, leads to
OnStep(start, step, high, v) == \E n \in 0..high : v = start + n * step

\* The bounds _parse_field works with
BoundsOf(index, low, high, last) ==
    low = FieldBounds[index][1] /\ high = FieldBounds[index][2] /\ last = IF index = 5 THEN 7 ELSE high

\* A range inside the field holds its start and every step after it.
LEMMA RangeMeans ==
    ASSUME NEW low \in Nat, NEW high \in Nat, NEW start \in low..high, NEW end \in start..high, NEW step \in Nat \ {0}
    PROVE  /\ \A v : v \in ExpandRange(start, end, step, low, high)
                         <=> v \in start..end /\ OnStep(start, step, high, v)
           /\ ExpandRange(start, end, step, low, high) # Bad
<1>1. ExpandRange(start, end, step, low, high) = {v \in start..end : (v - start) % step = 0}
  BY DEF ExpandRange
<1>2. ASSUME NEW v \in start..end
      PROVE  (v - start) % step = 0 <=> \E n \in 0..high : v = start + n * step
  <2>1. v - start \in Nat /\ v - start <= high
    OBVIOUS
  <2>2. (v - start) % step = 0 <=> \E n \in 0..(v - start) : v - start = n * step
    BY <2>1, Multiples
  <2>3. ASSUME NEW n \in 0..high, v = start + n * step PROVE n \in 0..(v - start)
    <3>1. n <= n * step
      BY SMTT(30)
    <3>2. n * step \in Int
      OBVIOUS
    <3> QED BY <2>3, <3>1, <3>2
  <2>4. ASSUME NEW n \in Nat PROVE n * step \in Int
    OBVIOUS
  <2> QED BY <2>1, <2>2, <2>3, <2>4
<1>3. -1 \notin ExpandRange(start, end, step, low, high)
  BY <1>1
<1> QED BY <1>1, <1>2, <1>3 DEF Bad, OnStep

\* The values a chunk stands for before Sunday is brought to 0
Written(index, c, w) ==
    LET low == FieldBounds[index][1]
        high == FieldBounds[index][2]
        last == IF index = 5 THEN 7 ELSE high
    IN  CASE c.form = "star" -> w \in low..high /\ OnStep(low, c.step, high, w)
          [] c.form = "span" -> w \in c.from..c.to /\ OnStep(c.from, c.step, last, w)
          [] c.form = "word" -> FALSE
          [] c.form = "one" -> IF c.step = 1 THEN w = c.from
                               ELSE w \in c.from..last /\ OnStep(c.from, c.step, last, w)

\* A chunk that names something expands to the values it is written for.
LEMMA ChunkExpands ==
    ASSUME NEW index \in 1..5, NEW c \in Chunk, WellFormed(index, c),
           NEW low, NEW high, NEW last, BoundsOf(index, low, high, last)
    PROVE  /\ \A w : w \in ExpandChunk(c, low, high, last) <=> w \in low..last /\ Written(index, c, w)
           /\ ExpandChunk(c, low, high, last) # Bad
<1>1. low \in Nat /\ high \in Nat /\ last \in Nat /\ low < high /\ high <= last /\ c.from \in Int /\ c.to \in Int
  BY Ranges DEF Chunk, BoundsOf
<1>2. c.step \in Nat \ {0} /\ c.form \in {"star", "span", "one"}
  BY DEF WellFormed, Chunk
<1>3. CASE c.form = "star"
  <2>1. ExpandChunk(c, low, high, last) = ExpandRange(low, high, c.step, low, high)
    BY <1>3 DEF ExpandChunk
  <2>2. /\ \A w : w \in ExpandRange(low, high, c.step, low, high)
                      <=> w \in low..high /\ OnStep(low, c.step, high, w)
        /\ ExpandRange(low, high, c.step, low, high) # Bad
    <3>1. low \in low..high /\ high \in low..high
      BY <1>1
    <3> QED BY <1>1, <1>2, <3>1, RangeMeans, Zenon
  <2>3. ASSUME NEW w
        PROVE  Written(index, c, w) <=> w \in low..high /\ OnStep(low, c.step, high, w)
    BY <1>3 DEF Written, BoundsOf
  <2> QED BY <1>1, <2>1, <2>2, <2>3
<1>4. CASE c.form = "span"
  <2>1. ExpandChunk(c, low, high, last) = ExpandRange(c.from, c.to, c.step, low, last)
    BY <1>4 DEF ExpandChunk
  <2>2. c.from \in low..last /\ c.to \in c.from..last
    BY <1>4 DEF WellFormed, BoundsOf
  <2>3. /\ \A w : w \in ExpandRange(c.from, c.to, c.step, low, last)
                      <=> w \in c.from..c.to /\ OnStep(c.from, c.step, last, w)
        /\ ExpandRange(c.from, c.to, c.step, low, last) # Bad
    BY <1>1, <1>2, <2>2, RangeMeans, Zenon
  <2>4. ASSUME NEW w
        PROVE  Written(index, c, w) <=> w \in c.from..c.to /\ OnStep(c.from, c.step, last, w)
    BY <1>4 DEF Written, BoundsOf
  <2> QED BY <1>1, <2>1, <2>2, <2>3, <2>4
<1>5. CASE c.form = "one"
  <2>1. c.from \in low..last
    BY <1>5 DEF WellFormed, BoundsOf
  <2>2. CASE c.step = 1
    <3>1. ExpandChunk(c, low, high, last) = {c.from}
      BY <1>5, <1>1, <2>1, <2>2 DEF ExpandChunk
    <3>2. ASSUME NEW w PROVE Written(index, c, w) <=> w = c.from
      BY <1>5, <2>2 DEF Written, BoundsOf
    <3> QED BY <1>1, <2>1, <3>1, <3>2 DEF Bad
  <2>3. CASE c.step # 1
    <3>1. ExpandChunk(c, low, high, last) = ExpandRange(c.from, last, c.step, low, last)
      BY <1>5, <1>1, <2>1, <2>3 DEF ExpandChunk
    <3>2. /\ \A w : w \in ExpandRange(c.from, last, c.step, low, last)
                        <=> w \in c.from..last /\ OnStep(c.from, c.step, last, w)
          /\ ExpandRange(c.from, last, c.step, low, last) # Bad
      <4>1. last \in c.from..last
        BY <1>1, <2>1
      <4> QED BY <1>1, <1>2, <2>1, <4>1, RangeMeans, Zenon
    <3>3. ASSUME NEW w
          PROVE  Written(index, c, w) <=> w \in c.from..last /\ OnStep(c.from, c.step, last, w)
      BY <1>5, <2>3 DEF Written, BoundsOf
    <3> QED BY <1>1, <2>1, <3>1, <3>2, <3>3
  <2> QED BY <2>2, <2>3
<1> QED BY <1>2, <1>3, <1>4, <1>5

\* Any other chunk is refused.
LEMMA ChunkRefused ==
    ASSUME NEW index \in 1..5, NEW c \in Chunk, ~ WellFormed(index, c),
           NEW low, NEW high, NEW last, BoundsOf(index, low, high, last)
    PROVE  ExpandChunk(c, low, high, last) = Bad
<1>1. low \in Nat /\ high \in Nat /\ last \in Nat /\ low < high /\ high <= last
  BY Ranges DEF BoundsOf
<1>2. c.from \in Int /\ c.to \in Int /\ c.step \in Int /\ c.form \in {"star", "span", "word", "one"}
  BY DEF Chunk
<1>3. CASE c.form = "star"
  BY <1>1, <1>2, <1>3 DEF ExpandChunk, ExpandRange, WellFormed, BoundsOf
<1>4. CASE c.form = "span"
  BY <1>1, <1>2, <1>4 DEF ExpandChunk, ExpandRange, WellFormed, BoundsOf
<1>5. CASE c.form = "word"
  BY <1>5 DEF ExpandChunk
<1>6. CASE c.form = "one"
  BY <1>1, <1>2, <1>6 DEF ExpandChunk, ExpandRange, WellFormed, BoundsOf
<1> QED BY <1>2, <1>3, <1>4, <1>5, <1>6

\* A day of the week is named modulo seven, any other value as it is.
LEMMA Naming ==
    ASSUME NEW index \in 1..5, NEW low, NEW high, NEW last, BoundsOf(index, low, high, last), NEW w \in low..last
    PROVE  /\ Named(index, w) \in low..high
           /\ Named(index, w) = IF index = 5 /\ w = 7 THEN 0 ELSE w
<1>1. CASE index = 5
  <2>1. low = 0 /\ high = 6 /\ last = 7 /\ w \in 0..7
    BY <1>1, Ranges DEF BoundsOf
  <2> QED BY <1>1, <2>1 DEF Named
<1>2. CASE index # 5
  BY <1>2, Ranges DEF BoundsOf, Named
<1> QED BY <1>1, <1>2

\* Bringing Sunday to 0 gives every value its name.
LEMMA SundayIsNamed ==
    ASSUME NEW index \in 1..5, NEW low, NEW high, NEW last, BoundsOf(index, low, high, last),
           NEW V \in SUBSET (low..last)
    PROVE  Sunday(V, index) = {v \in low..high : \E w \in V : v = Named(index, w)}
<1>1. \A w \in V : Named(index, w) \in low..high /\ Named(index, w) = IF index = 5 /\ w = 7 THEN 0 ELSE w
  BY Naming
<1>2. CASE index = 5
  <2>1. low = 0 /\ high = 6 /\ last = 7
    BY <1>2, Ranges DEF BoundsOf
  <2> QED BY <1>1, <1>2, <2>1 DEF Sunday
<1>3. CASE index # 5
  <2>1. \A w \in V : Named(index, w) = w /\ w \in low..high
    BY <1>1, <1>3
  <2>2. Sunday(V, index) = V
    BY <1>3 DEF Sunday
  <2> QED BY <2>1, <2>2
<1> QED BY <1>2, <1>3

\* What a chunk means is the name of a value it is written for.
LEMMA MeaningIsWritten ==
    ASSUME NEW index \in 1..5, NEW c \in Chunk, WellFormed(index, c),
           NEW low, NEW high, NEW last, BoundsOf(index, low, high, last), NEW v \in low..high
    PROVE  ChunkMeans(index, c, v) <=> \E w \in low..last : Written(index, c, w) /\ v = Named(index, w)
<1>1. low \in Nat /\ high \in Nat /\ last \in Nat /\ low < high /\ high <= last /\ c.from \in Int /\ c.to \in Int
  BY Ranges DEF Chunk, BoundsOf
<1>2. c.step \in Nat \ {0} /\ c.form \in {"star", "span", "one"}
  BY DEF WellFormed, Chunk
<1>3. CASE c.form = "star"
  <2>1. ChunkMeans(index, c, v) <=> OnStep(low, c.step, high, v)
    BY <1>1, <1>3 DEF ChunkMeans, OnStep, BoundsOf
  <2>2. \A w \in low..high : Named(index, w) = w
    BY <1>1, Naming, Ranges DEF BoundsOf
  <2>3. \A w : Written(index, c, w) <=> w \in low..high /\ OnStep(low, c.step, high, w)
    BY <1>3 DEF Written, BoundsOf
  <2>4. low..high \subseteq low..last
    BY <1>1
  <2> QED BY <2>1, <2>2, <2>3, <2>4
<1>4. CASE c.form = "span"
  <2>1. c.from \in low..last /\ c.to \in c.from..last
    BY <1>4 DEF WellFormed, BoundsOf
  <2>2. \A w : Written(index, c, w) <=> w \in c.from..c.to /\ OnStep(c.from, c.step, last, w)
    BY <1>4 DEF Written, BoundsOf
  <2>3. ChunkMeans(index, c, v) <=> \E n \in 0..last : c.from + n * c.step <= c.to /\ v = Named(index, c.from + n * c.step)
    BY <1>4 DEF ChunkMeans, BoundsOf
  <2>4. \A n \in 0..last : n * c.step \in Nat
    BY <1>1, <1>2, SMTT(30)
  <2>5. \A n \in 0..last : c.from + n * c.step <= c.to => c.from + n * c.step \in c.from..c.to
    BY <1>1, <2>4
  <2>6. c.from..c.to \subseteq low..last
    BY <1>1, <2>1
  <2>7. ASSUME NEW n \in 0..last, c.from + n * c.step <= c.to, v = Named(index, c.from + n * c.step)
        PROVE  \E w \in low..last : Written(index, c, w) /\ v = Named(index, w)
    <3> DEFINE w == c.from + n * c.step
    <3>1. w \in c.from..c.to /\ OnStep(c.from, c.step, last, w)
      BY <2>5, <2>7 DEF OnStep
    <3>2. w \in low..last /\ v = Named(index, w)
      BY <2>6, <2>7, <3>1
    <3> HIDE DEF w
    <3> QED BY <2>2, <3>1, <3>2
  <2>8. ASSUME NEW w \in low..last, Written(index, c, w), v = Named(index, w)
        PROVE  \E n \in 0..last : c.from + n * c.step <= c.to /\ v = Named(index, c.from + n * c.step)
    <3>1. w <= c.to /\ OnStep(c.from, c.step, last, w)
      BY <2>2, <2>8
    <3>2. PICK n \in 0..last : w = c.from + n * c.step
      BY <3>1 DEF OnStep
    <3> QED BY <2>8, <3>1, <3>2
  <2> QED BY <2>3, <2>7, <2>8
<1>5. CASE c.form = "one"
  <2>1. c.from \in low..last
    BY <1>5 DEF WellFormed, BoundsOf
  <2>2. CASE c.step = 1
    <3>1. ChunkMeans(index, c, v) <=> v = Named(index, c.from)
      BY <1>5, <2>2 DEF ChunkMeans
    <3>2. \A w : Written(index, c, w) <=> w = c.from
      BY <1>5, <2>2 DEF Written
    <3> QED BY <2>1, <3>1, <3>2
  <2>3. CASE c.step # 1
    <3>1. \A w : Written(index, c, w) <=> w \in c.from..last /\ OnStep(c.from, c.step, last, w)
      BY <1>5, <2>3 DEF Written, BoundsOf
    <3>2. ChunkMeans(index, c, v)
            <=> \E n \in 0..last : c.from + n * c.step <= last /\ v = Named(index, c.from + n * c.step)
      BY <1>5, <2>3 DEF ChunkMeans, BoundsOf
    <3>3. \A n \in 0..last : n * c.step \in Nat
      BY <1>1, <1>2, SMTT(30)
    <3>4. \A n \in 0..last : c.from + n * c.step <= last => c.from + n * c.step \in c.from..last
      BY <1>1, <3>3
    <3>5. c.from..last \subseteq low..last
      BY <1>1, <2>1
    <3>6. ASSUME NEW n \in 0..last, c.from + n * c.step <= last, v = Named(index, c.from + n * c.step)
          PROVE  \E w \in low..last : Written(index, c, w) /\ v = Named(index, w)
      <4> DEFINE w == c.from + n * c.step
      <4>1. w \in c.from..last /\ OnStep(c.from, c.step, last, w)
        BY <3>4, <3>6 DEF OnStep
      <4>2. w \in low..last /\ v = Named(index, w)
        BY <3>5, <3>6, <4>1
      <4> HIDE DEF w
      <4> QED BY <3>1, <4>1, <4>2
    <3>7. ASSUME NEW w \in low..last, Written(index, c, w), v = Named(index, w)
          PROVE  \E n \in 0..last : c.from + n * c.step <= last /\ v = Named(index, c.from + n * c.step)
      <4>1. w <= last /\ OnStep(c.from, c.step, last, w)
        BY <1>1, <3>1, <3>7
      <4>2. PICK n \in 0..last : w = c.from + n * c.step
        BY <4>1 DEF OnStep
      <4> QED BY <3>7, <4>1, <4>2
    <3> QED BY <3>2, <3>6, <3>7
  <2> QED BY <2>2, <2>3
<1> QED BY <1>2, <1>3, <1>4, <1>5

\* A field is refused for a chunk that names nothing, and else holds what its chunks mean.
LEMMA FieldAgrees ==
    ASSUME NEW index \in 1..5, NEW chunks \in SUBSET Chunk
    PROVE  ParseField(index, chunks) =
               IF chunks = {} \/ \E c \in chunks : ~ WellFormed(index, c)
               THEN Bad
               ELSE {v \in FieldBounds[index][1]..FieldBounds[index][2] : \E c \in chunks : ChunkMeans(index, c, v)}
<1> DEFINE low == FieldBounds[index][1]
           high == FieldBounds[index][2]
           last == IF index = 5 THEN 7 ELSE high
           expanded == {ExpandChunk(c, low, high, last) : c \in chunks}
<1>1. BoundsOf(index, low, high, last)
  BY DEF BoundsOf
<1>2. ParseField(index, chunks) =
          IF chunks = {} \/ Bad \in expanded THEN Bad ELSE Sunday(UNION expanded, index)
  BY DEF ParseField
<1> HIDE DEF low, high, last
<1>3. \A c \in chunks : WellFormed(index, c) =>
          /\ \A w : w \in ExpandChunk(c, low, high, last) <=> w \in low..last /\ Written(index, c, w)
          /\ ExpandChunk(c, low, high, last) # Bad
  BY <1>1, ChunkExpands
<1>4. \A c \in chunks : ~ WellFormed(index, c) => ExpandChunk(c, low, high, last) = Bad
  BY <1>1, ChunkRefused
<1>5. CASE chunks = {} \/ \E c \in chunks : ~ WellFormed(index, c)
  BY <1>2, <1>4, <1>5
<1>6. CASE chunks # {} /\ \A c \in chunks : WellFormed(index, c)
  <2>1. ParseField(index, chunks) = Sunday(UNION expanded, index)
    BY <1>2, <1>3, <1>6
  <2>2. \A w : w \in UNION expanded <=> w \in low..last /\ \E c \in chunks : Written(index, c, w)
    BY <1>3, <1>6
  <2> HIDE DEF expanded
  <2>3. Sunday(UNION expanded, index) = {v \in low..high : \E w \in UNION expanded : v = Named(index, w)}
    BY <1>1, <2>2, SundayIsNamed
  <2>4. \A v \in low..high : \A c \in chunks :
            ChunkMeans(index, c, v) <=> \E w \in low..last : Written(index, c, w) /\ v = Named(index, w)
    BY <1>1, <1>6, MeaningIsWritten
  <2>5. \A v \in low..high :
            (\E w \in UNION expanded : v = Named(index, w)) <=> \E c \in chunks : ChunkMeans(index, c, v)
    BY <2>2, <2>4
  <2>6. ParseField(index, chunks) = {v \in low..high : \E c \in chunks : ChunkMeans(index, c, v)}
    BY <2>1, <2>3, <2>5
  <2> QED BY <1>6, <2>6 DEF low, high
<1> QED BY <1>5, <1>6

-----------------------------------------------------------------------------
(* Firings                                                                    *)

LEMMA ClockStarts ==
    ASSUME ClockOK, ClockInit
    PROVE  ClockInv
<1> USE DEF ClockOK, ClockInit, Instants, NoMinute
<1>1. ClockTypeOK
  <2>1. answer = ParseField(asked.index, asked.chunks)
    BY DEF ParseField
  <2> QED BY <2>1 DEF ClockTypeOK
<1>2. FiringsArePaid
  <2>1. ASSUME NEW j \in Jobs, NEW i \in 1..Length
        PROVE  fired[j][i] + Cardinality(AboutToFire(j, i)) <= returns + (IF lastMinute >= i THEN 1 ELSE 0)
    <3>1. AboutToFire(j, i) = {}
      BY DEF AboutToFire
    <3>2. Cardinality(AboutToFire(j, i)) = 0
      BY <3>1, FS_EmptySet
    <3>3. fired[j][i] = 0
      OBVIOUS
    <3> QED BY <3>2, <3>3
  <2> QED BY <2>1 DEF FiringsArePaid
<1>3. FiringsAreDue
  BY DEF FiringsAreDue
<1> QED BY <1>1, <1>2, <1>3 DEF ClockInv

\* The tickers that may fire are counted.
LEMMA TickersCounted ==
    ASSUME ClockOK, NEW j, NEW i
    PROVE  IsFiniteSet(AboutToFire(j, i)) /\ Cardinality(AboutToFire(j, i)) \in Nat
BY FS_Subset, FS_CardinalityType DEF AboutToFire, ClockOK

\* A ticker fewer is a firing fewer to pay for; one that fires pays for it itself.
LEMMA TickersFewer ==
    ASSUME ClockOK, NEW j, NEW i, AboutToFire(j, i)' \subseteq AboutToFire(j, i)
    PROVE  /\ Cardinality(AboutToFire(j, i)') \in Nat
           /\ Cardinality(AboutToFire(j, i)') <= Cardinality(AboutToFire(j, i))
           /\ \A k \in AboutToFire(j, i) \ AboutToFire(j, i)' :
                  Cardinality(AboutToFire(j, i)') + 1 <= Cardinality(AboutToFire(j, i))
<1> DEFINE A == AboutToFire(j, i)
           B == AboutToFire(j, i)'
<1>1. IsFiniteSet(A) /\ Cardinality(A) \in Nat
  BY TickersCounted
<1> HIDE DEF A, B
<1>2. B \subseteq A
  BY DEF A, B
<1>3. IsFiniteSet(B) /\ Cardinality(B) \in Nat /\ Cardinality(B) <= Cardinality(A)
  BY <1>1, <1>2, FS_Subset, FS_CardinalityType
<1>4. ASSUME NEW k \in A \ B PROVE Cardinality(B) + 1 <= Cardinality(A)
  <2>1. B \union {k} \subseteq A
    BY <1>2, <1>4
  <2>2. Cardinality(B \union {k}) = Cardinality(B) + 1
    BY <1>3, <1>4, FS_AddElement
  <2> QED BY <1>1, <2>1, <2>2, FS_Subset
<1> QED BY <1>3, <1>4 DEF A, B

\* One ticker more is at most one firing more.
LEMMA TickersMore ==
    ASSUME ClockOK, NEW j, NEW i, NEW k, AboutToFire(j, i)' \subseteq AboutToFire(j, i) \union {k}
    PROVE  /\ Cardinality(AboutToFire(j, i)') \in Nat
           /\ Cardinality(AboutToFire(j, i)') <= Cardinality(AboutToFire(j, i)) + 1
<1> DEFINE A == AboutToFire(j, i)
           B == AboutToFire(j, i)'
<1>1. IsFiniteSet(A) /\ Cardinality(A) \in Nat
  BY TickersCounted
<1> HIDE DEF A, B
<1>2. B \subseteq A \union {k}
  BY DEF A, B
<1>3. /\ IsFiniteSet(A \union {k})
      /\ Cardinality(A \union {k}) = Cardinality(A) \/ Cardinality(A \union {k}) = Cardinality(A) + 1
  <2>1. CASE k \in A
    BY <1>1, <2>1, A \union {k} = A
  <2>2. CASE k \notin A
    BY <1>1, <2>2, FS_AddElement
  <2> QED BY <2>1, <2>2
<1>4. Cardinality(B) \in Nat /\ Cardinality(B) <= Cardinality(A \union {k})
  BY <1>2, <1>3, FS_Subset, FS_CardinalityType
<1> QED BY <1>1, <1>3, <1>4 DEF A, B

\* Steps that leave the firings, the returns and the minute alone and let no more tickers fire
LEMMA PaidAsBefore ==
    ASSUME ClockOK, ClockInv, fired' = fired, returns' = returns, lastMinute' = lastMinute,
           \A j \in Jobs, i \in Instants : AboutToFire(j, i)' \subseteq AboutToFire(j, i)
    PROVE  FiringsArePaid' /\ FiringsAreDue'
<1>1. FiringsAreDue'
  BY DEF ClockInv, FiringsAreDue
<1>2. ASSUME NEW j \in Jobs, NEW i \in Instants
      PROVE  fired'[j][i] + Cardinality(AboutToFire(j, i)') <= returns' + (IF lastMinute' >= i THEN 1 ELSE 0)
  <2>1. /\ Cardinality(AboutToFire(j, i)') \in Nat
        /\ Cardinality(AboutToFire(j, i)') <= Cardinality(AboutToFire(j, i))
    BY TickersFewer
  <2>2. Cardinality(AboutToFire(j, i)) \in Nat
    BY TickersCounted
  <2>3. fired[j][i] + Cardinality(AboutToFire(j, i)) <= returns + (IF lastMinute >= i THEN 1 ELSE 0)
    BY DEF ClockInv, FiringsArePaid
  <2>4. fired[j][i] \in Nat /\ returns \in Nat /\ lastMinute \in Int /\ i \in Int
    BY DEF ClockInv, ClockTypeOK, Instants, ClockOK
  <2> QED BY <2>1, <2>2, <2>3, <2>4
<1> QED BY <1>1, <1>2 DEF FiringsArePaid

\* Registration, removal and the system clock
LEMMA WorldMoves ==
    ASSUME ClockOK, ClockInv,
           DropAll \/ Advance \/ StepBack \/ \E j \in Jobs : AddJob(j) \/ DropJob(j)
    PROVE  ClockInv'
<1>1. ClockTypeOK'
  <2>1. CASE DropAll
    BY <2>1 DEF DropAll, ClockInv, ClockTypeOK
  <2>2. CASE Advance
    BY <2>2 DEF Advance, ClockInv, ClockTypeOK, Instants, ClockOK
  <2>3. CASE StepBack
    BY <2>3 DEF StepBack, ClockInv, ClockTypeOK, Instants, ClockOK
  <2>4. CASE \E j \in Jobs : AddJob(j) \/ DropJob(j)
    BY <2>4 DEF AddJob, DropJob, ClockInv, ClockTypeOK
  <2> QED BY <2>1, <2>2, <2>3, <2>4
<1>2. UNCHANGED <<lastMinute, at, reading, todo, fired, returns>>
  BY DEF DropAll, Advance, StepBack, AddJob, DropJob
<1>3. FiringsArePaid' /\ FiringsAreDue'
  BY <1>2, PaidAsBefore DEF AboutToFire
<1> QED BY <1>1, <1>3 DEF ClockInv

\* The steps of a tick that handle no minute and fire nothing
LEMMA TickMoves ==
    ASSUME ClockOK, ClockInv, NEW k \in Tickers,
           ReadClock(k) \/ ListJobs(k) \/ EndTick(k) \/ FailTick(k)
    PROVE  ClockInv'
<1>1. CASE ReadClock(k)
  <2>1. ClockTypeOK'
    BY <1>1 DEF ReadClock, ClockInv, ClockTypeOK, Instants, ClockOK
  <2>2. \A j \in Jobs, i \in Instants : AboutToFire(j, i)' \subseteq AboutToFire(j, i)
    BY <1>1 DEF ReadClock, AboutToFire, ClockInv, ClockTypeOK
  <2> QED BY <1>1, <2>1, <2>2, PaidAsBefore DEF ClockInv, ReadClock
<1>2. CASE ListJobs(k)
  <2>1. ClockTypeOK'
    BY <1>2 DEF ListJobs, ClockInv, ClockTypeOK
  <2>2. \A j \in Jobs, i \in Instants : AboutToFire(j, i)' \subseteq AboutToFire(j, i)
    BY <1>2 DEF ListJobs, AboutToFire, ClockInv, ClockTypeOK
  <2> QED BY <1>2, <2>1, <2>2, PaidAsBefore DEF ClockInv, ListJobs
<1>3. CASE EndTick(k)
  <2>1. ClockTypeOK'
    BY <1>3 DEF EndTick, Leave, NoMinute, ClockInv, ClockTypeOK, ClockOK
  <2>2. \A j \in Jobs, i \in Instants : AboutToFire(j, i)' \subseteq AboutToFire(j, i)
    BY <1>3 DEF EndTick, Leave, AboutToFire, ClockInv, ClockTypeOK
  <2> QED BY <1>3, <2>1, <2>2, PaidAsBefore DEF ClockInv, EndTick
<1>4. CASE FailTick(k)
  <2>1. ClockTypeOK'
    BY <1>4 DEF FailTick, Leave, NoMinute, ClockInv, ClockTypeOK, ClockOK
  <2>2. \A j \in Jobs, i \in Instants : AboutToFire(j, i)' \subseteq AboutToFire(j, i)
    BY <1>4 DEF FailTick, Leave, AboutToFire, ClockInv, ClockTypeOK
  <2> QED BY <1>4, <2>1, <2>2, PaidAsBefore DEF ClockInv, FailTick
<1> QED BY <1>1, <1>2, <1>3, <1>4

\* A minute is handled: for the first time, or in a return to it.
LEMMA MinuteMoves ==
    ASSUME ClockOK, ClockInv, NEW k \in Tickers, CheckMinute(k)
    PROVE  ClockInv'
<1> USE DEF ClockInv
<1>1. CASE Handled(reading[k])
  <2>1. ClockTypeOK'
    <3>1. UNCHANGED <<now, lastMinute, registered, todo, fired, returns, asked, answer>>
      BY <1>1 DEF CheckMinute
    <3>2. /\ at' = [at EXCEPT ![k] = "away"] /\ reading' = [reading EXCEPT ![k] = 0]
          /\ 0 \in 0..Length
      BY <1>1 DEF CheckMinute, Leave, NoMinute, ClockOK
    <3>3. /\ at' \in [Tickers -> {"away", "read", "handle", "fire"}]
          /\ reading' \in [Tickers -> 0..Length]
      BY <3>2 DEF ClockTypeOK
    <3>4. \A l \in Tickers : at'[l] # "away" => reading'[l] \in Instants
      BY <3>2 DEF ClockTypeOK
    <3> QED BY <3>1, <3>3, <3>4 DEF ClockTypeOK
  <2>2. \A j \in Jobs, i \in Instants : AboutToFire(j, i)' \subseteq AboutToFire(j, i)
    BY <1>1 DEF CheckMinute, Leave, AboutToFire, ClockTypeOK
  <2>3. fired' = fired /\ returns' = returns /\ lastMinute' = lastMinute
    BY <1>1 DEF CheckMinute
  <2> QED BY <2>1, <2>2, <2>3, PaidAsBefore
<1>2. CASE ~ Handled(reading[k])
  <2>1. /\ reading[k] \in Instants /\ reading[k] # lastMinute
        /\ lastMinute' = reading[k] /\ UNCHANGED <<reading, todo, fired>>
        /\ at' = [at EXCEPT ![k] = "handle"]
        /\ returns' = IF reading[k] < lastMinute THEN returns + 1 ELSE returns
    BY <1>2 DEF CheckMinute, Handled, ClockTypeOK
  <2>2. ClockTypeOK'
    <3>1. UNCHANGED <<now, registered, asked, answer>>
      BY DEF CheckMinute
    <3>2. lastMinute' \in 0..Length /\ returns' \in Nat
      BY <2>1 DEF ClockTypeOK, Instants, ClockOK
    <3>3. at' \in [Tickers -> {"away", "read", "handle", "fire"}]
      BY <2>1 DEF ClockTypeOK
    <3>4. \A l \in Tickers : at'[l] # "away" => reading'[l] \in Instants
      BY <2>1 DEF ClockTypeOK
    <3> QED BY <2>1, <3>1, <3>2, <3>3, <3>4 DEF ClockTypeOK
  <2>3. FiringsAreDue'
    BY <2>1 DEF FiringsAreDue
  <2>4. ASSUME NEW j \in Jobs, NEW i \in Instants
        PROVE  fired'[j][i] + Cardinality(AboutToFire(j, i)') <= returns' + (IF lastMinute' >= i THEN 1 ELSE 0)
    <3>1. fired[j][i] + Cardinality(AboutToFire(j, i)) <= returns + (IF lastMinute >= i THEN 1 ELSE 0)
      BY DEF FiringsArePaid
    <3>2. /\ fired[j][i] \in Nat /\ returns \in Nat /\ lastMinute \in Int /\ i \in Int /\ reading[k] \in Int
          /\ Cardinality(AboutToFire(j, i)) \in Nat
      BY <2>1, TickersCounted DEF ClockTypeOK, Instants, ClockOK
    <3>3. CASE i = reading[k]
      <4>1. AboutToFire(j, i)' \subseteq AboutToFire(j, i) \union {k}
        BY <2>1 DEF AboutToFire, ClockTypeOK
      <4>2. /\ Cardinality(AboutToFire(j, i)') \in Nat
            /\ Cardinality(AboutToFire(j, i)') <= Cardinality(AboutToFire(j, i)) + 1
        BY <4>1, TickersMore
      <4> QED BY <2>1, <3>1, <3>2, <3>3, <4>2
    <3>4. CASE i # reading[k]
      <4>1. AboutToFire(j, i)' \subseteq AboutToFire(j, i)
        BY <2>1, <3>4 DEF AboutToFire, ClockTypeOK
      <4>2. /\ Cardinality(AboutToFire(j, i)') \in Nat
            /\ Cardinality(AboutToFire(j, i)') <= Cardinality(AboutToFire(j, i))
        BY <4>1, TickersFewer
      <4> QED BY <2>1, <3>1, <3>2, <4>2
    <3> QED BY <3>3, <3>4
  <2> QED BY <2>2, <2>3, <2>4 DEF FiringsArePaid
<1> QED BY <1>1, <1>2

\* A job is looked at, and fired when it is due.
LEMMA FireMoves ==
    ASSUME ClockOK, ClockInv, NEW k \in Tickers, FireDue(k)
    PROVE  ClockInv'
<1> USE DEF ClockInv
<1>1. PICK j \in todo[k] :
          /\ todo' = [todo EXCEPT ![k] = @ \ {j}]
          /\ fired' = IF JobDue(j, reading[k]) THEN [fired EXCEPT ![j][reading[k]] = @ + 1] ELSE fired
  BY DEF FireDue
<1>2. /\ j \in Jobs /\ reading[k] \in Instants /\ at[k] = "fire"
      /\ UNCHANGED <<now, lastMinute, registered, at, reading, returns, asked, answer>>
  BY <1>1 DEF FireDue, ClockTypeOK
<1>3. \A a \in Jobs, i \in Instants :
          fired'[a][i] = IF a = j /\ i = reading[k] /\ JobDue(j, reading[k]) THEN fired[a][i] + 1 ELSE fired[a][i]
  BY <1>1, <1>2 DEF ClockTypeOK
<1>4. ClockTypeOK'
  <2>1. fired' \in [Jobs -> [Instants -> Nat]]
    BY <1>1, <1>2 DEF ClockTypeOK
  <2>2. todo' \in [Tickers -> SUBSET Jobs]
    BY <1>1 DEF ClockTypeOK
  <2> QED BY <1>2, <2>1, <2>2 DEF ClockTypeOK
<1>5. FiringsAreDue'
  <2>1. ASSUME NEW a \in Jobs, NEW i \in Instants, fired'[a][i] > 0 PROVE JobDue(a, i)
    BY <1>3, <2>1 DEF FiringsAreDue
  <2> QED BY <2>1 DEF FiringsAreDue, JobDue
<1>6. ASSUME NEW a \in Jobs, NEW i \in Instants
      PROVE  fired'[a][i] + Cardinality(AboutToFire(a, i)') <= returns' + (IF lastMinute' >= i THEN 1 ELSE 0)
  <2>1. fired[a][i] + Cardinality(AboutToFire(a, i)) <= returns + (IF lastMinute >= i THEN 1 ELSE 0)
    BY DEF FiringsArePaid
  <2>2. /\ fired[a][i] \in Nat /\ returns \in Nat /\ lastMinute \in Int /\ i \in Int
        /\ Cardinality(AboutToFire(a, i)) \in Nat
    BY TickersCounted DEF ClockTypeOK, Instants, ClockOK
  <2>3. AboutToFire(a, i)' \subseteq AboutToFire(a, i)
    BY <1>1, <1>2 DEF AboutToFire, ClockTypeOK
  <2>4. /\ Cardinality(AboutToFire(a, i)') \in Nat
        /\ Cardinality(AboutToFire(a, i)') <= Cardinality(AboutToFire(a, i))
        /\ \A l \in AboutToFire(a, i) \ AboutToFire(a, i)' :
               Cardinality(AboutToFire(a, i)') + 1 <= Cardinality(AboutToFire(a, i))
    BY <2>3, TickersFewer
  <2>5. CASE a = j /\ i = reading[k]
    <3>1. k \in AboutToFire(a, i) \ AboutToFire(a, i)'
      BY <1>1, <1>2, <2>5 DEF AboutToFire, ClockTypeOK
    <3>2. fired'[a][i] <= fired[a][i] + 1 /\ fired'[a][i] \in Nat
      BY <1>3, <2>2
    <3> QED BY <1>2, <2>1, <2>2, <2>4, <3>1, <3>2
  <2>6. CASE ~ (a = j /\ i = reading[k])
    <3>1. fired'[a][i] = fired[a][i]
      BY <1>3, <2>6
    <3> QED BY <1>2, <2>1, <2>2, <2>4, <3>1
  <2> QED BY <2>5, <2>6
<1> QED BY <1>4, <1>5, <1>6 DEF FiringsArePaid

\* A question to the parser, and nothing else
LEMMA ParserMoves ==
    ASSUME ClockOK, ClockInv, Ask
    PROVE  ClockInv'
<1>1. PICK q \in Questions : AskParser(q)
  BY DEF Ask
<1>2. UNCHANGED tickVars /\ asked' = q /\ answer' = ParseField(q.index, q.chunks)
  BY <1>1 DEF AskParser
<1>3. q \in [index : 1..5, chunks : SUBSET Chunk]
  BY DEF ClockOK
<1>4. answer' = ParseField(asked'.index, asked'.chunks)
  BY <1>2
<1>5. ClockTypeOK'
  BY <1>2, <1>3, <1>4 DEF ClockInv, ClockTypeOK, tickVars
<1>6. FiringsArePaid' /\ FiringsAreDue'
  BY <1>2, PaidAsBefore DEF AboutToFire, tickVars
<1> QED BY <1>5, <1>6 DEF ClockInv

-----------------------------------------------------------------------------
(* What follows from the invariant                                            *)

\* A job that names its hours in a zone is not due in the second pass through an hour.
LEMMA SecondPassIsNotDue ==
    ASSUME ClockOK, NEW zone \in DOMAIN Wall, NEW j \in Jobs, Zoned(j, zone), NEW i \in Instants, JobDue(j, i)
    PROVE  Wall[zone][i].fold = 0
<1>1. PICK n \in 1..Len(JobTriggers(Definition[j])) :
          IsCron(JobTriggers(Definition[j])[n]) /\ Due(JobTriggers(Definition[j])[n], i)
  BY DEF JobDue
<1> DEFINE t == JobTriggers(Definition[j])[n]
<1>2. t.zone = zone /\ ~ EveryHour(Parse(t.cron))
  BY <1>1 DEF Zoned
<1>3. zone # "none"
  BY DEF ClockOK
<1>4. Moment(t, i) = Wall[zone][i]
  BY <1>2, <1>3 DEF Moment
<1> QED BY <1>1, <1>2, <1>4 DEF Due

\* Of two instants with one wall-clock time at most one is due.
LEMMA OnePassIsDue ==
    ASSUME ClockOK, NEW zone \in DOMAIN Wall, NEW j \in Jobs, Zoned(j, zone),
           NEW i \in Instants, NEW k \in Instants, SameWallTime(zone, i, k), i # k
    PROVE  ~ (JobDue(j, i) /\ JobDue(j, k))
<1> SUFFICES ASSUME JobDue(j, i), JobDue(j, k) PROVE FALSE
  OBVIOUS
<1>1. Wall[zone][i].fold = 0 /\ Wall[zone][k].fold = 0
  BY SecondPassIsNotDue
<1>2. Wall[zone][i] \in Reading /\ Wall[zone][k] \in Reading /\ Wall[zone][i] # Wall[zone][k]
  BY DEF ClockOK
<1>3. [Wall[zone][i] EXCEPT !.fold = 0] = Wall[zone][i] /\ [Wall[zone][k] EXCEPT !.fold = 0] = Wall[zone][k]
  BY <1>1, <1>2 DEF Reading
<1> QED BY <1>2, <1>3 DEF SameWallTime

LEMMA InvariantSuffices ==
    ASSUME ClockOK, ClockInv
    PROVE  ClockSound
<1> USE DEF ClockInv
<1>1. ASSUME NEW j \in Jobs, NEW i \in Instants PROVE fired[j][i] <= 1 + returns /\ fired[j][i] \in Nat
  <2>1. fired[j][i] + Cardinality(AboutToFire(j, i)) <= returns + (IF lastMinute >= i THEN 1 ELSE 0)
    BY DEF FiringsArePaid
  <2>2. Cardinality(AboutToFire(j, i)) \in Nat
    BY TickersCounted
  <2>3. fired[j][i] \in Nat /\ returns \in Nat
    BY DEF ClockTypeOK
  <2> QED BY <2>1, <2>2, <2>3
<1>2. ASSUME NEW j \in Jobs, NEW zone \in DOMAIN Wall, Zoned(j, zone),
             NEW i \in Instants, NEW k \in Instants, SameWallTime(zone, i, k), i # k
      PROVE  fired[j][i] + fired[j][k] <= 1 + returns
  <2>1. fired[j][i] = 0 \/ fired[j][k] = 0
    BY <1>1, <1>2, OnePassIsDue DEF FiringsAreDue
  <2>2. returns \in Nat
    BY DEF ClockTypeOK
  <2> QED BY <1>1, <2>1, <2>2
<1>3. FiredOnce
  <2>1. \A j \in Jobs : \A zone \in ZonesOf[j] : zone \in DOMAIN Wall /\ Zoned(j, zone)
    BY DEF ZonesOf
  <2> QED BY <1>1, <1>2, <2>1 DEF FiredOnce
<1>4. CronAgrees
  BY FieldAgrees DEF CronAgrees, ClockTypeOK
<1> QED BY <1>3, <1>4 DEF ClockSound

(* Whatever the clocks show, the threads do and the system clock is set to, a *)
(* job is fired once in a minute and once at a wall-clock time of the zone    *)
(* that names its hours, and once more for every return to an earlier minute; *)
(* and a parsed cron field holds exactly what its chunks name                 *)
(* (Scheduler.tick, CronTrigger.due, cron._parse_field).                      *)
THEOREM ClockIsSound ==
    ASSUME ClockOK
    PROVE  ClockSpec => []ClockSound
<1>1. ClockInit => ClockInv
  BY ClockStarts
<1>2. ClockInv /\ [ClockNext \/ Ask]_clockVars => ClockInv'
  <2> SUFFICES ASSUME ClockInv, [ClockNext \/ Ask]_clockVars PROVE ClockInv'
    OBVIOUS
  <2>1. CASE ClockNext
    BY <2>1, WorldMoves, TickMoves, MinuteMoves, FireMoves DEF ClockNext
  <2>2. CASE Ask
    BY <2>2, ParserMoves
  <2>3. CASE UNCHANGED clockVars
    <3>1. ClockTypeOK'
      BY <2>3 DEF clockVars, tickVars, ClockInv, ClockTypeOK
    <3>2. FiringsArePaid' /\ FiringsAreDue'
      BY <2>3, PaidAsBefore DEF AboutToFire, clockVars, tickVars
    <3> QED BY <3>1, <3>2 DEF ClockInv
  <2> QED BY <2>1, <2>2, <2>3
<1>3. ClockInv => ClockSound
  BY InvariantSuffices
<1> QED BY <1>1, <1>2, <1>3, PTL DEF ClockSpec

-----------------------------------------------------------------------------
(* Targets: any number of runs, and lists of any length.                     *)

\* No run has begun, and nothing is recorded.
LEMMA TargetsStart == ASSUME TargetsOK, TargetInit PROVE TargetInv
BY DEF TargetsOK, TargetInit, TargetInv, TargetTypeOK, RecordsFollow, ListsFollow, NamesFollow, NoOutcome, Stages, Errors, FinalStates

\* Every step of a run's thread, of a stop and of the bus keeps records, lists and names together.
LEMMA TargetSteps == ASSUME TargetsOK, TargetInv, [TargetNext]_targetVars PROVE TargetInv'
<1> USE DEF TargetsOK, Stages, Errors, FinalStates
<1>1. ASSUME NEW rs \in SUBSET Flights, NEW state \in {"cancelled", "timeout"}, Close(rs, state) PROVE TargetInv'
  BY <1>1 DEF Close, TargetInv, TargetTypeOK, RecordsFollow, ListsFollow, NamesFollow
<1>2. ASSUME NEW r \in Flights, CancelToken(r) PROVE TargetInv'
  BY <1>2 DEF CancelToken, TargetInv, TargetTypeOK, RecordsFollow, ListsFollow, NamesFollow
<1>3. ASSUME NEW r \in Flights, LiftOff(r) PROVE TargetInv'
  <2> USE DEF TargetInv, TargetTypeOK, RecordsFollow, ListsFollow, NamesFollow
  <2>1. CASE record[r] \in FinalStates
    <3>1. /\ stage' = [stage EXCEPT ![r] = "ended"]
          /\ ended' = [ended EXCEPT ![r] = [state |-> record[r], error |-> "none"]]
          /\ UNCHANGED <<target, done, failures, record, stopping, token, adopting, known>>
      BY <1>3, <2>1 DEF LiftOff, Ends
    <3> QED
      BY <1>3, <2>1, <3>1 DEF LiftOff
  <2>2. CASE record[r] \notin FinalStates
    <3>1. /\ stage' = [stage EXCEPT ![r] = "go"] /\ record' = [record EXCEPT ![r] = "started"]
          /\ UNCHANGED <<target, done, failures, stopping, token, adopting, known, ended>>
      BY <1>3, <2>2 DEF LiftOff, Ends
    <3> QED
      BY <1>3, <2>2, <3>1 DEF LiftOff
  <2> QED
    BY <2>1, <2>2
<1>4. ASSUME NEW r \in Flights, Land(r) PROVE TargetInv'
  BY <1>4 DEF Land, Concludes, TargetInv, TargetTypeOK, RecordsFollow, ListsFollow, NamesFollow
<1>5. ASSUME NEW r \in Flights, StartList(r) PROVE TargetInv'
  <2> USE DEF TargetInv, TargetTypeOK, RecordsFollow, ListsFollow, NamesFollow
  <2>1. CASE ListLength[r] = 0
    <3>1. /\ stage' = [stage EXCEPT ![r] = "ended"]
          /\ ended' = [ended EXCEPT ![r] = [state |-> "failed", error |-> "refused"]]
          /\ UNCHANGED <<target, done, failures, record, stopping, token, adopting, known>>
      BY <1>5, <2>1 DEF StartList, Ends
    <3> QED
      BY <1>5, <2>1, <3>1 DEF StartList
  <2>2. CASE ListLength[r] # 0
    <3>1. /\ stage' = [stage EXCEPT ![r] = "check"] /\ UNCHANGED ended
          /\ UNCHANGED <<target, done, failures, record, stopping, token, adopting, known>>
      BY <1>5, <2>2 DEF StartList, Ends
    <3> QED
      BY <1>5, <2>2, <3>1 DEF StartList
  <2> QED
    BY <2>1, <2>2
<1>6. ASSUME NEW r \in Flights, CheckToken(r) PROVE TargetInv'
  <2> USE DEF TargetInv, TargetTypeOK, RecordsFollow, ListsFollow, NamesFollow
  <2>1. CASE (done[r] = ListLength[r] \/ r \in token) /\ failures[r] = 0
    <3>1. /\ stage' = [stage EXCEPT ![r] = "ended"]
          /\ ended' = [ended EXCEPT ![r] = [state |-> "completed", error |-> "none"]]
          /\ UNCHANGED <<target, done, failures, record, stopping, token, adopting, known>>
      BY <1>6, <2>1 DEF CheckToken, ListEnds, Ends
    <3> QED
      BY <1>6, <2>1, <3>1 DEF CheckToken
  <2>2. CASE (done[r] = ListLength[r] \/ r \in token) /\ failures[r] # 0
    <3>1. /\ stage' = [stage EXCEPT ![r] = "ended"]
          /\ ended' = [ended EXCEPT ![r] = [state |-> "failed", error |-> "actions"]]
          /\ UNCHANGED <<target, done, failures, record, stopping, token, adopting, known>>
      BY <1>6, <2>2 DEF CheckToken, ListEnds, Ends
    <3> QED
      BY <1>6, <2>2, <3>1 DEF CheckToken
  <2>3. CASE ~ (done[r] = ListLength[r] \/ r \in token)
    <3>1. /\ stage' = [stage EXCEPT ![r] = "act"] /\ UNCHANGED ended
          /\ UNCHANGED <<target, done, failures, record, stopping, token, adopting, known>>
      BY <1>6, <2>3 DEF CheckToken, ListEnds, Ends
    <3> QED
      BY <1>6, <2>3, <3>1 DEF CheckToken
  <2> QED
    BY <2>1, <2>2, <2>3
<1>7. ASSUME NEW r \in Flights, NEW raises \in BOOLEAN, RunAction(r, raises) PROVE TargetInv'
  BY <1>7 DEF RunAction, TargetInv, TargetTypeOK, RecordsFollow, ListsFollow, NamesFollow
<1>8. ASSUME NEW r \in Flights, Subscribe(r) PROVE TargetInv'
  BY <1>8 DEF Subscribe, TargetInv, TargetTypeOK, RecordsFollow, ListsFollow, NamesFollow
<1>9. ASSUME NEW r \in Flights, Begin(r) PROVE TargetInv'
  BY <1>9 DEF Begin, Publish, Adopts, TargetInv, TargetTypeOK, RecordsFollow, ListsFollow, NamesFollow
<1>10. ASSUME NEW r \in Flights, Raise(r) PROVE TargetInv'
  BY <1>10 DEF Raise, Ends, TargetInv, TargetTypeOK, RecordsFollow, ListsFollow, NamesFollow
<1>11. ASSUME NEW r \in Flights, Vanish(r) PROVE TargetInv'
  BY <1>11 DEF Vanish, Ends, TargetInv, TargetTypeOK, RecordsFollow, ListsFollow, NamesFollow
<1>12. ASSUME NEW r \in Flights, NEW status \in DOMAIN StateOfStatus, End(r, status) PROVE TargetInv'
  BY <1>12 DEF End, StateOfStatus, Ends, TargetInv, TargetTypeOK, RecordsFollow, ListsFollow, NamesFollow
<1>13. CASE ForeignBegin
  BY <1>13 DEF ForeignBegin, Publish, Adopts, TargetInv, TargetTypeOK, RecordsFollow, ListsFollow, NamesFollow
<1>14. CASE UNCHANGED targetVars
  BY <1>14 DEF targetVars, TargetInv, TargetTypeOK, RecordsFollow, ListsFollow, NamesFollow
<1> QED
  BY <1>1, <1>2, <1>3, <1>4, <1>5, <1>6, <1>7, <1>8, <1>9, <1>10, <1>11, <1>12, <1>13, <1>14 DEF TargetNext

\* What is kept together says what TargetsAreTold promises.
LEMMA TargetsTell == ASSUME TargetsOK, TargetInv PROVE TargetsAreTold
BY DEF TargetsOK, TargetInv, TargetTypeOK, RecordsFollow, ListsFollow, NamesFollow, TargetsAreTold, Stages, Errors, FinalStates

\* For any number of runs, lists of any length and stops at any moment: "completed" means that all of the
\* list was done and nothing raised, or that the pipeline succeeded; "failed" says truly why; a run stopped
\* before it began has done nothing; and no record names the pipeline run of another thread.
THEOREM RecordsAreTrue == ASSUME TargetsOK PROVE TargetSpec => []TargetsAreTold
<1>1. TargetInit => TargetInv
  BY TargetsStart
<1>2. TargetInv /\ [TargetNext]_targetVars => TargetInv'
  BY TargetSteps
<1>3. TargetInv => TargetsAreTold
  BY TargetsTell
<1> QED
  BY <1>1, <1>2, <1>3, PTL DEF TargetSpec

=============================================================================
