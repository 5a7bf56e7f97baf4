---------------------------- MODULE SeederProofs ----------------------------
(***************************************************************************)
(* Safety of the seeder for any number of buckets, keys, workers, attempts  *)
(* and runs.  What a run knows of R2 stays true because nothing but the run *)
(* itself writes and nothing deletes; the parts of SeedInv say what it      *)
(* knows in each phase.                                                     *)
(***************************************************************************)
EXTENDS Seeder, TLAPS

\* The run has put the object there itself, or repairs and found it there.
Settled(j) == object[j] # Absent /\ (~opts.repair => object[j] = opts.size)

\* Every object of the plan is settled, still to be written, or counted as
\* a failure of its bucket.
PlanInv ==
    phase \in {"load", "stamp"} =>
        \A j \in Objects :
            j[1] \in todo /\ j[2] < opts.keyspace =>
                \/ Settled(j)
                \/ j \in pending
                \/ \E w \in Workers : working[w] = j
                \/ j[1] \in failedPerBucket

\* A bucket the scan has passed over has a sentinel of the shape asked for.
SkipInv ==
    phase # "off" =>
        \A b \in Buckets \ todo :
            (phase = "scan" => b < cursor) => sentinel[b] = Shape(opts)

ForceInv == phase # "off" /\ opts.force => todo = Buckets

\* Before the load no worker has a job; a bucket is listed by repairing runs
\* only, and a listing that has ended has seen the bucket as it is.
ListInv ==
    /\ phase \in {"scan", "list"} =>
          /\ \A w \in Workers : working[w] = None
          /\ \A b \in Buckets : seen[b] \subseteq Stored(b)
    /\ phase = "list" =>
          /\ opts.repair
          /\ \A b \in todo \ listing : listFailed \/ Stored(b) \subseteq seen[b]

\* The objects a repair is to write were absent when they were listed.
RepairInv ==
    phase = "load" /\ opts.repair =>
        \A j \in Objects :
            j \in pending \/ (\E w \in Workers : working[w] = j)
                => object[j] \in {Absent, opts.size}

StampInv ==
    phase = "stamp" =>
        /\ AllDone
        /\ \A b \in todo \ failedPerBucket :
              b < cursor => sentinel[b] = Shape(opts)

SeedInv ==
    /\ TypeOK
    /\ SentinelComplete
    /\ PlanInv /\ SkipInv /\ ForceInv /\ ListInv /\ RepairInv /\ StampInv
    /\ SuccessIsReadable /\ ForcedIsExact /\ CleanBucketsStamped

-----------------------------------------------------------------------------

\* No run has begun and no sentinel stands.
LEMMA InitSeed == Init => SeedInv
<1> SUFFICES ASSUME Init PROVE SeedInv
  OBVIOUS
<1>1. TypeOK
  <2>1. opts \in OptionType
    BY SeederAssumption DEF Init
  <2>2. 0 \in 0 .. BucketCount /\ 0 \in 0 .. Attempts - 1
    BY SeederAssumption
  <2> QED
    BY <2>1, <2>2 DEF Init, TypeOK
<1>2. SentinelComplete
  BY DEF Init, SentinelComplete, Holds, NoShape, Keys
<1> QED
  BY <1>1, <1>2
  DEF Init, SeedInv, PlanInv, SkipInv, ForceInv, ListInv, RepairInv, StampInv,
      SuccessIsReadable, ForcedIsExact, CleanBucketsStamped

\* Every step of a run, of R2 and of the faults keeps the types.
LEMMA TypeStep == TypeOK /\ [Next]_vars => TypeOK'
<1> SUFFICES ASSUME TypeOK, [Next]_vars PROVE TypeOK'
  OBVIOUS
<1> USE SeederAssumption DEF TypeOK
<1>0. CASE UNCHANGED vars
  BY <1>0 DEF vars, r2Vars, listVars, loadVars
<1>1. ASSUME NEW o \in Options, Start(o) PROVE TypeOK'
  <2>1. opts' \in OptionType
    BY <1>1 DEF Start
  <2>2. cursor' \in 0 .. BucketCount /\ sentinelAttempt' \in 0 .. Attempts - 1
    BY <1>1 DEF Start
  <2>3. /\ attempt' \in [Workers -> 0 .. Attempts - 1]
        /\ working' \in [Workers -> Objects \union {None}]
        /\ seen' \in [Buckets -> SUBSET Keys]
    BY <1>1 DEF Start
  <2>4. /\ phase' \in {"off", "scan"}
        /\ exit' \in {"none", "dry"}
        /\ todo' \subseteq Buckets
    BY <1>1, Zenon DEF Start, End
  <2>5. /\ listing' = {} /\ pending' = {} /\ failedPerBucket' = {}
        /\ listFailed' = FALSE
        /\ UNCHANGED <<object, sentinel>>
        /\ runs' \in Nat
    BY <1>1 DEF Start, r2Vars
  <2> QED
    BY <2>1, <2>2, <2>3, <2>4, <2>5
<1>2. ASSUME NEW answered \in BOOLEAN, ScanBucket(answered) PROVE TypeOK'
  BY <1>2 DEF ScanBucket, r2Vars, listVars, loadVars, Buckets
<1>3. CASE ScanDone
  BY <1>3 DEF ScanDone, End, Planned, r2Vars
<1>4. ASSUME NEW b \in Buckets, ListPage(b) PROVE TypeOK'
  BY <1>4 DEF ListPage, Page, Stored, r2Vars, loadVars
<1>5. ASSUME NEW b \in Buckets, ListError(b) PROVE TypeOK'
  BY <1>5 DEF ListError, r2Vars, loadVars
<1>6. CASE ListDone
  BY <1>6 DEF ListDone, End, Planned, Missing, r2Vars, listVars
<1>7. ASSUME NEW w \in Workers, Take(w) PROVE TypeOK'
  BY <1>7 DEF Take, r2Vars, listVars
<1>8. ASSUME NEW w \in Workers, PutOk(w) PROVE TypeOK'
  BY <1>8 DEF PutOk, StoreObject, OptionType, listVars
<1>9. ASSUME NEW w \in Workers, NEW stored \in BOOLEAN, PutFails(w, stored)
      PROVE TypeOK'
  <2>1. working[w] \in Objects /\ working[w][1] \in Buckets
    BY <1>9 DEF PutFails, Objects
  <2>2. object' \in [Objects -> Sizes \union {Absent}]
    BY <1>9, <2>1 DEF PutFails, StoreObject, OptionType
  <2> QED
    BY <1>9, <2>1, <2>2 DEF PutFails, RetriesLeft, CountFailure, listVars
<1>10. CASE LoadDone
  BY <1>10 DEF LoadDone, r2Vars, listVars, loadVars
<1>11. CASE SkipSentinel
  BY <1>11 DEF SkipSentinel, r2Vars, listVars, loadVars
<1> DEFINE Shapes == [keyspace : 1 .. MaxKeyspace, size : Sizes]
                         \union {NoShape}
<1>s. Shape(opts) \in Shapes
  BY DEF Shape, OptionType
<1>12. CASE SentinelOk
  <2>1. sentinel' \in [Buckets -> Shapes]
    BY <1>12, <1>s DEF SentinelOk, StoreSentinel
  <2> QED
    BY <1>12, <2>1 DEF SentinelOk, listVars, loadVars
<1>13. ASSUME NEW stored \in BOOLEAN, SentinelFails(stored) PROVE TypeOK'
  <2>1. sentinel' \in [Buckets -> Shapes]
    BY <1>13, <1>s DEF SentinelFails, StoreSentinel
  <2> QED
    BY <1>13, <2>1 DEF SentinelFails, End, listVars, loadVars
<1>14. CASE StampDone
  BY <1>14 DEF StampDone, End, r2Vars, listVars, loadVars
<1>15. CASE Killed
  BY <1>15 DEF Killed, End, r2Vars, listVars, loadVars
<1> HIDE DEF TypeOK
<1> QED
  BY <1>0, <1>1, <1>2, <1>3, <1>4, <1>5, <1>6, <1>7, <1>8, <1>9, <1>10, <1>11,
     <1>12, <1>13, <1>14, <1>15 DEF Next, Step
\* An object is named by its bucket and its key, and what is written is there.
LEMMA ObjectNames ==
    /\ \A j \in Objects : j[1] \in Buckets /\ j[2] \in Keys /\ j = <<j[1], j[2]>>
    /\ \A b \in Buckets, k \in Keys : <<b, k>> \in Objects
    /\ TypeOK => opts.size # Absent
BY SeederAssumption DEF Objects, TypeOK, OptionType, Absent

\* Once wg.Wait has returned, a bucket without failures holds its keyspace.
LEMMA CleanHolds ==
    ASSUME SeedInv, phase = "stamp", NEW b \in Buckets, Clean(b)
    PROVE  Holds(b, Shape(opts))
<1> SUFFICES ASSUME NEW k \in Keys, k < opts.keyspace
             PROVE  object[<<b, k>>] # Absent
  BY DEF Holds, Shape
<1>1. <<b, k>> \in Objects /\ None \notin Objects
  BY ObjectNames, SeederAssumption
<1> QED
  BY <1>1 DEF SeedInv, PlanInv, StampInv, AllDone, Clean, Settled

\* A bucket with a sentinel of the shape asked for holds its keyspace.
LEMMA StampedHolds ==
    ASSUME SeedInv, NEW b \in Buckets, sentinel[b] = Shape(opts)
    PROVE  Holds(b, Shape(opts))
BY DEF SeedInv, SentinelComplete

\* Every step keeps what a run knows; the parts an action cannot disturb come
\* last.
LEMMA SeedStep == SeedInv /\ [Next]_vars => SeedInv'
<1> SUFFICES ASSUME SeedInv, [Next]_vars PROVE SeedInv'
  OBVIOUS
<1>t. TypeOK /\ TypeOK'
  BY TypeStep DEF SeedInv
<1> USE SeederAssumption, <1>t
<1>0. CASE UNCHANGED vars
  <2>1. /\ SentinelComplete' /\ PlanInv' /\ SkipInv' /\ ForceInv'
        /\ ListInv' /\ RepairInv' /\ StampInv' /\ SuccessIsReadable'
        /\ ForcedIsExact' /\ CleanBucketsStamped'
    BY <1>0
    DEF SeedInv, TypeOK, SentinelComplete, PlanInv, SkipInv, ForceInv, ListInv,
        RepairInv, StampInv, SuccessIsReadable, ForcedIsExact,
        CleanBucketsStamped, AllDone, Holds, Settled, Stored, Shape, vars,
        r2Vars, listVars, loadVars
  <2> QED
    BY <2>1 DEF SeedInv
<1>1. ASSUME NEW o \in Options, Start(o) PROVE SeedInv'
  <2>1. SkipInv'
    BY <1>1 DEF SkipInv, Start, End, Buckets
  <2>2. /\ SentinelComplete' /\ PlanInv' /\ ForceInv' /\ ListInv'
        /\ RepairInv' /\ StampInv' /\ SuccessIsReadable' /\ ForcedIsExact'
        /\ CleanBucketsStamped'
    BY <1>1
    DEF SeedInv, TypeOK, SentinelComplete, PlanInv, ForceInv, ListInv,
        RepairInv, StampInv, SuccessIsReadable, ForcedIsExact,
        CleanBucketsStamped, AllDone, Holds, Settled, Stored, Shape, Start,
        End, r2Vars
  <2> QED
    BY <2>1, <2>2 DEF SeedInv
<1>2. ASSUME NEW answered \in BOOLEAN, ScanBucket(answered) PROVE SeedInv'
  <2>1. SkipInv'
    BY <1>2
    DEF SkipInv, SeedInv, TypeOK, ScanBucket, AlreadySeeded, r2Vars, Buckets
  <2>2. /\ SentinelComplete' /\ PlanInv' /\ ForceInv' /\ ListInv'
        /\ RepairInv' /\ StampInv' /\ SuccessIsReadable' /\ ForcedIsExact'
        /\ CleanBucketsStamped'
    BY <1>2
    DEF SeedInv, TypeOK, SentinelComplete, PlanInv, ForceInv, ListInv,
        RepairInv, StampInv, SuccessIsReadable, ForcedIsExact,
        CleanBucketsStamped, AllDone, Holds, Settled, Stored, Shape,
        ScanBucket, r2Vars, listVars, loadVars
  <2> QED
    BY <2>1, <2>2 DEF SeedInv
<1>3. CASE ScanDone
  <2>1. SkipInv'
    BY <1>3 DEF SkipInv, SeedInv, ScanDone, End, r2Vars, Buckets
  <2>2. SuccessIsReadable'
    <3>1. SUFFICES ASSUME todo = {}, UNCHANGED <<object, opts>>,
                        NEW b \in Buckets
                 PROVE  Holds(b, Shape(opts))'
      BY <1>3 DEF SuccessIsReadable, ScanDone, End, r2Vars
    <3>2. sentinel[b] = Shape(opts)
      BY <1>3, <3>1 DEF SkipInv, SeedInv, ScanDone, Buckets
    <3> QED
      BY <3>1, <3>2, StampedHolds DEF Holds, Shape
  <2>3. ForcedIsExact'
    <3>1. 0 \in Buckets
      BY DEF Buckets
    <3> QED
      BY <1>3, <3>1 DEF ForcedIsExact, ForceInv, SeedInv, ScanDone, End
  <2>4. /\ SentinelComplete' /\ PlanInv' /\ ForceInv' /\ ListInv'
        /\ RepairInv' /\ StampInv' /\ CleanBucketsStamped'
    BY <1>3
    DEF SeedInv, TypeOK, SentinelComplete, PlanInv, ForceInv, ListInv,
        RepairInv, StampInv, CleanBucketsStamped, AllDone, Holds, Settled,
        Stored, Shape, ScanDone, End, Planned, r2Vars
  <2> QED
    BY <2>1, <2>2, <2>3, <2>4 DEF SeedInv
<1>4. ASSUME NEW b \in Buckets, ListPage(b) PROVE SeedInv'
  <2>1. ListInv'
    <3> DEFINE page == Page(Stored(b) \ seen[b])
    <3>1. page \subseteq Stored(b)
      BY DEF Page
    <3>2. /\ seen' = [seen EXCEPT ![b] = @ \union page]
          /\ listing' = IF page = Stored(b) \ seen[b] THEN listing \ {b}
                                                      ELSE listing
          /\ UNCHANGED <<object, opts, phase, todo, listFailed, working>>
          /\ phase = "list" /\ b \in listing
      BY <1>4 DEF ListPage, LastPage, r2Vars, loadVars
    <3> HIDE DEF page
    <3>3. \A c \in Buckets : Stored(c)' = Stored(c)
      BY <3>2 DEF Stored
    <3> QED
      BY <3>1, <3>2, <3>3 DEF ListInv, SeedInv, TypeOK
  <2>2. /\ SentinelComplete' /\ PlanInv' /\ SkipInv' /\ ForceInv'
        /\ RepairInv' /\ StampInv' /\ SuccessIsReadable' /\ ForcedIsExact'
        /\ CleanBucketsStamped'
    BY <1>4
    DEF SeedInv, TypeOK, SentinelComplete, PlanInv, SkipInv, ForceInv,
        RepairInv, StampInv, SuccessIsReadable, ForcedIsExact,
        CleanBucketsStamped, AllDone, Holds, Settled, Shape, ListPage, r2Vars,
        loadVars
  <2> QED
    BY <2>1, <2>2 DEF SeedInv
<1>5. ASSUME NEW b \in Buckets, ListError(b) PROVE SeedInv'
  <2>1. /\ SentinelComplete' /\ PlanInv' /\ SkipInv' /\ ForceInv'
        /\ ListInv' /\ RepairInv' /\ StampInv' /\ SuccessIsReadable'
        /\ ForcedIsExact' /\ CleanBucketsStamped'
    BY <1>5
    DEF SeedInv, TypeOK, SentinelComplete, PlanInv, SkipInv, ForceInv, ListInv,
        RepairInv, StampInv, SuccessIsReadable, ForcedIsExact,
        CleanBucketsStamped, AllDone, Holds, Settled, Stored, Shape, ListError,
        r2Vars, loadVars
  <2> QED
    BY <2>1 DEF SeedInv
<1>6. CASE ListDone
  <2>1. PlanInv'
    <3> SUFFICES ASSUME phase' = "load", NEW j \in Objects,
                        j[1] \in todo, j[2] < opts.keyspace, j \notin pending'
                 PROVE  Settled(j)'
      BY <1>6 DEF PlanInv, ListDone, End
    <3>1. pending' = Missing /\ UNCHANGED <<object, opts>> /\ opts.repair
      BY <1>6 DEF ListDone, End, r2Vars, ListInv, SeedInv
    <3>2. j[2] \in Stored(j[1])
      BY <1>6, <3>1, ObjectNames DEF Missing, Planned, ListDone, ListInv, SeedInv
    <3> QED
      BY <3>1, <3>2, ObjectNames DEF Stored, Settled
  <2>2. RepairInv'
    <3> SUFFICES ASSUME phase' = "load", NEW j \in Objects, j \in pending'
                 PROVE  object[j] = Absent
      BY <1>6 DEF RepairInv, ListDone, End, ListInv, SeedInv, r2Vars
    <3>1. j[1] \in todo /\ j[2] \notin seen[j[1]] /\ ~listFailed /\ listing = {}
      BY <1>6 DEF ListDone, End, Missing, Planned
    <3>2. j[2] \notin Stored(j[1])
      BY <1>6, <3>1 DEF ListDone, ListInv, SeedInv
    <3> QED
      BY <3>2, ObjectNames DEF Stored
  <2>3. /\ SentinelComplete' /\ SkipInv' /\ ForceInv' /\ ListInv'
        /\ StampInv' /\ SuccessIsReadable' /\ ForcedIsExact'
        /\ CleanBucketsStamped'
    BY <1>6
    DEF SeedInv, TypeOK, SentinelComplete, SkipInv, ForceInv, ListInv,
        StampInv, SuccessIsReadable, ForcedIsExact, CleanBucketsStamped,
        AllDone, Holds, Stored, Shape, ListDone, End, r2Vars, listVars
  <2> QED
    BY <2>1, <2>2, <2>3 DEF SeedInv
<1>7. ASSUME NEW w \in Workers, Take(w) PROVE SeedInv'
  <2>1. /\ SentinelComplete' /\ PlanInv' /\ SkipInv' /\ ForceInv'
        /\ ListInv' /\ RepairInv' /\ StampInv' /\ SuccessIsReadable'
        /\ ForcedIsExact' /\ CleanBucketsStamped'
    BY <1>7
    DEF SeedInv, TypeOK, SentinelComplete, PlanInv, SkipInv, ForceInv, ListInv,
        RepairInv, StampInv, SuccessIsReadable, ForcedIsExact,
        CleanBucketsStamped, AllDone, Holds, Settled, Stored, Shape, Take,
        r2Vars, listVars
  <2> QED
    BY <2>1 DEF SeedInv
<1>8. ASSUME NEW w \in Workers, PutOk(w) PROVE SeedInv'
  <2>1. SentinelComplete'
    BY <1>8, ObjectNames
    DEF SentinelComplete, SeedInv, TypeOK, Holds, PutOk, StoreObject
  <2>2. PlanInv'
    <3>1. /\ object' = [object EXCEPT ![working[w]] = opts.size]
          /\ working' = [working EXCEPT ![w] = None]
          /\ UNCHANGED <<opts, phase, todo, pending, failedPerBucket>>
      BY <1>8 DEF PutOk, StoreObject
    <3>2. \A j \in Objects : j = working[w] => Settled(j)'
      BY <3>1, ObjectNames DEF TypeOK, Settled
    <3>3. \A j \in Objects : Settled(j) => Settled(j)'
      BY <3>1, ObjectNames DEF TypeOK, Settled
    <3> QED
      BY <3>1, <3>2, <3>3 DEF PlanInv, SeedInv, TypeOK
  <2>3. /\ SkipInv' /\ ForceInv' /\ ListInv' /\ RepairInv' /\ StampInv'
        /\ SuccessIsReadable' /\ ForcedIsExact' /\ CleanBucketsStamped'
    BY <1>8
    DEF SeedInv, TypeOK, SkipInv, ForceInv, ListInv, RepairInv, StampInv,
        SuccessIsReadable, ForcedIsExact, CleanBucketsStamped, AllDone, Holds,
        Stored, Shape, PutOk, StoreObject, listVars
  <2> QED
    BY <2>1, <2>2, <2>3 DEF SeedInv
<1>9. ASSUME NEW w \in Workers, NEW stored \in BOOLEAN, PutFails(w, stored)
      PROVE SeedInv'
  <2>1. SentinelComplete'
    BY <1>9, ObjectNames
    DEF SentinelComplete, SeedInv, TypeOK, Holds, PutFails, StoreObject
  <2>2. /\ PlanInv' /\ SkipInv' /\ ForceInv' /\ ListInv' /\ RepairInv'
        /\ StampInv' /\ SuccessIsReadable' /\ ForcedIsExact'
        /\ CleanBucketsStamped'
    BY <1>9
    DEF SeedInv, TypeOK, PlanInv, SkipInv, ForceInv, ListInv, RepairInv,
        StampInv, SuccessIsReadable, ForcedIsExact, CleanBucketsStamped,
        AllDone, Holds, Settled, Stored, Shape, PutFails, StoreObject,
        CountFailure, listVars
  <2> QED
    BY <2>1, <2>2 DEF SeedInv
<1>10. CASE LoadDone
  <2>1. StampInv'
    BY <1>10 DEF StampInv, AllDone, LoadDone, loadVars, TypeOK, Buckets
  <2>2. /\ SentinelComplete' /\ PlanInv' /\ SkipInv' /\ ForceInv'
        /\ ListInv' /\ RepairInv' /\ SuccessIsReadable' /\ ForcedIsExact'
        /\ CleanBucketsStamped'
    BY <1>10
    DEF SeedInv, TypeOK, SentinelComplete, PlanInv, SkipInv, ForceInv, ListInv,
        RepairInv, SuccessIsReadable, ForcedIsExact, CleanBucketsStamped,
        Holds, Settled, Stored, Shape, LoadDone, r2Vars, listVars, loadVars
  <2> QED
    BY <2>1, <2>2 DEF SeedInv
<1>11. CASE SkipSentinel
  <2>1. StampInv'
    BY <1>11
    DEF StampInv, AllDone, SeedInv, TypeOK, SkipSentinel, Clean, r2Vars,
        loadVars, Buckets
  <2>2. /\ SentinelComplete' /\ PlanInv' /\ SkipInv' /\ ForceInv'
        /\ ListInv' /\ RepairInv' /\ SuccessIsReadable' /\ ForcedIsExact'
        /\ CleanBucketsStamped'
    BY <1>11
    DEF SeedInv, TypeOK, SentinelComplete, PlanInv, SkipInv, ForceInv, ListInv,
        RepairInv, SuccessIsReadable, ForcedIsExact, CleanBucketsStamped,
        Holds, Settled, Stored, Shape, SkipSentinel, r2Vars, listVars, loadVars
  <2> QED
    BY <2>1, <2>2 DEF SeedInv
<1>12. CASE SentinelOk
  <2>1. SentinelComplete'
    <3>1. cursor \in Buckets /\ Holds(cursor, Shape(opts))
      BY <1>12, CleanHolds DEF SentinelOk, TypeOK, Buckets
    <3> QED
      BY <1>12, <3>1 DEF SentinelComplete, SeedInv, TypeOK, Holds, SentinelOk, StoreSentinel
  <2>2. StampInv'
    BY <1>12
    DEF StampInv, AllDone, SeedInv, TypeOK, SentinelOk, StoreSentinel,
        loadVars, Buckets
  <2>3. /\ PlanInv' /\ SkipInv' /\ ForceInv' /\ ListInv' /\ RepairInv'
        /\ SuccessIsReadable' /\ ForcedIsExact' /\ CleanBucketsStamped'
    BY <1>12
    DEF SeedInv, TypeOK, PlanInv, SkipInv, ForceInv, ListInv, RepairInv,
        SuccessIsReadable, ForcedIsExact, CleanBucketsStamped, Holds, Settled,
        Stored, Shape, SentinelOk, StoreSentinel, Clean, listVars, loadVars
  <2> QED
    BY <2>1, <2>2, <2>3 DEF SeedInv
<1>13. ASSUME NEW stored \in BOOLEAN, SentinelFails(stored) PROVE SeedInv'
  <2>1. SentinelComplete'
    <3>1. cursor \in Buckets /\ Holds(cursor, Shape(opts))
      BY <1>13, CleanHolds DEF SentinelFails, TypeOK, Buckets
    <3> QED
      BY <1>13, <3>1 DEF SentinelComplete, SeedInv, TypeOK, Holds, SentinelFails, StoreSentinel
  <2>2. /\ PlanInv' /\ SkipInv' /\ ForceInv' /\ ListInv' /\ RepairInv'
        /\ StampInv' /\ SuccessIsReadable' /\ ForcedIsExact'
        /\ CleanBucketsStamped'
    BY <1>13
    DEF SeedInv, TypeOK, PlanInv, SkipInv, ForceInv, ListInv, RepairInv,
        StampInv, SuccessIsReadable, ForcedIsExact, CleanBucketsStamped,
        AllDone, Holds, Settled, Stored, Shape, SentinelFails, StoreSentinel,
        Clean, End, listVars, loadVars
  <2> QED
    BY <2>1, <2>2 DEF SeedInv
<1>14. CASE StampDone
  <2>1. SuccessIsReadable'
    <3> SUFFICES ASSUME failedPerBucket = {}, NEW b \in Buckets
                 PROVE  Holds(b, Shape(opts))'
      BY <1>14 DEF SuccessIsReadable, StampDone, End
    <3>1. Holds(b, Shape(opts))
      BY <1>14, CleanHolds, StampedHolds DEF Clean, StampDone, SkipInv, SeedInv
    <3> QED
      BY <1>14, <3>1 DEF StampDone, Holds, Shape, r2Vars
  <2>2. ForcedIsExact'
    BY <1>14, ObjectNames
    DEF ForcedIsExact, StampDone, End, r2Vars, SeedInv, PlanInv, StampInv,
        AllDone, ForceInv, Settled
  <2>3. CleanBucketsStamped'
    BY <1>14
    DEF CleanBucketsStamped, StampDone, End, r2Vars, loadVars, SeedInv,
        StampInv, TypeOK, Buckets
  <2>4. /\ SentinelComplete' /\ PlanInv' /\ SkipInv' /\ ForceInv'
        /\ ListInv' /\ RepairInv' /\ StampInv'
    BY <1>14
    DEF SeedInv, TypeOK, SentinelComplete, PlanInv, SkipInv, ForceInv, ListInv,
        RepairInv, StampInv, AllDone, Holds, Settled, Stored, Shape, StampDone,
        End, r2Vars, listVars, loadVars
  <2> QED
    BY <2>1, <2>2, <2>3, <2>4 DEF SeedInv
<1>15. CASE Killed
  <2>1. /\ SentinelComplete' /\ PlanInv' /\ SkipInv' /\ ForceInv'
        /\ ListInv' /\ RepairInv' /\ StampInv' /\ SuccessIsReadable'
        /\ ForcedIsExact' /\ CleanBucketsStamped'
    BY <1>15
    DEF SeedInv, TypeOK, SentinelComplete, PlanInv, SkipInv, ForceInv, ListInv,
        RepairInv, StampInv, SuccessIsReadable, ForcedIsExact,
        CleanBucketsStamped, AllDone, Holds, Settled, Stored, Shape, Killed,
        End, r2Vars, listVars, loadVars
  <2> QED
    BY <2>1 DEF SeedInv
<1> QED
  BY <1>0, <1>1, <1>2, <1>3, <1>4, <1>5, <1>6, <1>7, <1>8, <1>9, <1>10, <1>11,
     <1>12, <1>13, <1>14, <1>15 DEF Next, Step

\* The inductive invariant of the runs.
LEMMA SeedInvariant == Spec => []SeedInv
<1>1. Init => SeedInv
  BY InitSeed
<1>2. SeedInv /\ [Next]_vars => SeedInv'
  BY SeedStep
<1> QED
  BY <1>1, <1>2, PTL DEF Spec

\* Every variable of the seeder keeps its type: the attempts stay below the
\* limit of putWithRetry, the cursor within the buckets.
THEOREM SeederTyped == Spec => []TypeOK
<1>1. SeedInv => TypeOK
  BY DEF SeedInv
<1> QED
  BY <1>1, SeedInvariant, PTL

\* A sentinel only ever names a keyspace that is fully in R2, for any number of
\* buckets, workers and runs, whatever fails or is killed (writeSentinels).
THEOREM SentinelsComplete == Spec => []SentinelComplete
<1>1. SeedInv => SentinelComplete
  BY DEF SeedInv
<1> QED
  BY <1>1, SeedInvariant, PTL

\* A run that returns nil leaves an object behind every key the agent may read.
THEOREM SuccessReadable == Spec => []SuccessIsReadable
<1>1. SeedInv => SuccessIsReadable
  BY DEF SeedInv
<1> QED
  BY <1>1, SeedInvariant, PTL

\* A forced full seed that returns nil leaves every object at the size asked for.
THEOREM ForcedExact == Spec => []ForcedIsExact
<1>1. SeedInv => ForcedIsExact
  BY DEF SeedInv
<1> QED
  BY <1>1, SeedInvariant, PTL

\* Failures in one bucket never cost the sentinel of another.
THEOREM CleanStamped == Spec => []CleanBucketsStamped
<1>1. SeedInv => CleanBucketsStamped
  BY DEF SeedInv
<1> QED
  BY <1>1, SeedInvariant, PTL

\* A repairing run changes no object that exists (missingKeys, and workers that
\* retry only what was absent): only PUTs change objects, and RepairInv says
\* what they overwrite.
THEOREM RepairsOnlyAdd == Spec => RepairOnlyAdds
<1> DEFINE Kept == phase # "off" /\ opts.repair =>
        \A j \in Objects : object[j] # Absent => object'[j] = object[j]
<1>1. SeedInv /\ [Next]_vars => [Kept]_vars
  <2> SUFFICES ASSUME SeedInv, Next, phase # "off", opts.repair,
                      NEW j \in Objects, object[j] # Absent
               PROVE  object'[j] = object[j]
    OBVIOUS
  <2>1. ASSUME NEW w \in Workers, phase = "load", working[w] # None,
               NEW stored \in BOOLEAN, StoreObject(working[w], stored)
        PROVE  object'[j] = object[j]
    BY <2>1 DEF StoreObject, SeedInv, RepairInv, TypeOK
  <2>2. ASSUME NEW w \in Workers, PutOk(w) PROVE object'[j] = object[j]
    BY <2>1, <2>2 DEF PutOk
  <2>3. ASSUME NEW w \in Workers, NEW stored \in BOOLEAN, PutFails(w, stored)
        PROVE  object'[j] = object[j]
    BY <2>1, <2>3 DEF PutFails
  <2>4. ASSUME UNCHANGED object PROVE object'[j] = object[j]
    BY <2>4
  <2> QED
    BY <2>2, <2>3, <2>4
    DEF Next, Step, Start, ScanBucket, ScanDone, ListPage, ListError, ListDone,
        Take, LoadDone, SkipSentinel, SentinelOk, SentinelFails, StampDone,
        Killed, r2Vars
<1> HIDE DEF Kept
<1>2. Spec => [][Kept]_vars
  BY <1>1, SeedInvariant, PTL DEF Spec
<1> QED
  BY <1>2 DEF RepairOnlyAdds, Kept
=============================================================================
