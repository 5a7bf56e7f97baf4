------------------------------- MODULE Seeder -------------------------------
(***************************************************************************)
(* cmd/seeder: runs of the seeder, one after the other, against the objects *)
(* and the sentinels R2 keeps between them.  One action is one request to   *)
(* R2 with the code up to the next one.  A run may be killed at any time; a *)
(* PUT may fail, and it may be stored although its answer is lost.          *)
(*                                                                          *)
(* An object is its size.  Key prefix and bucket names do not change from   *)
(* run to run: another prefix is another set of objects and sentinels.      *)
(***************************************************************************)
EXTENDS Integers, FiniteSets

CONSTANTS
    BucketCount,    \* -bucket-count
    MaxKeyspace,    \* the largest -keyspace of any run
    Sizes,          \* the object sizes asked for
    Options,        \* command lines an operator may use
    Workers,        \* the worker goroutines, -concurrency of them
    Attempts,       \* attempts of putWithRetry, 6 in the code
    PageSize,       \* max-keys of a listing page
    None,           \* no job
    MaxRuns         \* how often the seeder is started

Buckets == 0 .. BucketCount - 1
Keys    == 0 .. MaxKeyspace - 1
Objects == Buckets \X Keys

OptionType == [keyspace : 1 .. MaxKeyspace, size : Sizes,
               force : BOOLEAN, repair : BOOLEAN, dryRun : BOOLEAN]

ASSUME SeederAssumption ==
    /\ {BucketCount, MaxKeyspace, Attempts, PageSize} \subseteq Nat \ {0}
    /\ MaxRuns \in Nat
    /\ Sizes \subseteq Nat \ {0}
    /\ Options \subseteq OptionType
    /\ None \notin Objects

Absent   == 0
NoShape  == [keyspace |-> 0, size |-> 0]
Shape(o) == [keyspace |-> o.keyspace, size |-> o.size]

VARIABLES
    \* R2, which outlives a run.
    object,         \* the size of each object, Absent when there is none
    sentinel,       \* the shape in each bucket's sentinel
    \* One run.
    runs, opts,
    phase,          \* "off", "scan", "list", "load" or "stamp"
    exit,           \* how the last run ended
    todo,           \* bucketsToSeed
    cursor,         \* the bucket the scan, or writeSentinels, is at
    listing,        \* buckets whose listing has not ended
    seen,           \* the keys listed so far in each bucket
    listFailed,     \* did a listing return an error?
    pending,        \* jobs not yet taken from the channel
    working,        \* the job each worker has in hand
    attempt,        \* the attempt each worker is at
    sentinelAttempt,\* the attempt writeSentinel is at
    failedPerBucket \* the buckets whose count of failures is not 0

r2Vars   == <<object, sentinel>>
listVars == <<listing, seen, listFailed>>
loadVars == <<pending, working, attempt, failedPerBucket>>
vars     == <<r2Vars, runs, opts, phase, exit, todo, cursor, listVars, loadVars,
              sentinelAttempt>>

TypeOK ==
    /\ object \in [Objects -> Sizes \union {Absent}]
    /\ sentinel \in [Buckets -> [keyspace : 1 .. MaxKeyspace, size : Sizes]
                                    \union {NoShape}]
    /\ runs \in Nat
    /\ opts \in OptionType
    /\ phase \in {"off", "scan", "list", "load", "stamp"}
    /\ exit \in {"none", "ok", "dry", "incomplete", "error", "killed"}
    /\ todo \subseteq Buckets
    /\ cursor \in 0 .. BucketCount
    /\ listing \subseteq Buckets
    /\ seen \in [Buckets -> SUBSET Keys]
    /\ listFailed \in BOOLEAN
    /\ pending \subseteq Objects
    /\ working \in [Workers -> Objects \union {None}]
    /\ attempt \in [Workers -> 0 .. Attempts - 1]
    /\ sentinelAttempt \in 0 .. Attempts - 1
    /\ failedPerBucket \subseteq Buckets

Init ==
    /\ object = [j \in Objects |-> Absent]
    /\ sentinel = [b \in Buckets |-> NoShape]
    /\ runs = 0
    /\ opts \in Options
    /\ phase = "off"
    /\ exit = "none"
    /\ todo = {} /\ cursor = 0
    /\ listing = {} /\ seen = [b \in Buckets |-> {}] /\ listFailed = FALSE
    /\ pending = {} /\ failedPerBucket = {}
    /\ working = [w \in Workers |-> None]
    /\ attempt = [w \in Workers |-> 0]
    /\ sentinelAttempt = 0

-----------------------------------------------------------------------------
(* The start of a run and bucketsToSeed *)

End(how) == phase' = "off" /\ exit' = how

\* main: a dry run that does not repair says what it would do and returns.
\* bucketsToSeed with -force takes every bucket and reads no sentinel.
Start(o) ==
    /\ phase = "off" /\ runs < MaxRuns
    /\ runs' = runs + 1
    /\ opts' = o
    /\ IF o.dryRun /\ ~o.repair
         THEN End("dry")
         ELSE phase' = "scan" /\ exit' = "none"
    /\ todo' = IF o.force THEN Buckets ELSE {}
    /\ cursor' = IF o.force THEN BucketCount ELSE 0
    /\ listing' = {} /\ seen' = [b \in Buckets |-> {}] /\ listFailed' = FALSE
    /\ pending' = {} /\ failedPerBucket' = {}
    /\ working' = [w \in Workers |-> None]
    /\ attempt' = [w \in Workers |-> 0]
    /\ sentinelAttempt' = 0
    /\ UNCHANGED r2Vars

\* Mutation: any sentinel counts, whatever shape it records.
AnySentinel(b) == sentinel[b] # NoShape

\* The sentinel of b says the shape this run asks for.
AlreadySeeded(b) == sentinel[b] = Shape(opts)

\* A GET that fails, or answers something else, leaves the bucket to do.
ScanBucket(answered) ==
    /\ phase = "scan" /\ cursor < BucketCount
    /\ todo' = IF answered /\ AlreadySeeded(cursor) THEN todo
                                                    ELSE todo \union {cursor}
    /\ cursor' = cursor + 1
    /\ UNCHANGED <<r2Vars, runs, opts, phase, exit, listVars, loadVars,
                   sentinelAttempt>>

\* Mutation: what is there already is not written again.
PlannedAbsent ==
    {j \in Objects : j[1] \in todo /\ j[2] < opts.keyspace /\ object[j] = Absent}

\* Without -repair the plan of a bucket is its whole keyspace.
Planned == {j \in Objects : j[1] \in todo /\ j[2] < opts.keyspace}

ScanDone ==
    /\ phase = "scan" /\ cursor = BucketCount
    /\ \/ /\ todo = {}
          /\ End("ok")
          /\ UNCHANGED <<listing, pending>>
       \/ /\ todo # {} /\ opts.repair
          /\ phase' = "list"
          /\ listing' = todo
          /\ UNCHANGED <<exit, pending>>
       \/ /\ todo # {} /\ ~opts.repair
          /\ phase' = "load"
          /\ pending' = Planned
          /\ UNCHANGED <<exit, listing>>
    /\ UNCHANGED <<r2Vars, runs, opts, todo, cursor, seen, listFailed, working,
                   attempt, failedPerBucket, sentinelAttempt>>

-----------------------------------------------------------------------------
(* Repair: every bucket to do is listed, page by page, all of them at once *)

Stored(b) == {k \in Keys : object[<<b, k>>] # Absent}

\* Keys come back in the order of their zero-padded names.
Page(rest) == {k \in rest : Cardinality({i \in rest : i < k}) < PageSize}

\* Mutation: the continuation token is not followed.
FirstPageOnly(b) == TRUE

LastPage(b) == Page(Stored(b) \ seen[b]) = Stored(b) \ seen[b]

\* missingKeys: one page of listPage.
ListPage(b) ==
    /\ phase = "list" /\ b \in listing
    /\ seen' = [seen EXCEPT ![b] = @ \union Page(Stored(b) \ @)]
    /\ listing' = IF LastPage(b) THEN listing \ {b} ELSE listing
    /\ UNCHANGED <<r2Vars, runs, opts, phase, exit, todo, cursor, listFailed,
                   loadVars, sentinelAttempt>>

\* A page that fails ends the listing of its bucket.
ListError(b) ==
    /\ phase = "list" /\ b \in listing
    /\ listing' = listing \ {b}
    /\ listFailed' = TRUE
    /\ UNCHANGED <<r2Vars, runs, opts, phase, exit, todo, cursor, seen,
                   loadVars, sentinelAttempt>>

Missing == {j \in Planned : j[2] \notin seen[j[1]]}

\* lwg.Wait: any error ends the run, a dry run stops after planning.
ListDone ==
    /\ phase = "list" /\ listing = {}
    /\ \/ /\ listFailed
          /\ End("error")
          /\ UNCHANGED pending
       \/ /\ ~listFailed /\ opts.dryRun
          /\ End("dry")
          /\ UNCHANGED pending
       \/ /\ ~listFailed /\ ~opts.dryRun
          /\ phase' = "load"
          /\ pending' = Missing
          /\ UNCHANGED exit
    /\ UNCHANGED <<r2Vars, runs, opts, todo, cursor, listVars, working, attempt,
                   failedPerBucket, sentinelAttempt>>

-----------------------------------------------------------------------------
(* The workers *)

Before(i, j) == i[1] < j[1] \/ (i[1] = j[1] /\ i[2] < j[2])

\* The channel hands out jobs bucket by bucket, key by key.
Take(w) ==
    /\ phase = "load" /\ working[w] = None
    /\ \E j \in pending :
         /\ \A i \in pending : ~Before(i, j)
         /\ pending' = pending \ {j}
         /\ working' = [working EXCEPT ![w] = j]
    /\ attempt' = [attempt EXCEPT ![w] = 0]
    /\ UNCHANGED <<r2Vars, runs, opts, phase, exit, todo, cursor, listVars,
                   failedPerBucket, sentinelAttempt>>

\* put of an object: R2 stored it or not.
StoreObject(j, stored) ==
    object' = IF stored THEN [object EXCEPT ![j] = opts.size] ELSE object

\* The answer is a 2xx, so the object was stored.
PutOk(w) ==
    /\ phase = "load" /\ working[w] # None
    /\ StoreObject(working[w], TRUE)
    /\ working' = [working EXCEPT ![w] = None]
    /\ UNCHANGED <<sentinel, runs, opts, phase, exit, todo, cursor, listVars,
                   pending, attempt, failedPerBucket, sentinelAttempt>>

\* Mutation: one attempt too many.
OneMoreAttempt(n) == n < Attempts

RetriesLeft(n) == n + 1 < Attempts

\* Mutation: a failed job is counted in the total only.
NotCounted(w) == failedPerBucket

CountFailure(w) == failedPerBucket \union {working[w][1]}

\* No 2xx answer, whether or not the object was stored: try again, or count
\* the object as failed after the last attempt.
PutFails(w, stored) ==
    /\ phase = "load" /\ working[w] # None
    /\ StoreObject(working[w], stored)
    /\ \/ /\ RetriesLeft(attempt[w])
          /\ attempt' = [attempt EXCEPT ![w] = @ + 1]
          /\ UNCHANGED <<working, failedPerBucket>>
       \/ /\ ~RetriesLeft(attempt[w])
          /\ failedPerBucket' = CountFailure(w)
          /\ working' = [working EXCEPT ![w] = None]
          /\ UNCHANGED attempt
    /\ UNCHANGED <<sentinel, runs, opts, phase, exit, todo, cursor, listVars,
                   pending, sentinelAttempt>>

\* Mutation: the load ends only once nothing has failed.
AllClean == pending = {} /\ failedPerBucket = {}
                /\ \A w \in Workers : working[w] = None

\* close(jobs); wg.Wait()
AllDone == pending = {} /\ \A w \in Workers : working[w] = None

LoadDone ==
    /\ phase = "load" /\ AllDone
    /\ phase' = "stamp"
    /\ cursor' = 0
    /\ UNCHANGED <<r2Vars, runs, opts, exit, todo, listVars, loadVars,
                   sentinelAttempt>>

-----------------------------------------------------------------------------
(* writeSentinels *)

\* Mutation: one bucket with failures voids the sentinels of all.
NoFailureAnywhere(b) == b \in todo /\ failedPerBucket = {}

Clean(b) == b \in todo /\ b \notin failedPerBucket

SkipSentinel ==
    /\ phase = "stamp" /\ cursor < BucketCount /\ ~Clean(cursor)
    /\ cursor' = cursor + 1
    /\ UNCHANGED <<r2Vars, runs, opts, phase, exit, todo, listVars, loadVars,
                   sentinelAttempt>>

StoreSentinel(stored) ==
    sentinel' = IF stored THEN [sentinel EXCEPT ![cursor] = Shape(opts)]
                          ELSE sentinel

SentinelOk ==
    /\ phase = "stamp" /\ cursor < BucketCount /\ Clean(cursor)
    /\ StoreSentinel(TRUE)
    /\ cursor' = cursor + 1
    /\ sentinelAttempt' = 0
    /\ UNCHANGED <<object, runs, opts, phase, exit, todo, listVars, loadVars>>

\* The last attempt that fails ends the run.
SentinelFails(stored) ==
    /\ phase = "stamp" /\ cursor < BucketCount /\ Clean(cursor)
    /\ StoreSentinel(stored)
    /\ \/ /\ sentinelAttempt + 1 < Attempts
          /\ sentinelAttempt' = sentinelAttempt + 1
          /\ UNCHANGED <<phase, exit>>
       \/ /\ sentinelAttempt + 1 = Attempts
          /\ End("error")
          /\ UNCHANGED sentinelAttempt
    /\ UNCHANGED <<object, runs, opts, todo, cursor, listVars, loadVars>>

\* Objects that failed are reported after the sentinels of the clean buckets.
StampDone ==
    /\ phase = "stamp" /\ cursor = BucketCount
    /\ End(IF failedPerBucket = {} THEN "ok" ELSE "incomplete")
    /\ UNCHANGED <<r2Vars, runs, opts, todo, cursor, listVars, loadVars,
                   sentinelAttempt>>

-----------------------------------------------------------------------------

\* The process is killed; what R2 holds stays.
Killed ==
    /\ phase # "off"
    /\ End("killed")
    /\ UNCHANGED <<r2Vars, runs, opts, todo, cursor, listVars, loadVars,
                   sentinelAttempt>>

Step ==
    \/ \E answered \in BOOLEAN : ScanBucket(answered)
    \/ ScanDone
    \/ \E b \in Buckets : ListPage(b) \/ ListError(b)
    \/ ListDone
    \/ \E w \in Workers : Take(w) \/ PutOk(w)
    \/ \E w \in Workers, stored \in BOOLEAN : PutFails(w, stored)
    \/ LoadDone
    \/ SkipSentinel
    \/ SentinelOk
    \/ \E stored \in BOOLEAN : SentinelFails(stored)
    \/ StampDone

Next == (\E o \in Options : Start(o)) \/ Step \/ Killed

Spec == Init /\ [][Next]_vars

\* http.Client has a timeout of 30 s, so a request always ends one way or
\* the other and the run goes on to its next one.
FairSpec == Spec /\ WF_vars(Step)

-----------------------------------------------------------------------------
(* Properties *)

Holds(b, shape) == \A k \in Keys : k < shape.keyspace => object[<<b, k>>] # Absent

\* A sentinel is written only once its bucket is fully populated: every key of
\* the keyspace it records is in R2, whatever runs, failures and kills came
\* before (writeSentinels after wg.Wait, failedPerBucket, missingKeys).
SentinelComplete == \A b \in Buckets : Holds(b, sentinel[b])

\* When run returns nil, every GET the agent can make finds an object, in the
\* buckets it skipped, repaired and filled alike.
SuccessIsReadable ==
    phase = "off" /\ exit = "ok" => \A b \in Buckets : Holds(b, Shape(opts))

\* A forced full seed that succeeds leaves every object at the size asked for,
\* whatever earlier runs left: retries and lost answers included.
ForcedIsExact ==
    phase = "off" /\ exit = "ok" /\ opts.force /\ ~opts.repair
        => \A j \in Objects : j[2] < opts.keyspace => object[j] = opts.size

\* "A failure in one bucket must not cost the sentinel of another"
\* (cmd/seeder/main_test.go): a run that got to its end has stamped every one of
\* its buckets that is clean, whichever others failed.
CleanBucketsStamped ==
    phase = "off" /\ exit \in {"ok", "incomplete"}
        => \A b \in todo \ failedPerBucket : sentinel[b] = Shape(opts)

\* -repair writes "only the objects that are missing": no object that exists is
\* changed by a repairing run, so pages and buckets listed in any order and
\* retried PUTs rewrite nothing.
RepairOnlyAdds ==
    [][phase # "off" /\ opts.repair =>
          \A j \in Objects : object[j] # Absent => object'[j] = object[j]]_vars

\* Every run ends, even if every request fails.
Terminates == phase # "off" ~> phase = "off"

\* "SentinelBody encodes the shape a bucket was seeded with": once a run has
\* succeeded, the objects of a bucket have the size its sentinel records.  Not
\* true of the code.
SentinelExact ==
    phase = "off" /\ exit = "ok"
        => \A b \in Buckets, k \in Keys :
              k < sentinel[b].keyspace => object[<<b, k>>] = sentinel[b].size
=============================================================================
