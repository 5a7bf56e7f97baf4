----------------------------- MODULE SigningKey -----------------------------
(***************************************************************************)
(* The signing-key cache of internal/r2/sigv4.go, which every worker of the *)
(* agent and of the seeder goes through on every request.  The part of      *)
(* signingKey that runs under the read lock is one action: it only reads,   *)
(* and the lock keeps writers out.  Under the write lock every assignment   *)
(* is an action of its own.  A key is the date it was derived from.         *)
(***************************************************************************)
EXTENDS Naturals

CONSTANTS Callers,  \* the goroutines that sign
          None,     \* nobody
          MaxDay    \* bounds the number of midnights

ASSUME SigningAssumption == None \notin Callers /\ MaxDay \in Nat

Derive(date) == [derivedFrom |-> date]
NoKey == Derive(0)

VARIABLES
    today,                  \* the UTC day
    cachedDate, cachedKey,
    writer,                 \* who holds the write lock
    sign                    \* signingKey's locals in each caller

signVars == <<today, cachedDate, cachedKey, writer, sign>>

Days     == 0 .. MaxDay + 1
Keys     == {Derive(d) : d \in Days}
SignIdle == [pc |-> "idle", date |-> 0, key |-> NoKey]

SignTypeOK ==
    /\ today \in Days \ {0}
    /\ cachedDate \in Days /\ cachedKey \in Keys
    /\ writer \in Callers \union {None}
    /\ sign \in [Callers ->
            [pc : {"idle", "read", "lock", "recheck", "derive", "publish", "signed"},
             date : Days, key : Keys]]

SignInit ==
    /\ today = 1
    /\ cachedDate = 0 /\ cachedKey = NoKey
    /\ writer = None
    /\ sign = [c \in Callers |-> SignIdle]

GotoSign(c, pc) == sign' = [sign EXCEPT ![c].pc = pc]

ReturnKey(c) == sign' = [sign EXCEPT ![c].pc = "signed", ![c].key = cachedKey]

Midnight ==
    /\ today <= MaxDay
    /\ today' = today + 1
    /\ UNCHANGED <<cachedDate, cachedKey, writer, sign>>

\* Sign: the date stamp is that of the moment the caller read the clock.
SignBegin(c) ==
    /\ sign[c].pc = "idle"
    /\ sign' = [sign EXCEPT ![c] = [pc |-> "read", date |-> today, key |-> NoKey]]
    /\ UNCHANGED <<today, cachedDate, cachedKey, writer>>

\* Mutation: the date is compared without the read lock.
ReadUnlocked(c) ==
    /\ sign[c].pc = "read"
    /\ IF cachedDate = sign[c].date THEN ReturnKey(c) ELSE GotoSign(c, "lock")
    /\ UNCHANGED <<today, cachedDate, cachedKey, writer>>

\* From RLock to RUnlock.
ReadCache(c) ==
    /\ sign[c].pc = "read" /\ writer = None
    /\ IF cachedDate = sign[c].date THEN ReturnKey(c) ELSE GotoSign(c, "lock")
    /\ UNCHANGED <<today, cachedDate, cachedKey, writer>>

LockCache(c) ==
    /\ sign[c].pc = "lock" /\ writer = None
    /\ writer' = c
    /\ GotoSign(c, "recheck")
    /\ UNCHANGED <<today, cachedDate, cachedKey>>

\* Another caller may have renewed the key between the two locks.
Recheck(c) ==
    /\ sign[c].pc = "recheck"
    /\ \/ /\ cachedDate = sign[c].date
          /\ ReturnKey(c)
          /\ writer' = None
       \/ /\ cachedDate # sign[c].date
          /\ GotoSign(c, "derive")
          /\ UNCHANGED writer
    /\ UNCHANGED <<today, cachedDate, cachedKey>>

DeriveKey(c) ==
    /\ sign[c].pc = "derive"
    /\ cachedKey' = Derive(sign[c].date)
    /\ GotoSign(c, "publish")
    /\ UNCHANGED <<today, cachedDate, writer>>

PublishDate(c) ==
    /\ sign[c].pc = "publish"
    /\ cachedDate' = sign[c].date
    /\ ReturnKey(c)
    /\ writer' = None
    /\ UNCHANGED <<today, cachedKey>>

\* The caller has its key and sends the request.
SignEnd(c) ==
    /\ sign[c].pc = "signed"
    /\ sign' = [sign EXCEPT ![c] = SignIdle]
    /\ UNCHANGED <<today, cachedDate, cachedKey, writer>>

\* What signingKey does by itself, once called.
SignStep(c) ==
    ReadCache(c) \/ LockCache(c) \/ Recheck(c) \/ DeriveKey(c) \/ PublishDate(c)

SignNext == Midnight \/ \E c \in Callers : SignBegin(c) \/ SignStep(c) \/ SignEnd(c)

SignSpec == SignInit /\ [][SignNext]_signVars

-----------------------------------------------------------------------------

\* The refinement mapping: a caller has asked from the moment it read the clock
\* and is given its key when signingKey returns.
CallerView ==
    [c \in Callers |->
        [state |-> CASE sign[c].pc = "idle"   -> "idle"
                     [] sign[c].pc = "signed" -> "given"
                     [] OTHER                 -> "asked",
         date |-> sign[c].date, key |-> sign[c].key]]

Service == INSTANCE KeyService WITH caller <- CallerView

\* Every caller is given the key of the date it signs with: a caller that read
\* the clock before midnight and one that read it after share one cached key,
\* and neither may be handed the other's (signingKey's double-checked cache).
ServesKeys == Service!Spec
=============================================================================
