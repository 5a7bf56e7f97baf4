-------------------------- MODULE SigningKeyProofs --------------------------
(***************************************************************************)
(* signingKey serves the keys KeyService promises, for every number of      *)
(* callers and of midnights.  The write lock belongs to whoever is between  *)
(* Lock and Unlock; the date and the key in the cache agree except while    *)
(* the holder has stored the one and not yet the other, and then nobody     *)
(* reads them.                                                              *)
(***************************************************************************)
EXTENDS SigningKey, TLAPS

Locking == {"recheck", "derive", "publish"}

IdleIsBlank == \A c \in Callers : sign[c].pc = "idle" => sign[c] = SignIdle

LockHeld == \A c \in Callers : sign[c].pc \in Locking <=> writer = c

CacheAgrees ==
    /\ (\A c \in Callers : sign[c].pc # "publish") => cachedKey = Derive(cachedDate)
    /\ \A c \in Callers : sign[c].pc = "publish" => cachedKey = Derive(sign[c].date)

SignInv == SignTypeOK /\ IdleIsBlank /\ LockHeld /\ CacheAgrees

-----------------------------------------------------------------------------

\* A date derives the key of that date.
LEMMA DeriveType ==
    /\ \A d \in Days : Derive(d) \in Keys
    /\ 0 \in Days
    /\ SignIdle \in [pc : {"idle", "read", "lock", "recheck", "derive", "publish", "signed"},
                     date : Days, key : Keys]
BY SigningAssumption DEF Days, Keys, SignIdle, NoKey

\* Every step of signingKey and of its callers keeps the types.
LEMMA SignTypeStep ==
    ASSUME SignTypeOK, [SignNext]_signVars
    PROVE  SignTypeOK'
<1> USE DEF SignTypeOK
<1>1. CASE Midnight
  BY <1>1, SigningAssumption DEF Midnight, Days
<1>2. ASSUME NEW c \in Callers, SignBegin(c) PROVE SignTypeOK'
  <2>1. NoKey \in Keys
    BY DeriveType DEF NoKey
  <2> QED
    BY <1>2, <2>1 DEF SignBegin
<1>3. ASSUME NEW c \in Callers, SignEnd(c) PROVE SignTypeOK'
  BY <1>3, DeriveType DEF SignEnd
<1>4. ASSUME NEW c \in Callers, SignStep(c) PROVE SignTypeOK'
  <2>1. CASE ReadCache(c)
    BY <2>1 DEF ReadCache, ReturnKey, GotoSign
  <2>2. CASE LockCache(c)
    BY <2>2 DEF LockCache, GotoSign
  <2>3. CASE Recheck(c)
    BY <2>3 DEF Recheck, ReturnKey, GotoSign
  <2>4. CASE DeriveKey(c)
    BY <2>4, DeriveType DEF DeriveKey, GotoSign
  <2>5. CASE PublishDate(c)
    BY <2>5 DEF PublishDate, ReturnKey
  <2> QED
    BY <1>4, <2>1, <2>2, <2>3, <2>4, <2>5 DEF SignStep
<1>5. CASE UNCHANGED signVars
  BY <1>5 DEF signVars
<1> QED
  BY <1>1, <1>2, <1>3, <1>4, <1>5 DEF SignNext

\* Every step keeps the lock's holder, the blank idle caller and the agreement
\* of the cached date and key.
LEMMA SignInvStep ==
    ASSUME SignInv, [SignNext]_signVars
    PROVE  SignInv'
<1> USE SigningAssumption DEF SignInv, Locking
<1>t. SignTypeOK'
  BY SignTypeStep
<1> USE DEF SignTypeOK, IdleIsBlank, LockHeld, CacheAgrees
<1>1. CASE Midnight
  BY <1>1, <1>t DEF Midnight
<1>2. ASSUME NEW c \in Callers, SignBegin(c) PROVE SignInv'
  BY <1>2, <1>t DEF SignBegin
<1>3. ASSUME NEW c \in Callers, SignEnd(c) PROVE SignInv'
  BY <1>3, <1>t DEF SignEnd, SignIdle
<1>4. ASSUME NEW c \in Callers, SignStep(c) PROVE SignInv'
  <2>1. CASE ReadCache(c)
    BY <2>1, <1>t DEF ReadCache, ReturnKey, GotoSign
  <2>2. CASE LockCache(c)
    BY <2>2, <1>t DEF LockCache, GotoSign
  <2>3. CASE Recheck(c)
    BY <2>3, <1>t DEF Recheck, ReturnKey, GotoSign
  <2>4. CASE DeriveKey(c)
    BY <2>4, <1>t DEF DeriveKey, GotoSign
  <2>5. CASE PublishDate(c)
    BY <2>5, <1>t DEF PublishDate, ReturnKey
  <2> QED
    BY <1>4, <2>1, <2>2, <2>3, <2>4, <2>5 DEF SignStep
<1>5. CASE UNCHANGED signVars
  BY <1>5, <1>t DEF signVars
<1> QED
  BY <1>1, <1>2, <1>3, <1>4, <1>5 DEF SignNext

\* The invariant holds in every state of the cache and its callers.
THEOREM SigningInvariant == SignSpec => []SignInv
<1>1. SignInit => SignInv
  BY SigningAssumption, DeriveType
  DEF SignInit, SignInv, SignTypeOK, IdleIsBlank, LockHeld, CacheAgrees, Locking,
      SignIdle, Days, NoKey
<1> QED
  BY <1>1, SignInvStep, PTL DEF SignSpec

-----------------------------------------------------------------------------
(* The refinement *)

View(s) ==
    [state |-> CASE s.pc = "idle"   -> "idle"
                 [] s.pc = "signed" -> "given"
                 [] OTHER           -> "asked",
     date |-> s.date, key |-> s.key]

\* A step of one caller changes the view of that caller only.
LEMMA ViewOfStep ==
    ASSUME SignTypeOK, NEW c \in Callers, NEW r, sign' = [sign EXCEPT ![c] = r]
    PROVE  CallerView' = [CallerView EXCEPT ![c] = View(r)]
BY DEF SignTypeOK, CallerView, View

\* What a caller sees of its own record.
LEMMA ViewFields ==
    ASSUME NEW s
    PROVE  /\ View(s).date = s.date
           /\ s.pc = "signed" => View(s).state = "given"
           /\ s.pc \notin {"idle", "signed"} => View(s).state = "asked"
BY DEF View

\* A caller's record is replaced as a whole when some of its fields are.
LEMMA FieldsOfStep ==
    ASSUME SignTypeOK, NEW c \in Callers, NEW pc
    PROVE  /\ ReturnKey(c)
                => /\ sign' = [sign EXCEPT ![c] = sign'[c]]
                   /\ sign'[c].pc = "signed" /\ sign'[c].date = sign[c].date
                   /\ sign'[c].key = cachedKey
           /\ GotoSign(c, pc)
                => /\ sign' = [sign EXCEPT ![c] = sign'[c]]
                   /\ sign'[c].pc = pc /\ sign'[c].date = sign[c].date
                   /\ sign'[c].key = sign[c].key
BY DEF SignTypeOK, GotoSign, ReturnKey

\* Every step of the cache is a step of the key service, or changes nothing
\* that its callers see.
LEMMA ServesStep ==
    ASSUME SignInv, [SignNext]_signVars
    PROVE  [Service!Next]_<<today, CallerView>>
<1> USE DEF SignInv
<1>0. \A c \in Callers : CallerView[c] = View(sign[c])
  BY DEF CallerView, View
<1>1. CASE Midnight
  BY <1>1 DEF Midnight, Service!Next, Service!Midnight, CallerView
<1>2. ASSUME NEW c \in Callers, SignBegin(c) PROVE Service!Ask(c)
  <2>1. CallerView[c] = Service!Idle
    BY <1>0, <1>2 DEF SignBegin, IdleIsBlank, SignIdle, View, Service!Idle, NoKey,
                      Service!NoKey, Service!Derive, Derive
  <2>2. CallerView' = [CallerView EXCEPT ![c] =
                            View([pc |-> "read", date |-> today, key |-> NoKey])]
    BY <1>2, ViewOfStep DEF SignBegin
  <2>3. View([pc |-> "read", date |-> today, key |-> NoKey]) = Service!Asked(today)
    BY DEF View, Service!Asked, NoKey, Service!NoKey, Service!Derive, Derive
  <2> QED
    BY <1>2, <2>1, <2>2, <2>3 DEF SignBegin, Service!Ask
<1>3. ASSUME NEW c \in Callers, SignEnd(c) PROVE Service!Leave(c)
  <2>1. CallerView[c].state = "given"
    BY <1>0, <1>3, ViewFields DEF SignEnd
  <2>2. CallerView' = [CallerView EXCEPT ![c] = View(SignIdle)]
    BY <1>3, ViewOfStep DEF SignEnd
  <2>3. View(SignIdle) = Service!Idle
    BY DEF View, SignIdle, Service!Idle, NoKey, Service!NoKey, Service!Derive, Derive
  <2> QED
    BY <1>3, <2>1, <2>2, <2>3 DEF SignEnd, Service!Leave
<1>4. ASSUME NEW c \in Callers, SignStep(c)
      PROVE  Service!Give(c) \/ UNCHANGED <<today, CallerView>>
  <2>g. ASSUME sign[c].pc \in {"read", "recheck", "publish"}, ReturnKey(c),
               cachedKey = Derive(sign[c].date), UNCHANGED today
        PROVE  Service!Give(c)
    <3>1. /\ sign' = [sign EXCEPT ![c] = sign'[c]]
          /\ sign'[c].pc = "signed" /\ sign'[c].date = sign[c].date
          /\ sign'[c].key = cachedKey
      BY <2>g, FieldsOfStep
    <3>2. CallerView' = [CallerView EXCEPT ![c] = View(sign'[c])]
      BY <3>1, ViewOfStep
    <3>3. CallerView[c].state = "asked" /\ CallerView[c].date = sign[c].date
      BY <1>0, <2>g, ViewFields
    <3>4. View(sign'[c]) = [state |-> "given", date |-> sign[c].date, key |-> cachedKey]
      BY <3>1 DEF View
    <3>5. View(sign'[c]) = Service!Given(CallerView[c].date)
      BY <2>g, <3>3, <3>4 DEF Service!Given, Service!Derive, Derive
    <3> QED
      BY <2>g, <3>2, <3>3, <3>5 DEF Service!Give
  <2>s. ASSUME NEW pc \in {"lock", "recheck", "derive", "publish"},
               sign[c].pc \in {"read", "lock", "recheck", "derive"},
               GotoSign(c, pc), UNCHANGED today
        PROVE  UNCHANGED <<today, CallerView>>
    <3>1. /\ sign' = [sign EXCEPT ![c] = sign'[c]]
          /\ sign'[c].pc = pc /\ sign'[c].date = sign[c].date
          /\ sign'[c].key = sign[c].key
      BY <2>s, FieldsOfStep
    <3>2. CallerView' = [CallerView EXCEPT ![c] = View(sign'[c])]
      BY <3>1, ViewOfStep
    <3>3. View(sign'[c]) = CallerView[c]
      BY <1>0, <2>s, <3>1 DEF View
    <3> QED
      BY <2>s, <3>2, <3>3 DEF CallerView
  <2>1. CASE ReadCache(c)
    <3>1. \A d \in Callers : sign[d].pc # "publish"
      BY <2>1, SigningAssumption DEF ReadCache, LockHeld, Locking
    <3>2. cachedKey = Derive(cachedDate)
      BY <3>1 DEF CacheAgrees
    <3> QED
      BY <2>1, <2>g, <2>s, <3>2 DEF ReadCache
  <2>2. CASE LockCache(c)
    BY <2>2, <2>s DEF LockCache
  <2>3. CASE Recheck(c)
    <3>1. \A d \in Callers : sign[d].pc # "publish"
      BY <2>3 DEF Recheck, LockHeld, Locking
    <3>2. cachedKey = Derive(cachedDate)
      BY <3>1 DEF CacheAgrees
    <3> QED
      BY <2>3, <2>g, <2>s, <3>2 DEF Recheck
  <2>4. CASE DeriveKey(c)
    BY <2>4, <2>s DEF DeriveKey
  <2>5. CASE PublishDate(c)
    BY <2>5, <2>g DEF PublishDate, CacheAgrees
  <2> QED
    BY <1>4, <2>1, <2>2, <2>3, <2>4, <2>5 DEF SignStep
<1>5. CASE UNCHANGED signVars
  BY <1>5 DEF signVars, CallerView
<1> QED
  BY <1>1, <1>2, <1>3, <1>4, <1>5 DEF SignNext, Service!Next

\* signingKey implements the key service: whoever asks is given the key of the
\* date it asked with, however its calls interleave and wherever midnight falls.
THEOREM SigningServesKeys == SignSpec => ServesKeys
<1>1. SignInit => Service!Init
  BY DEF SignInit, Service!Init, CallerView, SignIdle, NoKey, Derive,
         Service!Idle, Service!NoKey, Service!Derive
<1> QED
  BY <1>1, ServesStep, SigningInvariant, PTL DEF SignSpec, ServesKeys, Service!Spec
=============================================================================
