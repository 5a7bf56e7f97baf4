-------------------------- MODULE LoadRunnerProofs --------------------------
(***************************************************************************)
(* The pacer and the workers for every rate, number of workers and tick     *)
(* frequency.  Tokens are conserved: those taken, those in the channel and  *)
(* those still to be sent, with the fraction carried over, account for the  *)
(* ticks; what happened since a tick is bounded the same way.  Requests on  *)
(* the wire are all that may still be counted after the stop.               *)
(***************************************************************************)
EXTENDS LoadRunner, SigningKeyProofs, FiniteSetTheorems

T == TicksPerSecond

-----------------------------------------------------------------------------
(* Arithmetic *)

\* Division with remainder.
LEMMA DivMod ==
    ASSUME NEW a \in Nat, NEW b \in Nat \ {0}
    PROVE  /\ a \div b \in Nat
           /\ a % b \in Nat /\ a % b < b
           /\ a = ((a \div b) * b) + (a % b)
OBVIOUS

\* Products distribute over the sums below.
LEMMA Distribute ==
    ASSUME NEW x \in Int, NEW y \in Int, NEW z \in Int
    PROVE  (x + y) * z = x * z + y * z
OBVIOUS

\* A factor that is not negative keeps the order.
LEMMA ProductMonotone ==
    ASSUME NEW x \in Int, NEW y \in Int, NEW z \in Nat, x <= y
    PROVE  x * z <= y * z
<1>1. PICK d \in Nat : y = x + d
  BY y = x + (y - x)
<1>2. d * z \in Nat
  OBVIOUS
<1> QED
  BY <1>1, <1>2, Distribute

\* The numbers of the order and what Run and startPacer make of them.
LEMMA OrderNumbers ==
    ASSUME order \in Assignments
    PROVE  /\ T \in Nat \ {0} /\ order.rps \in Nat /\ order.workers \in Int
           /\ Capacity \in Nat
           /\ WorkerCount \in 1 .. MaxWorkers /\ Workers \subseteq Callers
<1>1. /\ T \in Nat \ {0} /\ MaxWorkers \in Nat \ {0}
      /\ order.rps \in Nat /\ order.workers \in Int
  BY LoadAssumption DEF AssignmentType, T
<1>2. Capacity \in Nat
  BY <1>1, DivMod DEF Capacity, T
<1>3. WorkerCount \in 1 .. MaxWorkers
  BY <1>1 DEF WorkerCount
<1> QED
  BY <1>1, <1>2, <1>3, LoadAssumption DEF Workers

\* What a tick owes is emitted or carried.
LEMMA TickOwes ==
    ASSUME order \in Assignments, credit \in Nat
    PROVE  /\ Emit \in Nat /\ Carry \in Nat /\ Carry < T
           /\ Emit * T + Carry = credit + order.rps
<1>1. credit + order.rps \in Nat
  BY OrderNumbers
<1> QED
  BY <1>1, OrderNumbers, DivMod DEF Emit, Carry, Owed, T
-----------------------------------------------------------------------------
(* Types *)

\* The assignment is fixed for the run, and what is worked out from it.
LEMMA OrderFixed ==
    ASSUME [LoadNext]_vars
    PROVE  /\ order' = order
           /\ Capacity' = Capacity /\ WorkerCount' = WorkerCount
           /\ Workers' = Workers /\ Throttled' = Throttled
<1>1. order' = order
  <2>1. ASSUME NEW w \in Workers, WorkerStep(w) PROVE order' = order
    BY <2>1 DEF WorkerStep, TakeToken, GoUnpaced, LeaveLoop, Sign, Send, FetchCounted,
                FetchAborted, BeginFetch, loadVars
  <2> QED
    BY <2>1 DEF LoadNext, NextDay, Cancel, PacerTick, PacerSend, PacerReturn, vars, loadVars
<1> QED
  BY <1>1 DEF Capacity, WorkerCount, Workers, Throttled

\* Every step of the pacer and of the workers keeps the types.
LEMMA LoadTypeStep ==
    ASSUME LoadTypeOK, [LoadNext]_vars
    PROVE  LoadTypeOK'
<1>o. /\ order' = order /\ Capacity' = Capacity /\ Workers' = Workers
      /\ Capacity \in Nat
  BY OrderFixed, OrderNumbers DEF LoadTypeOK
<1> USE <1>o DEF LoadTypeOK
<1>1. CASE NextDay
  BY <1>1 DEF NextDay, loadVars, pacerVars
<1>2. CASE Cancel
  BY <1>2 DEF Cancel, pacerVars
<1>3. CASE PacerTick
  <2>1. ticks' \in 0 .. MaxTicks /\ ticks' = ticks + 1
    BY <1>3, LoadAssumption DEF PacerTick
  <2>2. toEmit' \in Nat /\ credit' \in Nat
    BY <1>3, TickOwes DEF PacerTick
  <2>3. takenAt' \in [0 .. ticks' -> Nat]
    BY <1>3, <2>1 DEF PacerTick
  <2> QED
    BY <1>3, <2>1, <2>2, <2>3 DEF PacerTick
<1>4. CASE PacerSend
  <2>1. buffered' \in 0 .. Capacity /\ toEmit' \in Nat /\ credit' \in Nat
    BY <1>4 DEF PacerSend, CreditWhenFull
  <2>2. {ctxDone, closed, dropped}' \subseteq BOOLEAN
    BY <1>4 DEF PacerSend
  <2> QED
    BY <1>4, <2>1, <2>2 DEF PacerSend
<1>5. CASE PacerReturn
  BY <1>5 DEF PacerReturn
<1>6. ASSUME NEW w \in Workers, WorkerStep(w) PROVE LoadTypeOK'
  <2>1. CASE TakeToken(w)
    BY <2>1 DEF TakeToken, BeginFetch, Move, pacerVars
  <2>2. CASE GoUnpaced(w)
    BY <2>2 DEF GoUnpaced, BeginFetch, Move, pacerVars
  <2>3. CASE LeaveLoop(w)
    BY <2>3 DEF LeaveLoop, Move, pacerVars
  <2>4. CASE Sign(w)
    BY <2>4 DEF Sign, loadVars, pacerVars
  <2>5. CASE Send(w)
    BY <2>5 DEF Send, Move, pacerVars
  <2>6. CASE FetchCounted(w)
    BY <2>6 DEF FetchCounted, Move, pacerVars
  <2>7. CASE FetchAborted(w)
    BY <2>7 DEF FetchAborted, Move, pacerVars
  <2> QED
    BY <1>6, <2>1, <2>2, <2>3, <2>4, <2>5, <2>6, <2>7 DEF WorkerStep
<1>7. CASE UNCHANGED vars
  BY <1>7 DEF vars, loadVars, pacerVars
<1> QED
  BY <1>1, <1>2, <1>3, <1>4, <1>5, <1>6, <1>7 DEF LoadNext

\* Every variable of the runner stays in its type; the channel never holds more
\* than its capacity.
THEOREM LoadTypeCorrect == LoadSpec => []LoadTypeOK
<1>1. ASSUME LoadInit PROVE LoadTypeOK
  <2>1. order \in Assignments /\ Capacity \in Nat
    BY <1>1, OrderNumbers DEF LoadInit
  <2>2. ticks \in 0 .. MaxTicks /\ buffered \in 0 .. Capacity
    BY <1>1, <2>1, LoadAssumption DEF LoadInit
  <2>3. takenAt \in [0 .. ticks -> Nat]
    <3>1. 0 .. ticks = {0}
      BY <1>1 DEF LoadInit
    <3> QED
      BY <1>1, <3>1 DEF LoadInit
  <2>4. {ctxDone, closed, dropped} \subseteq BOOLEAN
    BY <1>1 DEF LoadInit
  <2> QED
    BY <1>1, <2>1, <2>2, <2>3, <2>4 DEF LoadInit, LoadTypeOK
<1> QED
  BY <1>1, LoadTypeStep, PTL DEF LoadSpec

-----------------------------------------------------------------------------
(* The workers and the signing key *)

\* The workers use the signing key as SigningKey allows: the key service is
\* implemented in the composition, and every request is signed with the key of
\* the date it carries.
THEOREM LoadServesKeys == LoadSpec => ServesKeys
<1>1. LoadInit => SignInit
  BY DEF LoadInit
<1>2. ASSUME LoadTypeOK, [LoadNext]_vars PROVE [SignNext]_signVars
  <2>1. ASSUME NEW w \in Workers, WorkerStep(w) PROVE [SignNext]_signVars
    <3>1. w \in Callers
      BY <1>2, OrderNumbers DEF LoadTypeOK
    <3> QED
      BY <2>1, <3>1 DEF WorkerStep, TakeToken, GoUnpaced, LeaveLoop, Sign, Send,
                        FetchCounted, FetchAborted, BeginFetch, SignNext
  <2> QED
    BY <1>2, <2>1 DEF LoadNext, NextDay, Cancel, PacerTick, PacerSend, PacerReturn, vars,
                      SignNext
<1>3. LoadSpec => SignSpec
  BY <1>1, <1>2, LoadTypeCorrect, PTL DEF LoadSpec, SignSpec
<1> QED
  BY <1>3, SigningServesKeys
-----------------------------------------------------------------------------
(* Tokens *)

\* Tokens taken, in the channel, and still to be sent.
Sum == taken + buffered + toEmit

\* A step keeps the sum, or is a tick that adds to it, or drops tokens.
LEMMA TokensConserved ==
    ASSUME LoadTypeOK, [LoadNext]_vars
    PROVE  \/ Sum' = Sum /\ UNCHANGED <<credit, ticks, takenAt, dropped>>
           \/ /\ toEmit = 0
              /\ Sum' = Sum + Emit /\ credit' = Carry /\ UNCHANGED <<taken, dropped>>
              /\ ticks' = ticks + 1
              /\ \A t \in 0 .. ticks : takenAt'[t] = takenAt[t]
              /\ takenAt'[ticks + 1] = taken
           \/ /\ Sum' = Sum - toEmit /\ credit' = 0 /\ dropped' = TRUE
              /\ UNCHANGED <<ticks, takenAt>>
<1> DEFINE Goal == \/ Sum' = Sum /\ UNCHANGED <<credit, ticks, takenAt, dropped>>
                   \/ /\ toEmit = 0
                      /\ Sum' = Sum + Emit /\ credit' = Carry /\ UNCHANGED <<taken, dropped>>
                      /\ ticks' = ticks + 1
                      /\ \A t \in 0 .. ticks : takenAt'[t] = takenAt[t]
                      /\ takenAt'[ticks + 1] = taken
                   \/ /\ Sum' = Sum - toEmit /\ credit' = 0 /\ dropped' = TRUE
                      /\ UNCHANGED <<ticks, takenAt>>
<1>t. /\ taken \in Nat /\ buffered \in Nat /\ toEmit \in Nat /\ credit \in Nat
      /\ ticks \in Nat /\ Emit \in Nat
  BY OrderNumbers, TickOwes, LoadAssumption DEF LoadTypeOK
<1>1. CASE NextDay
  BY <1>1 DEF NextDay, loadVars, pacerVars, Sum
<1>2. CASE Cancel
  BY <1>2 DEF Cancel, pacerVars, Sum
<1>3. CASE PacerTick
  <2>1. Sum' = Sum + Emit
    BY <1>3, <1>t DEF PacerTick, Sum
  <2>2. takenAt'[ticks + 1] = taken /\ \A t \in 0 .. ticks : takenAt'[t] = takenAt[t]
    BY <1>3, <1>t DEF PacerTick
  <2> QED
    BY <1>3, <2>1, <2>2 DEF PacerTick
<1>4. CASE PacerSend
  BY <1>4, <1>t DEF PacerSend, CreditWhenFull, Sum
<1>5. CASE PacerReturn
  BY <1>5 DEF PacerReturn, Sum
<1>6. ASSUME NEW w \in Workers, WorkerStep(w) PROVE Goal
  <2>1. CASE TakeToken(w)
    BY <2>1, <1>t DEF TakeToken, BeginFetch, pacerVars, Sum
  <2>2. CASE ~TakeToken(w)
    BY <1>6, <2>2 DEF WorkerStep, GoUnpaced, LeaveLoop, Sign, Send, FetchCounted,
                      FetchAborted, BeginFetch, loadVars, pacerVars, Sum
  <2> QED
    BY <2>1, <2>2
<1>7. CASE UNCHANGED vars
  BY <1>7 DEF vars, loadVars, pacerVars, Sum
<1> QED
  BY <1>1, <1>2, <1>3, <1>4, <1>5, <1>6, <1>7 DEF LoadNext

\* The types the sums are made of.
LEMMA SumNumbers ==
    ASSUME LoadTypeOK
    PROVE  /\ Sum \in Nat /\ taken \in Nat /\ buffered \in Nat /\ toEmit \in Nat
           /\ credit \in Nat /\ ticks \in Nat /\ buffered <= Capacity
           /\ \A t \in 0 .. ticks : takenAt[t] \in Nat
<1>1. \A t \in 0 .. ticks : takenAt[t] \in Nat
  BY DEF LoadTypeOK
<1>2. /\ taken \in Nat /\ buffered \in Nat /\ toEmit \in Nat
      /\ credit \in Nat /\ ticks \in Nat /\ buffered <= Capacity
  BY OrderNumbers, LoadAssumption DEF LoadTypeOK
<1> QED
  BY <1>1, <1>2 DEF Sum

\* The account of the ticks is kept by every step.
LEMMA PacedStep ==
    ASSUME LoadTypeOK, PacedExactly, [LoadNext]_vars
    PROVE  PacedExactly'
<1>o. /\ order' = order /\ Throttled' = Throttled
      /\ T \in Nat \ {0} /\ order.rps \in Nat
  BY OrderFixed, OrderNumbers DEF LoadTypeOK
<1> DEFINE rps == order.rps
<1>d. PacedExactly <=> (Throttled => /\ Sum * T + credit <= rps * ticks
                                     /\ ~dropped => Sum * T + credit = rps * ticks)
  BY DEF PacedExactly, Sum, T
<1>p. PacedExactly' <=> (Throttled => /\ Sum' * T + credit' <= rps * ticks'
                                      /\ ~dropped' => Sum' * T + credit' = rps * ticks')
  BY <1>o DEF PacedExactly, Sum, T
<1>1. CASE Sum' = Sum /\ UNCHANGED <<credit, ticks, takenAt, dropped>>
  BY <1>1, <1>d, <1>p
<1>2. CASE Sum' = Sum + Emit /\ credit' = Carry /\ ticks' = ticks + 1 /\ UNCHANGED dropped
  <2>1. Sum' * T + credit' = (Sum * T + credit) + rps
    <3>0. /\ Sum \in Nat /\ credit \in Nat /\ order \in Assignments
      BY SumNumbers DEF LoadTypeOK
    <3>e. /\ Emit \in Nat /\ Carry \in Nat
          /\ Emit * T + Carry = credit + rps
      BY <3>0, TickOwes
    <3>1. (Sum + Emit) * T = Sum * T + Emit * T
      BY <1>o, <3>0, <3>e, Distribute
    <3>2. /\ Emit * T + Carry = credit + rps
          /\ Sum * T \in Nat /\ Emit * T \in Nat /\ credit \in Nat /\ Carry \in Nat
      BY <1>o, <3>0, <3>e
    <3> HIDE DEF Emit, Carry, Sum, T, rps
    <3> QED
      BY <1>2, <1>o, <3>1, <3>2 DEF rps
  <2>2. rps * ticks' = rps * ticks + rps
    BY <1>2, <1>o, SumNumbers
  <2>3. rps * ticks \in Nat /\ Sum * T + credit \in Nat /\ rps \in Nat
    BY <1>o, SumNumbers
  <2> HIDE DEF rps
  <2> QED
    BY <1>2, <1>d, <1>p, <2>1, <2>2, <2>3
<1>3. CASE Sum' = Sum - toEmit /\ credit' = 0 /\ dropped' = TRUE /\ UNCHANGED ticks
  <2>1. Sum' * T <= Sum * T /\ Sum' * T \in Int /\ Sum * T \in Nat
    BY <1>3, <1>o, SumNumbers, ProductMonotone
  <2>2. rps * ticks \in Nat /\ credit \in Nat
    BY <1>o, SumNumbers
  <2> HIDE DEF rps
  <2> QED
    BY <1>3, <1>d, <1>p, <2>1, <2>2
<1> QED
  BY <1>1, <1>2, <1>3, TokensConserved

\* The offered rate is exact until a token finds the channel full, and never
\* above the order's, for every rate and every frequency of ticks.
THEOREM PacerIsExact == LoadSpec => []PacedExactly
<1>1. ASSUME LoadInit PROVE PacedExactly
  <2>1. T \in Nat \ {0} /\ order.rps \in Nat
    BY <1>1, OrderNumbers DEF LoadInit
  <2> QED
    BY <1>1, <2>1 DEF LoadInit, PacedExactly, T
<1> QED
  BY <1>1, PacedStep, LoadTypeCorrect, PTL DEF LoadSpec

\* What the tokens of n ticks may be worth: a full channel, the ticks, and the
\* fraction carried into the first of them.
Worth(n) == Capacity * T + order.rps * n + (T - 1)

BurstInv ==
    /\ credit < T
    /\ \A t \in 0 .. ticks : (Sum - takenAt[t]) * T + credit <= Worth(ticks - t + 1)

\* The bound on the tokens since every tick is kept by every step.
LEMMA BurstStep ==
    ASSUME LoadTypeOK, BurstInv, [LoadNext]_vars
    PROVE  BurstInv'
<1>o. /\ order' = order /\ Capacity' = Capacity /\ Capacity \in Nat
      /\ T \in Nat \ {0} /\ order.rps \in Nat
  BY OrderFixed, OrderNumbers DEF LoadTypeOK
<1>n. /\ Sum \in Nat /\ taken \in Nat /\ buffered \in Nat /\ toEmit \in Nat
      /\ credit \in Nat /\ ticks \in Nat /\ buffered <= Capacity
      /\ \A t \in 0 .. ticks : takenAt[t] \in Nat
  BY SumNumbers
<1>w. \A n \in Int : Worth(n) \in Int /\ Worth(n + 1) = Worth(n) + order.rps
  <2>1. ASSUME NEW n \in Int PROVE Worth(n) \in Int /\ Worth(n + 1) = Worth(n) + order.rps
    <3>1. order.rps * (n + 1) = order.rps * n + order.rps
      BY <1>o
    <3>2. order.rps * n \in Int /\ Capacity * T \in Int
      BY <1>o
    <3> QED
      BY <1>o, <3>1, <3>2 DEF Worth
  <2> QED
    BY <2>1
<1>p. BurstInv' <=> /\ credit' < T
                    /\ \A t \in 0 .. ticks' :
                         (Sum' - takenAt'[t]) * T + credit' <= Worth(ticks' - t + 1)
  BY <1>o DEF BurstInv, Worth, T
<1>1. CASE Sum' = Sum /\ UNCHANGED <<credit, ticks, takenAt, dropped>>
  BY <1>1, <1>p DEF BurstInv
<1>2. CASE /\ toEmit = 0
           /\ Sum' = Sum + Emit /\ credit' = Carry /\ UNCHANGED taken
           /\ ticks' = ticks + 1
           /\ \A t \in 0 .. ticks : takenAt'[t] = takenAt[t]
           /\ takenAt'[ticks + 1] = taken
  <2>e. /\ Emit \in Nat /\ Carry \in Nat /\ Carry < T
        /\ Emit * T + Carry = credit + order.rps /\ Emit * T \in Nat
    BY <1>o, <1>n, TickOwes DEF LoadTypeOK
  <2>1. ASSUME NEW t \in 0 .. ticks
        PROVE  (Sum' - takenAt'[t]) * T + credit' <= Worth((ticks + 1) - t + 1)
    <3> DEFINE before == Sum - takenAt[t]
    <3>1. before \in Int /\ before * T \in Int
      BY <1>n, <1>o
    <3>2. Sum' - takenAt'[t] = before + Emit
      BY <1>2, <1>n, <2>e
    <3>3. (before + Emit) * T = before * T + Emit * T
      BY <1>o, <2>e, <3>1, Distribute
    <3>4. before * T + credit <= Worth(ticks - t + 1)
      BY <2>1 DEF BurstInv
    <3>5. /\ Worth(ticks - t + 1) \in Int
          /\ Worth((ticks + 1) - t + 1) = Worth(ticks - t + 1) + order.rps
      <4>1. ticks - t + 1 \in Int /\ (ticks + 1) - t + 1 = (ticks - t + 1) + 1
        BY <1>n
      <4> QED
        BY <1>w, <4>1
    <3> HIDE DEF before
    <3> QED
      BY <1>2, <1>n, <1>o, <2>e, <3>1, <3>2, <3>3, <3>4, <3>5
  <2>2. (Sum' - takenAt'[ticks + 1]) * T + credit' <= Worth(1)
    <3>1. Sum' - takenAt'[ticks + 1] = buffered + Emit
      BY <1>2, <1>n, <2>e DEF Sum
    <3>2. (buffered + Emit) * T = buffered * T + Emit * T
      BY <1>o, <1>n, <2>e, Distribute
    <3>3. buffered * T <= Capacity * T /\ buffered * T \in Int /\ Capacity * T \in Int
      BY <1>o, <1>n, ProductMonotone
    <3>4. Worth(1) = Capacity * T + order.rps + (T - 1)
      BY <1>o DEF Worth
    <3>5. credit <= T - 1
      BY <1>n, <1>o DEF BurstInv
    <3> QED
      BY <1>2, <1>n, <1>o, <2>e, <3>1, <3>2, <3>3, <3>4, <3>5
  <2>3. ASSUME NEW t \in 0 .. ticks'
        PROVE  (Sum' - takenAt'[t]) * T + credit' <= Worth(ticks' - t + 1)
    <3>1. CASE t = ticks + 1
      <4>1. ticks' - t + 1 = 1
        BY <1>2, <1>n, <3>1
      <4> QED
        BY <2>2, <3>1, <4>1
    <3>2. CASE t \in 0 .. ticks
      BY <1>2, <2>1, <3>2
    <3> QED
      BY <1>2, <1>n, <2>3, <3>1, <3>2
  <2> QED
    BY <1>2, <1>p, <2>e, <2>3
<1>3. CASE /\ Sum' = Sum - toEmit /\ credit' = 0
           /\ UNCHANGED <<ticks, takenAt>>
  <2>1. ASSUME NEW t \in 0 .. ticks
        PROVE  (Sum' - takenAt'[t]) * T + credit' <= Worth(ticks' - t + 1)
    <3>1. (Sum' - takenAt[t]) * T <= (Sum - takenAt[t]) * T
      BY <1>3, <1>n, <1>o, ProductMonotone
    <3>2. (Sum' - takenAt[t]) * T \in Int /\ (Sum - takenAt[t]) * T \in Int
      BY <1>3, <1>n, <1>o
    <3>3. Worth(ticks - t + 1) \in Int
      BY <1>n, <1>w
    <3>4. (Sum - takenAt[t]) * T + credit <= Worth(ticks - t + 1)
      BY <2>1 DEF BurstInv
    <3> QED
      BY <1>3, <1>n, <3>1, <3>2, <3>3, <3>4
  <2> QED
    BY <1>3, <1>o, <1>p, <2>1
<1> QED
  BY <1>1, <1>2, <1>3, TokensConserved

\* The tokens taken since a tick are part of the sum.
LEMMA BurstFollows ==
    ASSUME LoadTypeOK, BurstInv
    PROVE  BurstBounded
<1>m. /\ Sum \in Nat /\ taken \in Nat /\ credit \in Nat /\ ticks \in Nat
      /\ buffered \in Nat /\ toEmit \in Nat
      /\ \A t \in 0 .. ticks : takenAt[t] \in Nat
      /\ T \in Nat \ {0} /\ order.rps \in Nat /\ Capacity \in Nat
  BY SumNumbers, OrderNumbers DEF LoadTypeOK
<1>n. /\ Sum \in Nat /\ taken \in Nat /\ taken <= Sum /\ credit \in Nat /\ ticks \in Nat
      /\ \A t \in 0 .. ticks : takenAt[t] \in Nat
      /\ T \in Nat \ {0} /\ order.rps \in Nat /\ Capacity \in Nat
  BY <1>m DEF Sum
<1>1. ASSUME NEW t \in 0 .. ticks
      PROVE  (taken - takenAt[t]) * T < (Capacity + 1) * T + order.rps * (ticks - t + 1)
  <2>1. (taken - takenAt[t]) * T <= (Sum - takenAt[t]) * T
    BY <1>n, ProductMonotone
  <2>2. /\ (taken - takenAt[t]) * T \in Int /\ (Sum - takenAt[t]) * T \in Int
        /\ Capacity * T \in Int /\ order.rps * (ticks - t + 1) \in Int
    BY <1>n
  <2>3. (Capacity + 1) * T = Capacity * T + T
    BY <1>n
  <2>4. (Sum - takenAt[t]) * T + credit <= Worth(ticks - t + 1)
    BY <1>1 DEF BurstInv
  <2> QED
    BY <1>n, <2>1, <2>2, <2>3, <2>4 DEF Worth
<1> QED
  BY <1>1 DEF BurstBounded, T

\* No backlog is banked: whatever the workers do, what they take since any tick
\* is bounded by a full channel and what the ticks since are worth.
THEOREM BurstsAreBounded == LoadSpec => []BurstBounded
<1>1. ASSUME LoadInit PROVE BurstInv
  <2>1. T \in Nat \ {0} /\ order.rps \in Nat /\ Capacity \in Nat
    BY <1>1, OrderNumbers DEF LoadInit
  <2>2. Sum = 0 /\ credit = 0 /\ ticks = 0 /\ takenAt[0] = 0
    BY <1>1 DEF LoadInit, Sum
  <2>3. Capacity * T \in Nat
    BY <2>1
  <2> QED
    BY <2>1, <2>2, <2>3 DEF BurstInv, Worth
<1> QED
  BY <1>1, BurstStep, BurstFollows, LoadTypeCorrect, PTL DEF LoadSpec
-----------------------------------------------------------------------------
(* What is recorded after the stop *)

OnWire == {w \in Workers : phase[w] = "wire"}

LateInv == ctxDone => counted + Cardinality(OnWire) <= atStop + WorkerCount

\* The workers are finitely many, and so are those on the wire.
LEMMA WireFinite ==
    ASSUME LoadTypeOK
    PROVE  /\ IsFiniteSet(OnWire) /\ Cardinality(OnWire) \in Nat
           /\ Cardinality(OnWire) <= WorkerCount /\ WorkerCount \in Nat
<1>1. WorkerCount \in Nat /\ WorkerCount >= 1
  BY OrderNumbers, LoadAssumption DEF LoadTypeOK
<1>2. IsFiniteSet(Workers) /\ Cardinality(Workers) = WorkerCount
  BY <1>1, FS_Interval DEF Workers
<1>3. OnWire \in SUBSET Workers
  BY DEF OnWire
<1> QED
  BY <1>1, <1>2, <1>3, FS_Subset, FS_CardinalityType

\* After the stop nobody goes on the wire, and whoever is recorded leaves it.
LEMMA LateStep ==
    ASSUME LoadTypeOK, LateInv, [LoadNext]_vars
    PROVE  LateInv'
<1>o. WorkerCount' = WorkerCount /\ Workers' = Workers
  BY OrderFixed
<1>f. /\ IsFiniteSet(OnWire) /\ Cardinality(OnWire) \in Nat
      /\ Cardinality(OnWire) <= WorkerCount /\ WorkerCount \in Nat
      /\ counted \in Nat /\ atStop \in Nat /\ phase \in [Workers -> {"select", "sign", "wire", "returned"}]
  BY WireFinite DEF LoadTypeOK
\* It is enough that the wire only loses workers, one of them for every record.
<1>k. ASSUME UNCHANGED <<ctxDone, atStop>>, ctxDone,
             \/ UNCHANGED counted /\ OnWire' \subseteq OnWire
             \/ \E w \in OnWire : counted' = counted + 1 /\ OnWire' = OnWire \ {w}
      PROVE  LateInv'
  <2>1. CASE UNCHANGED counted /\ OnWire' \subseteq OnWire
    <3>1. Cardinality(OnWire') <= Cardinality(OnWire) /\ Cardinality(OnWire') \in Nat
      BY <1>f, <2>1, FS_Subset, FS_CardinalityType
    <3> QED
      BY <1>f, <1>o, <1>k, <2>1, <3>1 DEF LateInv
  <2>2. ASSUME NEW w \in OnWire, counted' = counted + 1, OnWire' = OnWire \ {w}
        PROVE  LateInv'
    <3>1. Cardinality(OnWire') = Cardinality(OnWire) - 1
      BY <1>f, <2>2, FS_RemoveElement
    <3> QED
      BY <1>f, <1>o, <1>k, <2>2, <3>1 DEF LateInv
  <2> QED
    BY <1>k, <2>1, <2>2
<1>1. CASE NextDay
  BY <1>1, <1>o DEF NextDay, loadVars, LateInv, OnWire
<1>2. CASE Cancel
  <2>1. atStop' = counted /\ counted' = counted /\ OnWire' = OnWire
    BY <1>2, <1>o DEF Cancel, OnWire
  <2> QED
    BY <1>f, <1>o, <2>1 DEF LateInv
<1>3. CASE PacerTick \/ PacerSend \/ PacerReturn
  BY <1>3, <1>o DEF PacerTick, PacerSend, PacerReturn, LateInv, OnWire
<1>4. ASSUME NEW w \in Workers, WorkerStep(w) PROVE LateInv'
  <2>0. UNCHANGED <<ctxDone, atStop>>
    BY <1>4 DEF WorkerStep, TakeToken, GoUnpaced, LeaveLoop, Sign, Send, FetchCounted,
                FetchAborted, BeginFetch, loadVars, pacerVars
  <2>n. CASE ~ctxDone
    BY <2>0, <2>n DEF LateInv
  <2>c. CASE ctxDone
    <3>m. ASSUME NEW p \in {"select", "sign", "returned"}, Move(w, p), UNCHANGED counted
          PROVE  LateInv'
      <4>1. OnWire' \subseteq OnWire
        BY <3>m, <1>f, <1>o DEF Move, OnWire
      <4> QED
        BY <1>k, <2>0, <2>c, <3>m, <4>1
    <3>1. CASE TakeToken(w)
      BY <3>1, <3>m DEF TakeToken, BeginFetch
    <3>2. CASE GoUnpaced(w)
      BY <3>2, <3>m DEF GoUnpaced, BeginFetch
    <3>3. CASE LeaveLoop(w)
      BY <3>3, <3>m DEF LeaveLoop
    <3>4. CASE Sign(w)
      BY <3>4, <1>o DEF Sign, loadVars, LateInv, OnWire
    <3>5. CASE Send(w)
      BY <3>5, <2>c, <3>m DEF Send
    <3>6. CASE FetchCounted(w)
      <4>1. w \in OnWire /\ counted' = counted + 1
        BY <3>6 DEF FetchCounted, OnWire
      <4>2. OnWire' = OnWire \ {w}
        BY <3>6, <1>f, <1>o DEF FetchCounted, Move, OnWire
      <4> QED
        BY <1>k, <2>0, <2>c, <4>1, <4>2
    <3>7. CASE FetchAborted(w)
      BY <3>7, <3>m DEF FetchAborted
    <3> QED
      BY <1>4, <3>1, <3>2, <3>3, <3>4, <3>5, <3>6, <3>7 DEF WorkerStep
  <2> QED
    BY <2>n, <2>c
<1>5. CASE UNCHANGED vars
  BY <1>5, <1>o DEF vars, loadVars, LateInv, OnWire
<1> QED
  BY <1>1, <1>2, <1>3, <1>4, <1>5 DEF LoadNext

\* Once the context is done, no more requests are recorded than there are
\* workers.
THEOREM LateCountsAreBounded == LoadSpec => []LateCountsBounded
<1>1. LoadInit => LateInv
  BY DEF LoadInit, LateInv
<1>2. ASSUME LoadTypeOK, LateInv PROVE LateCountsBounded
  <2>1. /\ Cardinality(OnWire) \in Nat /\ WorkerCount \in Nat
        /\ counted \in Nat /\ atStop \in Nat
    BY <1>2, WireFinite DEF LoadTypeOK
  <2> QED
    BY <1>2, <2>1 DEF LateInv, LateCountsBounded
<1> QED
  BY <1>1, <1>2, LateStep, LoadTypeCorrect, PTL DEF LoadSpec
=============================================================================
