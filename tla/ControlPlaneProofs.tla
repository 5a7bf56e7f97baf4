------------------------- MODULE ControlPlaneProofs -------------------------
(***************************************************************************)
(* Theorems about ControlPlane, for every set of jobs, agents, requests and *)
(* activations and for every value of the timeouts.                         *)
(***************************************************************************)
EXTENDS ControlPlane, SumTheorems, TLAPS

-----------------------------------------------------------------------------
(* Types *)

\* TypeOK needs the locals: what an activation writes after an await is typed
\* because of what it read before it.
TypeInv == TypeOK /\ LocalsOK

\* The idle record is a well-typed activation.
LEMMA NoCallType == NoCall \in CallType /\ LocalOK(NoCall)
BY DEF NoCall, CallType, JobStatuses, LocalOK, HandlerPcs

\* A validated request gives a job whose window lies in the future.
LEMMA ValidRequestType ==
    ASSUME NEW q \in Requests \union {NoRequest}, ValidRequest(q)
    PROVE  /\ q \in Requests
           /\ q.delay \in Nat /\ q.duration \in Nat /\ q.agents \in Nat
           /\ q.agents > 0
BY ConstantsAssumption DEF ValidRequest, NoRequest, RequestType

\* An activation that goes on with sound locals leaves all locals sound.
LEMMA GotoTyped ==
    ASSUME TypeInv, NEW c \in Calls \union Crons, NEW l \in CallType, LocalOK(l),
           Goto(c, l)
    PROVE  call' \in [Calls \union Crons -> CallType] /\ LocalsOK'
<1>1. call \in [Calls \union Crons -> CallType]
    BY DEF TypeInv, TypeOK
<1>2. call' \in [Calls \union Crons -> CallType]
    BY <1>1 DEF Goto
<1>3. \A d \in Calls \union Crons : call'[d] = IF d = c THEN l ELSE call[d]
    BY <1>1 DEF Goto
<1>4. \A d \in Calls \union Crons : LocalOK(call[d])
    BY DEF TypeInv, LocalsOK
<1>5. LocalsOK'
    BY <1>3, <1>4 DEF LocalsOK
<1> QED
    BY <1>2, <1>5

\* Returning leaves the empty call.
LEMMA ReturnTyped ==
    ASSUME TypeInv, NEW c \in Calls \union Crons, Return(c)
    PROVE  call' \in [Calls \union Crons -> CallType] /\ LocalsOK'
BY NoCallType, GotoTyped DEF Return

\* A job has a natural number of spawns: there are finitely many agents.
LEMMA SpawnCount ==
    \A j : /\ IsFiniteSet(SpawnsOf(j)) /\ Cardinality(SpawnsOf(j)) \in Nat
BY ConstantsAssumption, FS_Subset, FS_CardinalityType DEF SpawnsOf

\* A share of an integer rate is an integer.
LEMMA ShareType ==
    ASSUME NEW q \in Requests \union {NoRequest}, NEW s \in Nat
    PROVE  rps_for_slot(q.rps, q.agents, s) \in Int
<1>1. q.rps \in Int /\ q.agents \in Int
    BY ConstantsAssumption DEF RequestType, NoRequest
<1> QED
    BY <1>1 DEF rps_for_slot

\* Every step keeps the types and the locals.
LEMMA TypeInvStep == TypeInv /\ [Next]_vars => TypeInv'
<1> SUFFICES ASSUME TypeInv, [Next]_vars PROVE TypeInv'
    OBVIOUS
<1> USE DEF TypeInv
<1>1. ASSUME NEW c \in Calls, StartCheck(c) PROVE TypeInv'
  <2> PICK q \in Requests : /\ ValidRequest(q)
        /\ Goto(c, [NoCall EXCEPT !.pc = "start_insert", !.req = q, !.now = clock])
    BY <1>1, Zenon DEF StartCheck
  <2> DEFINE l == [NoCall EXCEPT !.pc = "start_insert", !.req = q, !.now = clock]
  <2>1. l \in CallType /\ LocalOK(l)
    BY NoCallType DEF NoCall, CallType, TypeOK, HandlerPcs, LocalOK
  <2>2. call' \in [Calls \union Crons -> CallType] /\ LocalsOK'
    BY <2>1, GotoTyped
  <2> QED
    BY <1>1, <2>2 DEF StartCheck, TypeOK, jobVars, spawnVars
<1>2. ASSUME NEW c \in Calls, StartInsert(c) PROVE TypeInv'
  <2>1. call' \in [Calls \union Crons -> CallType] /\ LocalsOK'
    BY <1>2, ReturnTyped DEF StartInsert
  <2>2. call[c] \in CallType /\ ValidRequest(call[c].req)
    BY <1>2 DEF StartInsert, TypeOK, LocalsOK, LocalOK
  <2> DEFINE q == call[c].req
  <2>3. q \in Requests /\ q.delay \in Nat /\ q.duration \in Nat
    BY <2>2, ValidRequestType DEF CallType
  <2>4. call[c].now \in Nat
    BY <2>2 DEF CallType
  <2> PICK j \in Jobs, now \in call[c].now..clock :
        /\ jobStatus' = [jobStatus EXCEPT ![j] = "QUEUED"]
        /\ req' = [req EXCEPT ![j] = q]
        /\ startAt' = [startAt EXCEPT ![j] = now + q.delay]
        /\ stopAt' = [stopAt EXCEPT ![j] = now + q.delay + q.duration]
        /\ createdAt' = [createdAt EXCEPT ![j] = clock]
    BY <1>2 DEF StartInsert
  <2>5. now \in Nat
    BY <2>4 DEF TypeOK
  <2> HIDE DEF q
  <2> QED
    BY <1>2, <2>1, <2>3, <2>5 DEF StartInsert, TypeOK, jobVars, spawnVars,
       JobStatuses, LIVE_STATUSES, ACTIVE_STATUSES
<1>3. ASSUME NEW c \in Calls, NEW a \in Agents, PollSelectJob(c, a) PROVE TypeInv'
  <2> PICK j \in Jobs :
        Goto(c, [NoCall EXCEPT !.pc = "poll_spawn", !.job = j, !.agent = a,
                               !.status = jobStatus[j], !.until = stopAt[j],
                               !.now = clock])
    BY <1>3, Zenon DEF PollSelectJob
  <2> DEFINE l == [NoCall EXCEPT !.pc = "poll_spawn", !.job = j, !.agent = a,
                               !.status = jobStatus[j], !.until = stopAt[j],
                               !.now = clock]
  <2>1. l \in CallType /\ LocalOK(l)
    BY NoCallType DEF NoCall, TypeOK, CallType, LocalOK, HandlerPcs
  <2>2. call' \in [Calls \union Crons -> CallType] /\ LocalsOK'
    BY <2>1, GotoTyped
  <2> QED
    BY <1>3, <2>2 DEF PollSelectJob, TypeOK, jobVars, spawnVars
<1>4. ASSUME NEW c \in Calls, PollSelectSpawn(c) PROVE TypeInv'
  <2>0. call[c] \in CallType /\ LocalOK(call[c])
    BY DEF TypeOK, LocalsOK
  <2> DEFINE j == call[c].job
             a == call[c].agent
             s == slot[j][a]
             touch(now) == [call[c] EXCEPT !.pc = "poll_touch", !.now = now,
                                   !.until = 0, !.slot = s]
             claim(now) == [call[c] EXCEPT !.pc = "poll_claim", !.now = now,
                                   !.until = 0]
  <2>1. j \in Jobs /\ a \in Agents
    BY <1>4, <2>0 DEF PollSelectSpawn, LocalOK, HandlerPcs
  <2>2. call[c].now..clock \subseteq Nat
    BY <2>0 DEF CallType, TypeOK
  <2>3. ASSUME NEW now \in Nat PROVE touch(now) \in CallType /\ LocalOK(touch(now))
    <3>1. s \in Nat
      BY <2>1 DEF TypeOK
    <3> HIDE DEF s
    <3> QED
      BY <2>0, <2>1, <3>1 DEF CallType, LocalOK, HandlerPcs
  <2>4. ASSUME NEW now \in Nat PROVE claim(now) \in CallType /\ LocalOK(claim(now))
    BY <2>0, <2>1 DEF CallType, LocalOK, HandlerPcs
  <2>5. Return(c) \/ \E now \in call[c].now..clock : Goto(c, touch(now)) \/ Goto(c, claim(now))
    BY <1>4, Zenon DEF PollSelectSpawn
  <2> HIDE DEF touch, claim
  <2>6. call' \in [Calls \union Crons -> CallType] /\ LocalsOK'
    <3>1. CASE Return(c)
      BY <3>1, ReturnTyped
    <3>2. ASSUME NEW now \in call[c].now..clock, Goto(c, touch(now)) \/ Goto(c, claim(now))
          PROVE  call' \in [Calls \union Crons -> CallType] /\ LocalsOK'
      <4>1. now \in Nat
        BY <2>2
      <4> QED
        BY <3>2, <4>1, <2>3, <2>4, GotoTyped
    <3> QED
      BY <2>5, <3>1, <3>2
  <2> QED
    BY <1>4, <2>6 DEF PollSelectSpawn, TypeOK, jobVars, spawnVars
<1>5. ASSUME NEW c \in Calls, PollTouch(c) PROVE TypeInv'
  <2>0. call[c] \in CallType /\ LocalOK(call[c])
    BY DEF TypeOK, LocalsOK
  <2> DEFINE l == [call[c] EXCEPT !.pc = "poll_promote", !.now = 0]
  <2>1. l \in CallType /\ LocalOK(l)
    BY <1>5, <2>0 DEF PollTouch, CallType, LocalOK, HandlerPcs, ReaperPcs
  <2>2. Goto(c, l)
    BY <1>5, Zenon DEF PollTouch
  <2>3. call' \in [Calls \union Crons -> CallType] /\ LocalsOK'
    BY <2>1, <2>2, GotoTyped
  <2>4. call[c].now \in Nat
    BY <2>0 DEF CallType
  <2> QED
    BY <1>5, <2>4, <2>3 DEF PollTouch, TypeOK, jobVars, spawnVars
<1>6. ASSUME NEW c \in Calls, PollClaim(c) PROVE TypeInv'
  <2>0. call[c] \in CallType /\ LocalOK(call[c])
    BY DEF TypeOK, LocalsOK
  <2> DEFINE l == [call[c] EXCEPT !.pc = "poll_read", !.now = 0]
  <2>1. l \in CallType /\ LocalOK(l)
    BY <1>6, <2>0 DEF PollClaim, CallType, LocalOK, HandlerPcs, ReaperPcs
  <2>2. Goto(c, l)
    BY <1>6, Zenon DEF PollClaim
  <2>3. call' \in [Calls \union Crons -> CallType] /\ LocalsOK'
    BY <2>1, <2>2, GotoTyped
  <2>4. call[c].now \in Nat /\ ClaimSlot(call[c].job) \in Nat
    BY <2>0, SpawnCount DEF CallType, ClaimSlot
  <2>5. /\ spawnStatus' \in [Jobs -> [Agents -> SpawnStatuses]]
        /\ slot' \in [Jobs -> [Agents -> Nat]]
        /\ lastSeen' \in [Jobs -> [Agents -> Nat]]
    <3>1. CASE CanClaim(call[c].job, call[c].agent)
      <4> DEFINE j == call[c].job
                 a == call[c].agent
                 s == ClaimSlot(j)
      <4>1. /\ spawnStatus' = [spawnStatus EXCEPT ![j][a] = "RUNNING"]
            /\ slot' = [slot EXCEPT ![j][a] = s]
            /\ lastSeen' = [lastSeen EXCEPT ![j][a] = call[c].now]
        BY <1>6, <3>1 DEF PollClaim
      <4> HIDE DEF s
      <4>2. s \in Nat
        BY <2>4 DEF s
      <4>3. "RUNNING" \in SpawnStatuses
        BY DEF SpawnStatuses
      <4> QED
        BY <2>4, <4>1, <4>2, <4>3 DEF TypeOK
    <3>2. CASE ~CanClaim(call[c].job, call[c].agent)
      BY <1>6, <3>2 DEF PollClaim, TypeOK, spawnVars
    <3> QED
      BY <3>1, <3>2
  <2> QED
    BY <1>6, <2>3, <2>5 DEF PollClaim, TypeOK, jobVars
<1>7. ASSUME NEW c \in Calls, PollReadSlot(c) PROVE TypeInv'
  <2>0. call[c] \in CallType /\ LocalOK(call[c])
    BY DEF TypeOK, LocalsOK
  <2> DEFINE s == ClaimedSlot(call[c].job, call[c].agent)
             l == [call[c] EXCEPT !.pc = "poll_promote", !.slot = s]
  <2>1. l \in CallType /\ LocalOK(l)
    <3>1. call[c].job \in Jobs /\ call[c].agent \in Agents
      BY <1>7, <2>0 DEF PollReadSlot, LocalOK, HandlerPcs
    <3>2. s \in Nat
      BY <3>1 DEF ClaimedSlot, TypeOK
    <3> HIDE DEF s
    <3> QED
      BY <2>0, <3>1, <3>2 DEF CallType, LocalOK, HandlerPcs
  <2>2. Return(c) \/ Goto(c, l)
    BY <1>7, Zenon DEF PollReadSlot
  <2>3. call' \in [Calls \union Crons -> CallType] /\ LocalsOK'
    BY <2>1, <2>2, GotoTyped, ReturnTyped
  <2> QED
    BY <1>7, <2>3 DEF PollReadSlot, TypeOK, jobVars, spawnVars
<1>8. ASSUME NEW c \in Calls, PollPromote(c) PROVE TypeInv'
  <2>0. call[c] \in CallType /\ LocalOK(call[c])
    BY DEF TypeOK, LocalsOK
  <2>1. call' \in [Calls \union Crons -> CallType] /\ LocalsOK'
    BY <1>8, ReturnTyped DEF PollPromote
  <2> DEFINE j == call[c].job
             share == rps_for_slot(req[j].rps, req[j].agents, call[c].slot)
  <2>2. j \in Jobs /\ call[c].agent \in Agents /\ call[c].slot \in Nat
    BY <1>8, <2>0 DEF PollPromote, LocalOK, HandlerPcs, CallType
  <2>3. share \in Int
    BY <2>2, ShareType DEF TypeOK
  <2>4. grants' \subseteq GrantType
    BY <1>8, <2>2, <2>3 DEF PollPromote, TypeOK, GrantType
  <2>5. jobStatus' \in [Jobs -> JobStatuses]
    BY <1>8 DEF PollPromote, Promote, TypeOK, JobStatuses, LIVE_STATUSES, ACTIVE_STATUSES
  <2> QED
    BY <1>8, <2>1, <2>4, <2>5 DEF PollPromote, TypeOK, spawnVars
<1>9. ASSUME NEW j \in Jobs, NEW a \in Agents, RecordMetrics(j, a) PROVE TypeInv'
  <2>1. Stamps \subseteq Nat
    BY DEF Stamps, TypeOK
  <2> QED
    BY <1>9, <2>1 DEF RecordMetrics, MetricsBatch, TypeOK, LocalsOK, jobVars
<1>10. ASSUME NEW j \in Jobs, NEW a \in Agents, CompleteError(j, a) PROVE TypeInv'
  <2> QED
    BY <1>10 DEF CompleteError, TypeOK, LocalsOK, SpawnStatuses, JobStatuses, TERMINAL_STATUSES
<1>11. ASSUME NEW j \in Jobs, StopJob(j) PROVE TypeInv'
  <2>1. Stamps \subseteq Nat
    BY DEF Stamps, TypeOK
  <2> QED
    BY <1>11, <2>1 DEF StopJob, TypeOK, LocalsOK, spawnVars, JobStatuses, LIVE_STATUSES
<1>12. ASSUME NEW c \in Calls, NEW j \in Jobs, NEW a \in Agents, CompleteRead(c, j, a) PROVE TypeInv'
  <2> DEFINE outcome == IF jobStatus[j] \in {"STOPPING", "STOPPED"} THEN "STOPPED" ELSE "COMPLETED"
             l == [NoCall EXCEPT !.pc = "complete_mark", !.job = j, !.agent = a,
                                 !.status = outcome]
  <2>1. outcome \in {"COMPLETED", "STOPPED"} /\ outcome \in JobStatuses
    BY DEF JobStatuses, TERMINAL_STATUSES
  <2>2. Goto(c, l)
    BY <1>12, Zenon DEF CompleteRead, CompletionRead
  <2> HIDE DEF outcome
  <2>3. l \in CallType /\ LocalOK(l)
    BY <2>1, NoCallType DEF NoCall, CallType, LocalOK, HandlerPcs
  <2>4. call' \in [Calls \union Crons -> CallType] /\ LocalsOK'
    BY <2>2, <2>3, GotoTyped
  <2> QED
    BY <1>12, <2>4 DEF CompleteRead, CompletionRead, TypeOK, jobVars, spawnVars
<1>13. ASSUME NEW c \in Calls, CompleteMark(c) PROVE TypeInv'
  <2>0. call[c] \in CallType /\ LocalOK(call[c])
    BY DEF TypeOK, LocalsOK
  <2> DEFINE l == [call[c] EXCEPT !.pc = "complete_count"]
  <2>1. l \in CallType /\ LocalOK(l)
    BY <1>13, <2>0 DEF CompleteMark, CallType, LocalOK, HandlerPcs, ReaperPcs
  <2>2. Goto(c, l)
    BY <1>13, Zenon DEF CompleteMark
  <2>3. call' \in [Calls \union Crons -> CallType] /\ LocalsOK'
    BY <2>1, <2>2, GotoTyped
  <2>4. call[c].status \in SpawnStatuses
    BY <1>13, <2>0 DEF CompleteMark, LocalOK, SpawnStatuses, TERMINAL_STATUSES
  <2> QED
    BY <1>13, <2>4, <2>3 DEF CompleteMark, TypeOK, jobVars, spawnVars
<1>14. ASSUME NEW c \in Calls, CompleteCount(c) PROVE TypeInv'
  <2>0. call[c] \in CallType /\ LocalOK(call[c])
    BY DEF TypeOK, LocalsOK
  <2> DEFINE l == [call[c] EXCEPT !.pc = "complete_close"]
  <2>1. l \in CallType /\ LocalOK(l)
    BY <1>14, <2>0 DEF CompleteCount, CallType, LocalOK, HandlerPcs
  <2>2. Return(c) \/ Goto(c, l)
    BY <1>14, Zenon DEF CompleteCount
  <2>3. call' \in [Calls \union Crons -> CallType] /\ LocalsOK'
    BY <2>1, <2>2, GotoTyped, ReturnTyped
  <2> QED
    BY <1>14, <2>3 DEF CompleteCount, TypeOK, jobVars, spawnVars
<1>15. ASSUME NEW c \in Calls, CompleteClose(c) PROVE TypeInv'
  <2>0. call[c] \in CallType /\ LocalOK(call[c])
    BY DEF TypeOK, LocalsOK
  <2>1. call' \in [Calls \union Crons -> CallType] /\ LocalsOK'
    BY <1>15, ReturnTyped DEF CompleteClose
  <2>2. call[c].status \in JobStatuses
    BY <2>0 DEF CallType
  <2> QED
    BY <1>15, <2>1, <2>2 DEF CompleteClose, Close, TypeOK, spawnVars
<1>16. ASSUME NEW c \in Crons, ReapBegin(c) PROVE TypeInv'
  <2> DEFINE l == [NoCall EXCEPT !.pc = "reap_stale", !.now = clock]
  <2>1. l \in CallType /\ LocalOK(l)
    BY NoCallType DEF NoCall, TypeOK, CallType, LocalOK, HandlerPcs, ReaperPcs
  <2>2. Goto(c, l)
    BY <1>16, Zenon DEF ReapBegin
  <2>3. call' \in [Calls \union Crons -> CallType] /\ LocalsOK'
    BY <2>1, <2>2, GotoTyped
  <2> QED
    BY <1>16, <2>3 DEF ReapBegin, TypeOK, jobVars, spawnVars
<1>17. ASSUME NEW c \in Crons, ReapStale(c) PROVE TypeInv'
  <2>0. call[c] \in CallType /\ LocalOK(call[c])
    BY DEF TypeOK, LocalsOK
  <2> DEFINE l == [call[c] EXCEPT !.pc = "reap_select"]
  <2>1. l \in CallType /\ LocalOK(l)
    BY <1>17, <2>0 DEF ReapStale, CallType, LocalOK, HandlerPcs, ReaperPcs
  <2>2. Goto(c, l)
    BY <1>17, Zenon DEF ReapStale
  <2>3. call' \in [Calls \union Crons -> CallType] /\ LocalsOK'
    BY <2>1, <2>2, GotoTyped
  <2> QED
    BY <1>17, <2>3 DEF ReapStale, TypeOK, jobVars, spawnVars, SpawnStatuses, TERMINAL_STATUSES
<1>18. ASSUME NEW c \in Crons, ReapSelect(c) PROVE TypeInv'
  <2>0. call[c] \in CallType /\ LocalOK(call[c])
    BY DEF TypeOK, LocalsOK
  <2> DEFINE left == Expired(call[c].now)
             l == [call[c] EXCEPT !.pc = LoopPc(left), !.todo = left]
  <2>1. l \in CallType /\ LocalOK(l)
    <3>1. left \subseteq Jobs
      BY DEF Expired
    <3>2. LoopPc(left) \in {"reap_orphans", "reap_count"}
      BY DEF LoopPc
    <3> HIDE DEF left
    <3> QED
      BY <2>0, <3>1, <3>2 DEF CallType, LocalOK, HandlerPcs, ReaperPcs
  <2>2. Goto(c, l)
    BY <1>18, Zenon DEF ReapSelect
  <2>3. call' \in [Calls \union Crons -> CallType] /\ LocalsOK'
    BY <2>1, <2>2, GotoTyped
  <2> QED
    BY <1>18, <2>3 DEF ReapSelect, TypeOK, jobVars, spawnVars
<1>19. ASSUME NEW c \in Crons, ReapCount(c) PROVE TypeInv'
  <2>0. call[c] \in CallType /\ LocalOK(call[c])
    BY DEF TypeOK, LocalsOK
  <2> DEFINE l(j) == [call[c] EXCEPT !.pc = "reap_finalise", !.job = j,
                                      !.status = Outcome(j)]
  <2>1. ASSUME NEW j \in Jobs PROVE l(j) \in CallType /\ LocalOK(l(j))
    <3>1. Outcome(j) \in {"COMPLETED", "FAILED"} /\ Outcome(j) \in JobStatuses
      BY DEF Outcome, JobStatuses, TERMINAL_STATUSES
    <3> QED
      <4> DEFINE outcome == Outcome(j)
      <4> HIDE DEF outcome
      <4>1. outcome = Outcome(j)
        BY DEF outcome
      <4>2. [call[c] EXCEPT !.pc = "reap_finalise", !.job = j, !.status = outcome] \in CallType
        BY <2>0, <3>1, <4>1 DEF CallType, ReaperPcs
      <4>3. LocalOK([call[c] EXCEPT !.pc = "reap_finalise", !.job = j, !.status = outcome])
        BY <2>0, <3>1, <4>1 DEF CallType, LocalOK, HandlerPcs
      <4> QED
        BY <4>1, <4>2, <4>3
  <2>2. \E j \in call[c].todo : Goto(c, l(j))
    BY <1>19, Zenon DEF ReapCount
  <2>3. call[c].todo \subseteq Jobs
    BY <2>0 DEF CallType
  <2> HIDE DEF l
  <2>4. call' \in [Calls \union Crons -> CallType] /\ LocalsOK'
    BY <2>1, <2>2, <2>3, GotoTyped
  <2> QED
    BY <1>19, <2>4 DEF ReapCount, TypeOK, jobVars, spawnVars
<1>20. ASSUME NEW c \in Crons, ReapFinalise(c) PROVE TypeInv'
  <2>0. call[c] \in CallType /\ LocalOK(call[c])
    BY DEF TypeOK, LocalsOK
  <2> DEFINE left == call[c].todo \ {call[c].job}
             l == [call[c] EXCEPT !.pc = LoopPc(left), !.todo = left,
                                  !.job = None, !.status = "NONE"]
  <2>1. l \in CallType /\ LocalOK(l)
    <3>1. left \subseteq Jobs
      BY <2>0 DEF CallType
    <3>2. LoopPc(left) \in {"reap_orphans", "reap_count"}
      BY DEF LoopPc
    <3>3. "NONE" \in JobStatuses
      BY DEF JobStatuses
    <3> DEFINE p == LoopPc(left)
    <3> HIDE DEF left, p
    <3>4. [call[c] EXCEPT !.pc = p, !.todo = left, !.job = None, !.status = "NONE"] \in CallType
      <4>1. p \in ReaperPcs
        BY <3>2 DEF ReaperPcs, p
      <4> QED
        BY <2>0, <3>1, <3>3, <4>1 DEF CallType
    <3>5. l.pc = p
      BY <2>0 DEF CallType, p
    <3>6. LocalOK(l)
      BY <3>2, <3>5 DEF LocalOK, HandlerPcs, p
    <3> QED
      BY <3>4, <3>6 DEF p
  <2>2. Goto(c, l)
    BY <1>20, Zenon DEF ReapFinalise
  <2>3. call' \in [Calls \union Crons -> CallType] /\ LocalsOK'
    BY <2>1, <2>2, GotoTyped
  <2>4. call[c].status \in JobStatuses
    BY <2>0 DEF CallType
  <2> QED
    BY <1>20, <2>4, <2>3 DEF ReapFinalise, TypeOK, jobVars, spawnVars, Close, SpawnStatuses, TERMINAL_STATUSES
<1>21. ASSUME NEW c \in Crons, ReapOrphans(c) PROVE TypeInv'
  <2>0. call[c] \in CallType /\ LocalOK(call[c])
    BY DEF TypeOK, LocalsOK
  <2> DEFINE l == [call[c] EXCEPT !.pc = "reap_stopping", !.now = 0]
  <2>1. l \in CallType /\ LocalOK(l)
    BY <1>21, <2>0 DEF ReapOrphans, CallType, LocalOK, HandlerPcs, ReaperPcs
  <2>2. Goto(c, l)
    BY <1>21, Zenon DEF ReapOrphans
  <2>3. call' \in [Calls \union Crons -> CallType] /\ LocalsOK'
    BY <2>1, <2>2, GotoTyped
  <2> QED
    BY <1>21, <2>3 DEF ReapOrphans, TypeOK, jobVars, spawnVars, JobStatuses, TERMINAL_STATUSES
<1>22. ASSUME NEW c \in Crons, ReapStopping(c) PROVE TypeInv'
  <2>1. call' \in [Calls \union Crons -> CallType] /\ LocalsOK'
    BY <1>22, ReturnTyped DEF ReapStopping
  <2> QED
    BY <1>22, <2>1 DEF ReapStopping, TypeOK, spawnVars, JobStatuses, TERMINAL_STATUSES
<1>23. ASSUME NEW c \in Calls \union Crons, Abort(c) PROVE TypeInv'
  <2>1. call' \in [Calls \union Crons -> CallType] /\ LocalsOK'
    BY <1>23, ReturnTyped DEF Abort
  <2> QED
    BY <1>23, <2>1 DEF Abort, TypeOK, jobVars, spawnVars
<1>24. ASSUME Tick PROVE TypeInv'
  <2> QED
    BY <1>24 DEF Tick, TypeOK, LocalsOK, jobVars, spawnVars
<1>25. ASSUME UNCHANGED vars PROVE TypeInv'
  <2> QED
    BY <1>25 DEF vars, TypeOK, LocalsOK, jobVars, spawnVars
<1> QED
    BY <1>1, <1>2, <1>3, <1>4, <1>5, <1>6, <1>7, <1>8, <1>9, <1>10, <1>11, <1>12, <1>13, <1>14, <1>15, <1>16, <1>17, <1>18, <1>19, <1>20, <1>21, <1>22, <1>23, <1>24, <1>25
    DEF Next, HandlerStep, ReaperStep

\* TypeOK and what the activations rely on hold of every behaviour.
THEOREM TypeCorrect == Spec => []TypeOK
<1>1. Init => TypeInv
    BY NoCallType DEF Init, TypeInv, TypeOK, LocalsOK, JobStatuses, SpawnStatuses
<1>2. TypeInv /\ [Next]_vars => TypeInv'
    BY TypeInvStep
<1> QED
    BY <1>1, <1>2, PTL DEF Spec, TypeInv

-----------------------------------------------------------------------------
(* Which steps write which table *)

\* A step that writes neither JOBS nor JOB_SPAWNS, LAST_SEEN apart.
Quiet == UNCHANGED <<jobStatus, req, spawnStatus, slot, grants>>

\* The statements that do.
HandlerWrite(c) ==
    \/ StartInsert(c) \/ PollClaim(c) \/ PollPromote(c)
    \/ CompleteMark(c) \/ CompleteClose(c)
SweepWrite(c) ==
    ReapStale(c) \/ ReapFinalise(c) \/ ReapOrphans(c) \/ ReapStopping(c)

\* Every step is quiet or one of eleven writes.
LEMMA QuietOrWrite ==
    ASSUME [Next]_vars
    PROVE  \/ Quiet
           \/ \E c \in Calls : HandlerWrite(c)
           \/ \E c \in Crons : SweepWrite(c)
           \/ \E j \in Jobs : StopJob(j)
           \/ \E j \in Jobs, a \in Agents : CompleteError(j, a)
<1>1. ASSUME NEW c \in Calls, StartCheck(c) PROVE Quiet
    BY <1>1 DEF StartCheck, Quiet, jobVars, spawnVars
<1>2. ASSUME NEW c \in Calls, NEW a \in Agents, PollSelectJob(c, a) PROVE Quiet
    BY <1>2 DEF PollSelectJob, Quiet, jobVars, spawnVars
<1>3. ASSUME NEW c \in Calls, PollSelectSpawn(c) PROVE Quiet
    BY <1>3 DEF PollSelectSpawn, Quiet, jobVars, spawnVars
<1>4. ASSUME NEW c \in Calls, PollTouch(c) PROVE Quiet
    BY <1>4 DEF PollTouch, Quiet, jobVars
<1>5. ASSUME NEW c \in Calls, PollReadSlot(c) PROVE Quiet
    BY <1>5 DEF PollReadSlot, Quiet, jobVars, spawnVars
<1>6. ASSUME NEW c \in Calls, NEW j \in Jobs, NEW a \in Agents, CompleteRead(c, j, a)
      PROVE Quiet
    BY <1>6 DEF CompleteRead, CompletionRead, Quiet, jobVars, spawnVars
<1>7. ASSUME NEW c \in Calls, CompleteCount(c) PROVE Quiet
    BY <1>7 DEF CompleteCount, Quiet, jobVars, spawnVars
<1>8. ASSUME NEW c \in Crons, ReapBegin(c) PROVE Quiet
    BY <1>8 DEF ReapBegin, Quiet, jobVars, spawnVars
<1>9. ASSUME NEW c \in Crons, ReapSelect(c) PROVE Quiet
    BY <1>9 DEF ReapSelect, Quiet, jobVars, spawnVars
<1>10. ASSUME NEW c \in Crons, ReapCount(c) PROVE Quiet
    BY <1>10 DEF ReapCount, Quiet, jobVars, spawnVars
<1>11. ASSUME NEW c \in Calls \union Crons, Abort(c) PROVE Quiet
    BY <1>11 DEF Abort, Quiet, jobVars, spawnVars
<1>12. ASSUME NEW j \in Jobs, NEW a \in Agents, RecordMetrics(j, a) PROVE Quiet
    BY <1>12 DEF RecordMetrics, MetricsBatch, Quiet, jobVars
<1>13. CASE Tick
    BY <1>13 DEF Tick, Quiet, jobVars, spawnVars
<1>14. CASE UNCHANGED vars
    BY <1>14 DEF vars, Quiet, jobVars, spawnVars
<1> QED
    BY <1>1, <1>2, <1>3, <1>4, <1>5, <1>6, <1>7, <1>8, <1>9, <1>10, <1>11,
       <1>12, <1>13, <1>14
    DEF Next, HandlerStep, ReaperStep, HandlerWrite, SweepWrite

-----------------------------------------------------------------------------
(* What no step undoes *)

\* A job stays, with its request; a spawn stays, with its slot; a job on its
\* way out never comes back.
Stable ==
    /\ \A j \in Jobs : jobStatus[j] # "NONE"
            => jobStatus'[j] # "NONE" /\ req'[j] = req[j]
    /\ \A j \in Jobs, a \in Agents : spawnStatus[j][a] # "NONE"
            => spawnStatus'[j][a] # "NONE" /\ slot'[j][a] = slot[j][a]
    /\ \A j \in Jobs : jobStatus[j] \in {"STOPPING"} \union TERMINAL_STATUSES
            => jobStatus'[j] \in {"STOPPING"} \union TERMINAL_STATUSES

\* The conditional INSERT either writes nothing or adds exactly one row, with
\* the row count as its slot.
LEMMA ClaimEffect ==
    ASSUME TypeInv, NEW c \in Calls, PollClaim(c)
    PROVE  /\ UNCHANGED <<jobStatus, req, grants>>
           /\ call[c].job \in Jobs /\ call[c].agent \in Agents
           /\ \/ UNCHANGED <<spawnStatus, slot>>
              \/ /\ Cardinality(SpawnsOf(call[c].job)) < req[call[c].job].agents
                 /\ spawnStatus[call[c].job][call[c].agent] = "NONE"
                 /\ \A j \in Jobs, a \in Agents :
                        /\ spawnStatus'[j][a] = IF j = call[c].job /\ a = call[c].agent
                                                THEN "RUNNING" ELSE spawnStatus[j][a]
                        /\ slot'[j][a] = IF j = call[c].job /\ a = call[c].agent
                                         THEN Cardinality(SpawnsOf(call[c].job))
                                         ELSE slot[j][a]
<1> DEFINE j == call[c].job
           a == call[c].agent
           n == Cardinality(SpawnsOf(j))
<1>1. j \in Jobs /\ a \in Agents
    BY DEF PollClaim, TypeInv, LocalsOK, LocalOK, HandlerPcs
<1>2. UNCHANGED <<jobStatus, req, grants>>
    BY DEF PollClaim, jobVars
<1>3. CASE CanClaim(j, a)
  <2>1. /\ spawnStatus' = [spawnStatus EXCEPT ![j][a] = "RUNNING"]
        /\ slot' = [slot EXCEPT ![j][a] = n]
    BY <1>3 DEF PollClaim, ClaimSlot
  <2>2. n < req[j].agents /\ spawnStatus[j][a] = "NONE"
    BY <1>3 DEF CanClaim
  <2> HIDE DEF j, a, n
  <2>3. \A k \in Jobs, b \in Agents :
            /\ spawnStatus'[k][b] = IF k = j /\ b = a THEN "RUNNING" ELSE spawnStatus[k][b]
            /\ slot'[k][b] = IF k = j /\ b = a THEN n ELSE slot[k][b]
    BY <1>1, <2>1 DEF TypeInv, TypeOK
  <2> QED
    BY <1>1, <1>2, <2>2, <2>3 DEF j, a, n
<1>4. CASE ~CanClaim(j, a)
  <2>1. UNCHANGED <<spawnStatus, slot>>
    BY <1>4 DEF PollClaim, spawnVars
  <2> QED
    BY <1>1, <1>2, <2>1
<1> QED
    BY <1>3, <1>4

\* No step undoes them.
LEMMA StableStep ==
    ASSUME TypeInv, [Next]_vars
    PROVE  Stable
<1> USE DEF TypeInv, TypeOK
<1>1. CASE Quiet
    BY <1>1 DEF Quiet, Stable
<1>2. ASSUME NEW c \in Calls, StartInsert(c) PROVE Stable
    BY <1>2 DEF StartInsert, spawnVars, Stable, TERMINAL_STATUSES
<1>3. ASSUME NEW c \in Calls, PollClaim(c) PROVE Stable
  <2> DEFINE j == call[c].job
             a == call[c].agent
             n == Cardinality(SpawnsOf(j))
  <2> HIDE DEF TypeInv
  <2>1. /\ UNCHANGED <<jobStatus, req, grants>>
        /\ \/ UNCHANGED <<spawnStatus, slot>>
           \/ /\ spawnStatus[j][a] = "NONE"
              /\ \A k \in Jobs, b \in Agents :
                    /\ spawnStatus'[k][b] = IF k = j /\ b = a THEN "RUNNING" ELSE spawnStatus[k][b]
                    /\ slot'[k][b] = IF k = j /\ b = a THEN n ELSE slot[k][b]
    BY <1>3, ClaimEffect, Zenon
  <2> HIDE DEF j, a, n
  <2> QED
    BY <2>1 DEF Stable
<1>4. ASSUME NEW c \in Calls, PollPromote(c) PROVE Stable
    BY <1>4 DEF PollPromote, Promote, spawnVars, Stable, TERMINAL_STATUSES
<1>5. ASSUME NEW c \in Calls, CompleteMark(c) PROVE Stable
  <2>1. call[c].status # "NONE"
    BY <1>5 DEF CompleteMark, LocalsOK, LocalOK
  <2> QED
    BY <1>5, <2>1 DEF CompleteMark, jobVars, Stable
<1>6. ASSUME NEW c \in Calls, CompleteClose(c) PROVE Stable
  <2>1. call[c].status \in TERMINAL_STATUSES
    BY <1>6 DEF CompleteClose, LocalsOK, LocalOK, TERMINAL_STATUSES
  <2> QED
    BY <1>6, <2>1 DEF CompleteClose, Close, LIVE_STATUSES, spawnVars, Stable,
       TERMINAL_STATUSES
<1>7. ASSUME NEW c \in Crons, ReapStale(c) PROVE Stable
    BY <1>7 DEF ReapStale, jobVars, Stable
<1>8. ASSUME NEW c \in Crons, ReapFinalise(c) PROVE Stable
  <2>1. call[c].status \in TERMINAL_STATUSES
    BY <1>8 DEF ReapFinalise, LocalsOK, LocalOK, TERMINAL_STATUSES
  <2> QED
    BY <1>8, <2>1 DEF ReapFinalise, Close, LIVE_STATUSES, Stable, TERMINAL_STATUSES
<1>9. ASSUME NEW c \in Crons, ReapOrphans(c) PROVE Stable
    BY <1>9 DEF ReapOrphans, spawnVars, Stable, TERMINAL_STATUSES
<1>10. ASSUME NEW c \in Crons, ReapStopping(c) PROVE Stable
    BY <1>10 DEF ReapStopping, spawnVars, Stable, TERMINAL_STATUSES
<1>11. ASSUME NEW j \in Jobs, StopJob(j) PROVE Stable
    BY <1>11 DEF StopJob, spawnVars, Stable
<1>12. ASSUME NEW j \in Jobs, NEW a \in Agents, CompleteError(j, a) PROVE Stable
    BY <1>12 DEF CompleteError, Stable, TERMINAL_STATUSES
<1> QED
    BY <1>1, <1>2, <1>3, <1>4, <1>5, <1>6, <1>7, <1>8, <1>9, <1>10, <1>11,
       <1>12, QuietOrWrite DEF HandlerWrite, SweepWrite

-----------------------------------------------------------------------------
(* The inductive invariant *)

\* Types, reads that stay true, and the three invariants of the tables.
TableInv ==
    /\ TypeInv
    /\ SpawnsNeedJob
    /\ AllReadsHold
    /\ GrantsMatch
    /\ SlotsDense
    /\ CompletedHasSpawn

\* What an activation read stays true whatever the other activations do.
LEMMA ReadsStayTrue ==
    ASSUME TypeInv, Stable, NEW l \in CallType, LocalOK(l),
           ReadsHold(l, jobStatus, spawnStatus, slot)
    PROVE  ReadsHold(l, jobStatus', spawnStatus', slot')
<1>1. CASE l.pc \in HandlerPcs \ {"start_insert"}
  <2>1. l.job \in Jobs /\ l.agent \in Agents
    BY <1>1 DEF LocalOK
  <2> QED
    BY <1>1, <2>1 DEF Stable, ReadsHold, HandlerPcs
<1>2. CASE l.pc = "reap_finalise"
  <2>1. l.job \in Jobs
    BY <1>2 DEF LocalOK
  <2> QED
    BY <1>2, <2>1 DEF Stable, ReadsHold
<1>3. CASE l.pc \notin HandlerPcs \union {"reap_finalise"} \/ l.pc = "start_insert"
    BY <1>3 DEF ReadsHold, HandlerPcs
<1> QED
    BY <1>1, <1>2, <1>3

\* An activation that goes on with locals that are true leaves all reads true.
LEMMA GotoReads ==
    ASSUME TypeInv, Stable, AllReadsHold, NEW c \in Calls \union Crons, NEW l,
           Goto(c, l), ReadsHold(l, jobStatus', spawnStatus', slot')
    PROVE  AllReadsHold'
<1>1. \A d \in Calls \union Crons : call'[d] = IF d = c THEN l ELSE call[d]
    BY DEF Goto, TypeInv, TypeOK
<1>2. ASSUME NEW d \in Calls \union Crons
      PROVE  ReadsHold(call[d], jobStatus', spawnStatus', slot')
  <2>1. call[d] \in CallType /\ LocalOK(call[d])
    BY DEF TypeInv, TypeOK, LocalsOK
  <2>2. ReadsHold(call[d], jobStatus, spawnStatus, slot)
    BY DEF AllReadsHold
  <2> QED
    BY <2>1, <2>2, ReadsStayTrue
<1> QED
    BY <1>1, <1>2 DEF AllReadsHold

\* A returned call remembers nothing.
LEMMA ReturnReads ==
    ASSUME TypeInv, Stable, AllReadsHold, NEW c \in Calls \union Crons, Return(c)
    PROVE  AllReadsHold'
<1>1. ReadsHold(NoCall, jobStatus', spawnStatus', slot')
    BY DEF ReadsHold, NoCall
<1> QED
    BY <1>1, GotoReads DEF Return

\* What a call read still holds after the step of another.
LEMMA SameCallReads ==
    ASSUME TypeInv, Stable, AllReadsHold, UNCHANGED call
    PROVE  AllReadsHold'
<1>2. ASSUME NEW d \in Calls \union Crons
      PROVE  ReadsHold(call[d], jobStatus', spawnStatus', slot')
  <2>1. call[d] \in CallType /\ LocalOK(call[d])
    BY DEF TypeInv, TypeOK, LocalsOK
  <2>2. ReadsHold(call[d], jobStatus, spawnStatus, slot)
    BY DEF AllReadsHold
  <2> QED
    BY <2>1, <2>2, ReadsStayTrue
<1> QED
    BY <1>2 DEF AllReadsHold

\* Every step keeps them: the new locals of the activation that moved are
\* true, and the reads of the others stay true.
LEMMA ReadsStep ==
    ASSUME TypeInv, GrantsMatch, AllReadsHold, [Next]_vars
    PROVE  AllReadsHold'
<1>0. Stable
    BY StableStep
<1> DEFINE R(l) == ReadsHold(l, jobStatus', spawnStatus', slot')
<1>l. ASSUME NEW c \in Calls \union Crons
      PROVE  /\ call[c] \in CallType /\ LocalOK(call[c])
             /\ ReadsHold(call[c], jobStatus, spawnStatus, slot)
             /\ ReadsHold(call[c], jobStatus', spawnStatus', slot')
  <2>1. call[c] \in CallType /\ LocalOK(call[c])
    BY DEF TypeInv, TypeOK, LocalsOK
  <2>2. ReadsHold(call[c], jobStatus, spawnStatus, slot)
    BY DEF AllReadsHold
  <2> QED
    BY <2>1, <2>2, <1>0, ReadsStayTrue
<1>1. ASSUME NEW c \in Calls, StartCheck(c) PROVE AllReadsHold'
  <2> PICK q \in Requests :
        Goto(c, [NoCall EXCEPT !.pc = "start_insert", !.req = q, !.now = clock])
    BY <1>1, Zenon DEF StartCheck
  <2> DEFINE l == [NoCall EXCEPT !.pc = "start_insert", !.req = q, !.now = clock]
  <2>1. R(l)
    BY DEF ReadsHold, NoCall
  <2> QED
    BY <1>0, <2>1, GotoReads
<1>2. ASSUME NEW c \in Calls, StartInsert(c) PROVE AllReadsHold'
    BY <1>0, <1>2, ReturnReads DEF StartInsert
<1>3. ASSUME NEW c \in Calls, NEW a \in Agents, PollSelectJob(c, a) PROVE AllReadsHold'
  <2> PICK j \in Jobs :
        /\ OldestActive(j)
        /\ Goto(c, [NoCall EXCEPT !.pc = "poll_spawn", !.job = j, !.agent = a,
                               !.status = jobStatus[j], !.until = stopAt[j],
                               !.now = clock])
    BY <1>3, Zenon DEF PollSelectJob
  <2> DEFINE l == [NoCall EXCEPT !.pc = "poll_spawn", !.job = j, !.agent = a,
                               !.status = jobStatus[j], !.until = stopAt[j],
                               !.now = clock]
  <2>1. jobStatus'[j] # "NONE"
    BY <1>0 DEF OldestActive, ACTIVE_STATUSES, Stable
  <2>2. l.pc = "poll_spawn" /\ l.job = j
    BY DEF NoCall
  <2>3. R(l)
    BY <2>1, <2>2 DEF ReadsHold
  <2> QED
    BY <1>0, <2>3, GotoReads
<1>4. ASSUME NEW c \in Calls, PollSelectSpawn(c) PROVE AllReadsHold'
  <2> DEFINE j == call[c].job
             a == call[c].agent
             s == slot[j][a]
             touch(now) == [call[c] EXCEPT !.pc = "poll_touch", !.now = now,
                                   !.until = 0, !.slot = s]
             claim(now) == [call[c] EXCEPT !.pc = "poll_claim", !.now = now,
                                   !.until = 0]
  <2>1. /\ j \in Jobs /\ a \in Agents
        /\ jobStatus'[j] # "NONE"
    BY <1>4, <1>l DEF PollSelectSpawn, LocalOK, HandlerPcs, ReadsHold
  <2>2. UNCHANGED <<spawnStatus, slot>>
    BY <1>4 DEF PollSelectSpawn, spawnVars
  <2>3. \/ Return(c)
        \/ \E now \in call[c].now..clock :
              \/ Goto(c, touch(now)) /\ spawnStatus[j][a] = "RUNNING"
              \/ Goto(c, claim(now))
    BY <1>4, Zenon DEF PollSelectSpawn
  <2>4. ASSUME NEW now, spawnStatus[j][a] = "RUNNING" PROVE R(touch(now))
    <3> HIDE DEF s
    <3>1. /\ touch(now).pc = "poll_touch" /\ touch(now).job = j
          /\ touch(now).agent = a /\ touch(now).slot = s
      BY <1>l DEF CallType
    <3> QED
      BY <2>1, <2>2, <2>4, <3>1 DEF ReadsHold, s
  <2>5. ASSUME NEW now PROVE R(claim(now))
    <3>1. claim(now).pc = "poll_claim" /\ claim(now).job = j
      BY <1>l DEF CallType
    <3> QED
      BY <2>1, <3>1 DEF ReadsHold
  <2> HIDE DEF touch, claim
  <2> QED
    BY <1>0, <2>3, <2>4, <2>5, GotoReads, ReturnReads
<1>5. ASSUME NEW c \in Calls, PollTouch(c) PROVE AllReadsHold'
  <2> DEFINE l == [call[c] EXCEPT !.pc = "poll_promote", !.now = 0]
  <2>1. Goto(c, l)
    BY <1>5, Zenon DEF PollTouch
  <2>2. /\ l.pc = "poll_promote" /\ l.job = call[c].job /\ l.agent = call[c].agent
        /\ l.status = call[c].status /\ l.slot = call[c].slot
    BY <1>l DEF CallType
  <2>3. R(l)
    BY <1>5, <1>l, <2>2 DEF PollTouch, ReadsHold
  <2> QED
    BY <1>0, <2>1, <2>3, GotoReads
<1>6. ASSUME NEW c \in Calls, PollClaim(c) PROVE AllReadsHold'
  <2> DEFINE l == [call[c] EXCEPT !.pc = "poll_read", !.now = 0]
  <2>1. Goto(c, l)
    BY <1>6, Zenon DEF PollClaim
  <2>2. /\ l.pc = "poll_read" /\ l.job = call[c].job /\ l.agent = call[c].agent
        /\ l.status = call[c].status /\ l.slot = call[c].slot
    BY <1>l DEF CallType
  <2>3. R(l)
    BY <1>6, <1>l, <2>2 DEF PollClaim, ReadsHold
  <2> QED
    BY <1>0, <2>1, <2>3, GotoReads
<1>7. ASSUME NEW c \in Calls, PollReadSlot(c) PROVE AllReadsHold'
  <2> DEFINE j == call[c].job
             a == call[c].agent
             s == ClaimedSlot(j, a)
             l == [call[c] EXCEPT !.pc = "poll_promote", !.slot = s]
  <2>1. jobStatus'[j] # "NONE"
    BY <1>7, <1>l DEF PollReadSlot, ReadsHold
  <2>2. s = slot'[j][a] /\ UNCHANGED spawnStatus
    BY <1>7 DEF PollReadSlot, spawnVars, ClaimedSlot
  <2>3. Return(c) \/ (Goto(c, l) /\ spawnStatus[j][a] # "NONE")
    BY <1>7, Zenon DEF PollReadSlot
  <2> HIDE DEF s
  <2>4. l.pc = "poll_promote" /\ l.job = j /\ l.agent = a /\ l.slot = s
    BY <1>l DEF CallType
  <2>5. ASSUME spawnStatus[j][a] # "NONE" PROVE R(l)
    BY <2>1, <2>2, <2>4, <2>5 DEF ReadsHold
  <2> QED
    BY <1>0, <2>3, <2>5, GotoReads, ReturnReads
<1>8. ASSUME NEW c \in Calls, PollPromote(c) PROVE AllReadsHold'
    BY <1>0, <1>8, ReturnReads DEF PollPromote
<1>9. ASSUME NEW c \in Calls, NEW j \in Jobs, NEW a \in Agents, CompleteRead(c, j, a) PROVE AllReadsHold'
  <2> DEFINE outcome == IF jobStatus[j] \in {"STOPPING", "STOPPED"} THEN "STOPPED" ELSE "COMPLETED"
             l == [NoCall EXCEPT !.pc = "complete_mark", !.job = j, !.agent = a,
                                 !.status = outcome]
  <2>1. Goto(c, l)
    BY <1>9, Zenon DEF CompleteRead, CompletionRead
  <2>2. spawnStatus'[j][a] # "NONE"
    BY <1>0, <1>9 DEF CompleteRead, CompletionRead, Granted, GrantsMatch, Stable
  <2>3. outcome = "STOPPED" => jobStatus'[j] \in {"STOPPING"} \union TERMINAL_STATUSES
    BY <1>0 DEF Stable, TERMINAL_STATUSES
  <2> HIDE DEF outcome
  <2>4. l.pc = "complete_mark" /\ l.job = j /\ l.agent = a /\ l.status = outcome
    BY DEF NoCall
  <2>5. R(l)
    BY <2>2, <2>3, <2>4 DEF ReadsHold
  <2> QED
    BY <1>0, <2>1, <2>5, GotoReads
<1>10. ASSUME NEW c \in Calls, CompleteMark(c) PROVE AllReadsHold'
  <2> DEFINE l == [call[c] EXCEPT !.pc = "complete_count"]
  <2>1. Goto(c, l)
    BY <1>10, Zenon DEF CompleteMark
  <2>2. /\ l.pc = "complete_count" /\ l.job = call[c].job /\ l.agent = call[c].agent
        /\ l.status = call[c].status /\ l.slot = call[c].slot
    BY <1>l DEF CallType
  <2>3. R(l)
    BY <1>10, <1>l, <2>2 DEF CompleteMark, ReadsHold
  <2> QED
    BY <1>0, <2>1, <2>3, GotoReads
<1>11. ASSUME NEW c \in Calls, CompleteCount(c) PROVE AllReadsHold'
  <2> DEFINE l == [call[c] EXCEPT !.pc = "complete_close"]
  <2>1. Return(c) \/ Goto(c, l)
    BY <1>11, Zenon DEF CompleteCount
  <2>2. /\ l.pc = "complete_close" /\ l.job = call[c].job /\ l.agent = call[c].agent
        /\ l.status = call[c].status
    BY <1>l DEF CallType
  <2>3. R(l)
    BY <1>11, <1>l, <2>2 DEF CompleteCount, ReadsHold
  <2> QED
    BY <1>0, <2>1, <2>3, GotoReads, ReturnReads
<1>12. ASSUME NEW c \in Calls, CompleteClose(c) PROVE AllReadsHold'
    BY <1>0, <1>12, ReturnReads DEF CompleteClose
<1>13. ASSUME NEW c \in Crons, ReapBegin(c) PROVE AllReadsHold'
  <2> DEFINE l == [NoCall EXCEPT !.pc = "reap_stale", !.now = clock]
  <2>1. Goto(c, l)
    BY <1>13, Zenon DEF ReapBegin
  <2>2. R(l)
    BY DEF ReadsHold, NoCall
  <2> QED
    BY <1>0, <2>1, <2>2, GotoReads
<1>14. ASSUME NEW c \in Crons, ReapStale(c) PROVE AllReadsHold'
  <2> DEFINE l == [call[c] EXCEPT !.pc = "reap_select"]
  <2>1. Goto(c, l)
    BY <1>14, Zenon DEF ReapStale
  <2>2. /\ l.pc = "reap_select" /\ l.job = call[c].job /\ l.agent = call[c].agent
        /\ l.status = call[c].status /\ l.slot = call[c].slot
    BY <1>l DEF CallType
  <2>3. R(l)
    BY <1>14, <1>l, <2>2 DEF ReapStale, ReadsHold
  <2> QED
    BY <1>0, <2>1, <2>3, GotoReads
<1>15. ASSUME NEW c \in Crons, ReapSelect(c) PROVE AllReadsHold'
  <2> DEFINE left == Expired(call[c].now)
             p == LoopPc(left)
             l == [call[c] EXCEPT !.pc = p, !.todo = left]
  <2>1. Goto(c, l)
    BY <1>15, Zenon DEF ReapSelect
  <2>2. p \in {"reap_orphans", "reap_count"}
    BY DEF LoopPc
  <2> HIDE DEF left, p
  <2>3. l.pc = p
    BY <1>l DEF CallType
  <2>4. R(l)
    BY <2>2, <2>3 DEF ReadsHold
  <2> QED
    BY <1>0, <2>1, <2>4, GotoReads
<1>16. ASSUME NEW c \in Crons, ReapCount(c) PROVE AllReadsHold'
  <2> PICK j \in call[c].todo :
        Goto(c, [call[c] EXCEPT !.pc = "reap_finalise", !.job = j, !.status = Outcome(j)])
    BY <1>16, Zenon DEF ReapCount
  <2> DEFINE outcome == Outcome(j)
             l == [call[c] EXCEPT !.pc = "reap_finalise", !.job = j, !.status = outcome]
  <2>1. Goto(c, l)
    OBVIOUS
  <2>2. UNCHANGED spawnStatus
    BY <1>16 DEF ReapCount, spawnVars
  <2>3. outcome = "COMPLETED" => \E a \in Agents : spawnStatus'[j][a] # "NONE"
    BY <2>2 DEF Outcome, SpawnsOf
  <2> HIDE DEF outcome
  <2>4. l.pc = "reap_finalise" /\ l.job = j /\ l.status = outcome
    BY <1>l DEF CallType
  <2>5. R(l)
    BY <2>3, <2>4 DEF ReadsHold
  <2> QED
    BY <1>0, <2>1, <2>5, GotoReads
<1>17. ASSUME NEW c \in Crons, ReapFinalise(c) PROVE AllReadsHold'
  <2> DEFINE left == call[c].todo \ {call[c].job}
             p == LoopPc(left)
             l == [call[c] EXCEPT !.pc = p, !.todo = left, !.job = None, !.status = "NONE"]
  <2>1. Goto(c, l)
    BY <1>17, Zenon DEF ReapFinalise
  <2>2. p \in {"reap_orphans", "reap_count"}
    BY DEF LoopPc
  <2> HIDE DEF left, p
  <2>3. l.pc = p
    BY <1>l DEF CallType
  <2>4. R(l)
    BY <2>2, <2>3 DEF ReadsHold
  <2> QED
    BY <1>0, <2>1, <2>4, GotoReads
<1>18. ASSUME NEW c \in Crons, ReapOrphans(c) PROVE AllReadsHold'
  <2> DEFINE l == [call[c] EXCEPT !.pc = "reap_stopping", !.now = 0]
  <2>1. Goto(c, l)
    BY <1>18, Zenon DEF ReapOrphans
  <2>2. /\ l.pc = "reap_stopping" /\ l.job = call[c].job /\ l.agent = call[c].agent
        /\ l.status = call[c].status /\ l.slot = call[c].slot
    BY <1>l DEF CallType
  <2>3. R(l)
    BY <1>18, <1>l, <2>2 DEF ReapOrphans, ReadsHold
  <2> QED
    BY <1>0, <2>1, <2>3, GotoReads
<1>19. ASSUME NEW c \in Crons, ReapStopping(c) PROVE AllReadsHold'
    BY <1>0, <1>19, ReturnReads DEF ReapStopping
<1>20. ASSUME NEW c \in Calls \union Crons, Abort(c) PROVE AllReadsHold'
    BY <1>0, <1>20, ReturnReads DEF Abort
<1>21. ASSUME NEW j \in Jobs, StopJob(j) PROVE AllReadsHold'
    BY <1>0, <1>21, SameCallReads DEF StopJob
<1>22. ASSUME NEW j \in Jobs, NEW a \in Agents, RecordMetrics(j, a) PROVE AllReadsHold'
    BY <1>0, <1>22, SameCallReads DEF RecordMetrics, MetricsBatch
<1>23. ASSUME NEW j \in Jobs, NEW a \in Agents, CompleteError(j, a) PROVE AllReadsHold'
    BY <1>0, <1>23, SameCallReads DEF CompleteError
<1>24. ASSUME Tick PROVE AllReadsHold'
    BY <1>0, <1>24, SameCallReads DEF Tick
<1>25. ASSUME UNCHANGED vars PROVE AllReadsHold'
    BY <1>0, <1>25, SameCallReads DEF vars
<1> QED
    BY <1>1, <1>2, <1>3, <1>4, <1>5, <1>6, <1>7, <1>8, <1>9, <1>10, <1>11, <1>12, <1>13, <1>14, <1>15, <1>16, <1>17, <1>18, <1>19, <1>20, <1>21, <1>22, <1>23, <1>24, <1>25
    DEF Next, HandlerStep, ReaperStep

-----------------------------------------------------------------------------
(* The tables *)

\* The rows of JOB_SPAWNS, their slots and the requests stay as they are.
SameRows ==
    /\ UNCHANGED <<req, slot>>
    /\ \A j \in Jobs, a \in Agents : spawnStatus'[j][a] = "NONE" <=> spawnStatus[j][a] = "NONE"

\* Only start_job's INSERT and the claim add rows: an UPDATE only ever names
\* a spawn that exists.
LEMMA RowEffects ==
    ASSUME TypeInv, AllReadsHold, GrantsMatch, [Next]_vars
    PROVE  \/ SameRows
           \/ \E c \in Calls : StartInsert(c) \/ PollClaim(c)
<1> USE DEF TypeInv, TypeOK
<1>1. CASE Quiet
    BY <1>1 DEF Quiet, SameRows
<1>2. ASSUME NEW c \in Calls, PollPromote(c) PROVE SameRows
    BY <1>2 DEF PollPromote, spawnVars, SameRows
<1>3. ASSUME NEW c \in Calls, CompleteMark(c) PROVE SameRows
  <2>1. /\ call[c].status # "NONE" /\ call[c].job \in Jobs /\ call[c].agent \in Agents
        /\ spawnStatus[call[c].job][call[c].agent] # "NONE"
    BY <1>3 DEF CompleteMark, LocalsOK, LocalOK, HandlerPcs, AllReadsHold, ReadsHold
  <2> QED
    BY <1>3, <2>1 DEF CompleteMark, jobVars, SameRows
<1>4. ASSUME NEW c \in Calls, CompleteClose(c) PROVE SameRows
    BY <1>4 DEF CompleteClose, spawnVars, SameRows
<1>5. ASSUME NEW c \in Crons, ReapStale(c) PROVE SameRows
    BY <1>5 DEF ReapStale, jobVars, SameRows
<1>6. ASSUME NEW c \in Crons, ReapFinalise(c) PROVE SameRows
    BY <1>6 DEF ReapFinalise, SameRows
<1>7. ASSUME NEW c \in Crons, ReapOrphans(c) PROVE SameRows
    BY <1>7 DEF ReapOrphans, spawnVars, SameRows
<1>8. ASSUME NEW c \in Crons, ReapStopping(c) PROVE SameRows
    BY <1>8 DEF ReapStopping, spawnVars, SameRows
<1>9. ASSUME NEW j \in Jobs, StopJob(j) PROVE SameRows
    BY <1>9 DEF StopJob, spawnVars, SameRows
<1>10. ASSUME NEW j \in Jobs, NEW a \in Agents, CompleteError(j, a) PROVE SameRows
  <2>1. spawnStatus[j][a] # "NONE"
    BY <1>10 DEF CompleteError, Granted, GrantsMatch
  <2> QED
    BY <1>10, <2>1 DEF CompleteError, SameRows
<1> HIDE DEF TypeInv, TypeOK
<1> QED
    BY <1>1, <1>2, <1>3, <1>4, <1>5, <1>6, <1>7, <1>8, <1>9, <1>10, QuietOrWrite
    DEF HandlerWrite, SweepWrite

\* A start fills in the columns of an unused job id and of no other.
LEMMA StartEffect ==
    ASSUME TypeInv, NEW c \in Calls, StartInsert(c)
    PROVE  /\ UNCHANGED <<spawnStatus, slot, grants>>
           /\ \E j \in Jobs :
                /\ jobStatus[j] = "NONE"
                /\ jobStatus' = [jobStatus EXCEPT ![j] = "QUEUED"]
                /\ req'[j].agents \in Nat
                /\ \A k \in Jobs \ {j} : req'[k] = req[k]
<1>1. ValidRequest(call[c].req) /\ call[c] \in CallType
    BY DEF StartInsert, TypeInv, TypeOK, LocalsOK, LocalOK
<1>2. call[c].req.agents \in Nat
    BY <1>1, ValidRequestType DEF CallType
<1> QED
    BY <1>2 DEF StartInsert, spawnVars, TypeInv, TypeOK

\* Spawns belong to jobs that exist.
LEMMA SpawnsNeedJobStep ==
    ASSUME TableInv, [Next]_vars
    PROVE  SpawnsNeedJob'
<1>0. Stable /\ TypeInv
    BY StableStep DEF TableInv
<1>1. CASE SameRows
    BY <1>0, <1>1 DEF SameRows, TableInv, SpawnsNeedJob, Stable
<1>2. ASSUME NEW c \in Calls, StartInsert(c) PROVE SpawnsNeedJob'
  <2>1. UNCHANGED spawnStatus
    BY <1>0, <1>2, StartEffect
  <2> QED
    BY <1>0, <2>1 DEF TableInv, SpawnsNeedJob, Stable
<1>3. ASSUME NEW c \in Calls, PollClaim(c) PROVE SpawnsNeedJob'
  <2>1. jobStatus[call[c].job] # "NONE"
    BY <1>3 DEF TableInv, AllReadsHold, ReadsHold, PollClaim
  <2> DEFINE j == call[c].job
             a == call[c].agent
  <2>2. /\ UNCHANGED jobStatus
        /\ \A k \in Jobs, b \in Agents : spawnStatus'[k][b] # "NONE"
                => k = j \/ spawnStatus[k][b] # "NONE"
    BY <1>0, <1>3, ClaimEffect
  <2> QED
    BY <2>1, <2>2 DEF TableInv, SpawnsNeedJob
<1> QED
    BY <1>1, <1>2, <1>3, RowEffects DEF TableInv

\* The claim's count is one more than any slot in use, so the new row is the
\* next one; nothing else touches slots.
LEMMA SlotsDenseStep ==
    ASSUME TableInv, [Next]_vars
    PROVE  SlotsDense'
<1>0. TypeInv /\ SlotsDense
    BY DEF TableInv
<1>1. CASE SameRows
  <2>1. \A j \in Jobs : SpawnsOf(j)' = SpawnsOf(j)
    BY <1>1 DEF SameRows, SpawnsOf
  <2> QED
    BY <1>0, <1>1, <2>1 DEF SameRows, SlotsDense
<1>2. ASSUME NEW c \in Calls, StartInsert(c) PROVE SlotsDense'
  <2>1. UNCHANGED <<spawnStatus, slot>>
    BY <1>0, <1>2, StartEffect
  <2>2. PICK j \in Jobs : /\ jobStatus[j] = "NONE"
                          /\ req'[j].agents \in Nat
                          /\ \A k \in Jobs \ {j} : req'[k] = req[k]
    BY <1>0, <1>2, StartEffect
  <2>3. SpawnsOf(j) = {}
    BY <2>2 DEF TableInv, SpawnsNeedJob, SpawnsOf
  <2>4. Cardinality(SpawnsOf(j)) = 0
    BY <2>3, FS_EmptySet
  <2>5. \A k \in Jobs : SpawnsOf(k)' = SpawnsOf(k)
    BY <2>1 DEF SpawnsOf
  <2>6. \A k \in Jobs : Cardinality(SpawnsOf(k)') <= req'[k].agents
    BY <1>0, <2>2, <2>4, <2>5 DEF SlotsDense
  <2> QED
    BY <1>0, <2>1, <2>5, <2>6 DEF SlotsDense
<1>3. ASSUME NEW c \in Calls, PollClaim(c) PROVE SlotsDense'
  <2>1. PICK j \in Jobs, a \in Agents :
        /\ UNCHANGED req
        /\ \/ UNCHANGED <<spawnStatus, slot>>
           \/ /\ Cardinality(SpawnsOf(j)) < req[j].agents
              /\ spawnStatus[j][a] = "NONE"
              /\ \A k \in Jobs, b \in Agents :
                    /\ spawnStatus'[k][b] = IF k = j /\ b = a THEN "RUNNING" ELSE spawnStatus[k][b]
                    /\ slot'[k][b] = IF k = j /\ b = a THEN Cardinality(SpawnsOf(j)) ELSE slot[k][b]
    BY <1>0, <1>3, ClaimEffect, Zenon
  <2> DEFINE n == Cardinality(SpawnsOf(j))
  <2>2. CASE UNCHANGED <<spawnStatus, slot>>
    <3>1. \A k \in Jobs : SpawnsOf(k)' = SpawnsOf(k)
      BY <2>2 DEF SpawnsOf
    <3> QED
      BY <1>0, <2>1, <2>2, <3>1 DEF SlotsDense
  <2>3. CASE ~UNCHANGED <<spawnStatus, slot>>
    <3>0. IsFiniteSet(SpawnsOf(j)) /\ n \in Nat
      BY SpawnCount
    <3>1. SpawnsOf(j)' = SpawnsOf(j) \union {a} /\ a \notin SpawnsOf(j)
      BY <2>1, <2>3 DEF SpawnsOf
    <3>2. \A k \in Jobs \ {j} : SpawnsOf(k)' = SpawnsOf(k)
      BY <2>1, <2>3 DEF SpawnsOf
    <3>3. Cardinality(SpawnsOf(j)') = n + 1
      BY <3>0, <3>1, FS_AddElement
    <3>4. ASSUME NEW k \in Jobs \ {j}
          PROVE  /\ Cardinality(SpawnsOf(k)') <= req'[k].agents
                 /\ \A x \in SpawnsOf(k)' : slot'[k][x] < Cardinality(SpawnsOf(k)')
                 /\ \A x, y \in SpawnsOf(k)' : slot'[k][x] = slot'[k][y] => x = y
      <4>1. \A x \in SpawnsOf(k) : slot'[k][x] = slot[k][x]
        BY <2>1, <2>3 DEF SpawnsOf
      <4> QED
        BY <1>0, <2>1, <3>2, <4>1 DEF SlotsDense
    <3>5. req[j].agents \in Int
      BY <1>0, <2>1, ConstantsAssumption DEF TypeInv, TypeOK, RequestType, NoRequest
    <3>6. Cardinality(SpawnsOf(j)') <= req'[j].agents
      BY <2>1, <2>3, <3>0, <3>3, <3>5
    <3>7. \A x \in SpawnsOf(j) : slot'[j][x] = slot[j][x] /\ slot[j][x] < n /\ slot[j][x] \in Nat
      <4>1. \A x \in SpawnsOf(j) : x \in Agents /\ x # a
        BY <3>1 DEF SpawnsOf
      <4>2. \A x \in SpawnsOf(j) : slot'[j][x] = slot[j][x]
        BY <2>1, <2>3, <4>1
      <4>3. \A x \in SpawnsOf(j) : slot[j][x] \in Nat
        BY <1>0, <4>1 DEF TypeInv, TypeOK
      <4>4. \A x \in SpawnsOf(j) : slot[j][x] < n
        BY <1>0 DEF SlotsDense
      <4> QED
        BY <4>2, <4>3, <4>4
    <3>8. slot'[j][a] = n
      BY <2>1, <2>3
    <3>9. \A x, y \in SpawnsOf(j) : slot[j][x] = slot[j][y] => x = y
      BY <1>0, <2>1 DEF SlotsDense
    <3> HIDE DEF n
    <3>11. /\ \A x \in SpawnsOf(j)' : slot'[j][x] < n + 1
           /\ \A x, y \in SpawnsOf(j)' : slot'[j][x] = slot'[j][y] => x = y
      BY <3>1, <3>7, <3>8, <3>9, <3>0
    <3>12. \A k \in Jobs :
             /\ Cardinality(SpawnsOf(k)') <= req'[k].agents
             /\ \A x \in SpawnsOf(k)' : slot'[k][x] < Cardinality(SpawnsOf(k)')
             /\ \A x, y \in SpawnsOf(k)' : slot'[k][x] = slot'[k][y] => x = y
      BY <3>3, <3>4, <3>6, <3>11
    <3> QED
      BY <3>12 DEF SlotsDense
  <2> QED
    BY <2>2, <2>3
<1> QED
    BY <1>1, <1>2, <1>3, RowEffects DEF TableInv

\* Grants are only added by the answer to a poll.
LEMMA OnlyPollsGrant ==
    ASSUME [Next]_vars
    PROVE  UNCHANGED grants \/ \E c \in Calls : PollPromote(c)
<1>1. ASSUME NEW c \in Calls, HandlerWrite(c) PROVE PollPromote(c) \/ UNCHANGED grants
  BY <1>1 DEF HandlerWrite, StartInsert, PollClaim, CompleteMark, CompleteClose
<1>2. ASSUME NEW c \in Crons, SweepWrite(c) PROVE UNCHANGED grants
  BY <1>2 DEF SweepWrite, ReapStale, ReapFinalise, ReapOrphans, ReapStopping
<1>3. ASSUME NEW j \in Jobs, StopJob(j) PROVE UNCHANGED grants
  BY <1>3 DEF StopJob
<1>4. ASSUME NEW j \in Jobs, NEW a \in Agents, CompleteError(j, a) PROVE UNCHANGED grants
  BY <1>4 DEF CompleteError
<1> QED
  BY <1>1, <1>2, <1>3, <1>4, QuietOrWrite DEF Quiet

\* A grant repeats what the poll read; the row, its slot and the job's request
\* never change afterwards.
LEMMA GrantsMatchStep ==
    ASSUME TableInv, [Next]_vars
    PROVE  GrantsMatch'
<1>0. Stable /\ TypeInv /\ GrantsMatch /\ SpawnsNeedJob
    BY StableStep DEF TableInv
<1>1. ASSUME NEW g \in grants
      PROVE  /\ spawnStatus'[g.job][g.agent] # "NONE"
             /\ g.slot = slot'[g.job][g.agent]
             /\ g.rps = rps_for_slot(req'[g.job].rps, req'[g.job].agents, g.slot)
  <2>1. g.job \in Jobs /\ g.agent \in Agents
    BY <1>0 DEF TypeInv, TypeOK, GrantType
  <2>2. spawnStatus[g.job][g.agent] # "NONE" /\ jobStatus[g.job] # "NONE"
    BY <1>0, <2>1 DEF GrantsMatch, SpawnsNeedJob
  <2> QED
    BY <1>0, <2>1, <2>2 DEF GrantsMatch, Stable
<1>2. ASSUME NEW c \in Calls, PollPromote(c) PROVE GrantsMatch'
  <2> DEFINE g == [job |-> call[c].job, agent |-> call[c].agent, slot |-> call[c].slot,
                   rps |-> rps_for_slot(req[call[c].job].rps, req[call[c].job].agents,
                                        call[c].slot)]
  <2>1. /\ UNCHANGED <<req, spawnStatus, slot>>
        /\ grants' = grants \union {g}
    BY <1>2 DEF PollPromote, spawnVars
  <2>2. /\ spawnStatus[call[c].job][call[c].agent] # "NONE"
        /\ call[c].slot = slot[call[c].job][call[c].agent]
    BY <1>2 DEF PollPromote, TableInv, AllReadsHold, ReadsHold
  <2>3. /\ spawnStatus'[g.job][g.agent] # "NONE"
        /\ g.slot = slot'[g.job][g.agent]
        /\ g.rps = rps_for_slot(req'[g.job].rps, req'[g.job].agents, g.slot)
    BY <2>1, <2>2
  <2> QED
    BY <1>1, <2>1, <2>3 DEF GrantsMatch
<1>3. CASE UNCHANGED grants
    BY <1>1, <1>3 DEF GrantsMatch
<1>4. UNCHANGED grants \/ \E c \in Calls : PollPromote(c)
    BY OnlyPollsGrant
<1> QED
    BY <1>2, <1>3, <1>4

\* A job is only promoted by, or completed with, a spawn that is still there.
LEMMA CompletedHasSpawnStep ==
    ASSUME TableInv, [Next]_vars
    PROVE  CompletedHasSpawn'
<1>0. Stable /\ TypeInv /\ CompletedHasSpawn
    BY StableStep DEF TableInv
<1> DEFINE Shown(s) == s \in {"RUNNING", "COMPLETED"}
           Has(j) == \E a \in Agents : spawnStatus[j][a] # "NONE"
<1>1. SUFFICES ASSUME NEW j \in Jobs, Shown(jobStatus'[j]), ~Shown(jobStatus[j])
               PROVE  Has(j)
  <2>1. \A j \in Jobs : Shown(jobStatus'[j]) => Has(j)
    BY <1>0, <1>1 DEF CompletedHasSpawn, SpawnsOf
  <2> QED
    BY <1>0, <2>1 DEF CompletedHasSpawn, SpawnsOf, Stable
<1> USE DEF TypeInv, TypeOK
<1>2. CASE Quiet
    BY <1>1, <1>2 DEF Quiet
<1>3. ASSUME NEW c \in Calls, StartInsert(c) PROVE Has(j)
    BY <1>0, <1>1, <1>3 DEF StartInsert
<1>4. ASSUME NEW c \in Calls, PollClaim(c) PROVE Has(j)
    BY <1>1, <1>4 DEF PollClaim, jobVars
<1>5. ASSUME NEW c \in Calls, PollPromote(c) PROVE Has(j)
  <2>1. /\ call[c].agent \in Agents
        /\ spawnStatus[call[c].job][call[c].agent] # "NONE"
    BY <1>0, <1>5 DEF PollPromote, LocalsOK, LocalOK, HandlerPcs, TableInv, AllReadsHold, ReadsHold
  <2> QED
    BY <1>0, <1>1, <1>5, <2>1 DEF PollPromote, Promote
<1>6. ASSUME NEW c \in Calls, CompleteMark(c) PROVE Has(j)
    BY <1>1, <1>6 DEF CompleteMark, jobVars
<1>7. ASSUME NEW c \in Calls, CompleteClose(c) PROVE Has(j)
  <2>1. /\ call[c].agent \in Agents
        /\ spawnStatus[call[c].job][call[c].agent] # "NONE"
    BY <1>0, <1>7 DEF CompleteClose, LocalsOK, LocalOK, HandlerPcs, TableInv, AllReadsHold, ReadsHold
  <2> QED
    BY <1>0, <1>1, <1>7, <2>1 DEF CompleteClose
<1>8. ASSUME NEW c \in Crons, ReapStale(c) PROVE Has(j)
    BY <1>1, <1>8 DEF ReapStale, jobVars
<1>9. ASSUME NEW c \in Crons, ReapFinalise(c) PROVE Has(j)
  <2>1. /\ call[c].status \in {"COMPLETED", "FAILED"}
        /\ call[c].status = "COMPLETED" => Has(call[c].job)
    BY <1>0, <1>9 DEF ReapFinalise, LocalsOK, LocalOK, TableInv, AllReadsHold, ReadsHold
  <2> QED
    BY <1>0, <1>1, <1>9, <2>1 DEF ReapFinalise, Close
<1>10. ASSUME NEW c \in Crons, ReapOrphans(c) PROVE Has(j)
    BY <1>1, <1>10 DEF ReapOrphans
<1>11. ASSUME NEW c \in Crons, ReapStopping(c) PROVE Has(j)
    BY <1>1, <1>11 DEF ReapStopping
<1>12. ASSUME NEW k \in Jobs, StopJob(k) PROVE Has(j)
    BY <1>0, <1>1, <1>12 DEF StopJob
<1>13. ASSUME NEW k \in Jobs, NEW a \in Agents, CompleteError(k, a) PROVE Has(j)
    BY <1>0, <1>1, <1>13 DEF CompleteError
<1> HIDE DEF TypeInv, TypeOK
<1> QED
    BY <1>2, <1>3, <1>4, <1>5, <1>6, <1>7, <1>8, <1>9, <1>10, <1>11, <1>12,
       <1>13, QuietOrWrite DEF HandlerWrite, SweepWrite

\* The inductive invariant of the tables and of what activations rely on.
THEOREM TablesInvariant == Spec => []TableInv
<1>1. Init => TableInv
  <2> SUFFICES ASSUME Init PROVE TableInv
    OBVIOUS
  <2>1. TypeInv
    BY NoCallType DEF Init, TypeInv, TypeOK, LocalsOK, JobStatuses, SpawnStatuses
  <2>2. \A j \in Jobs : SpawnsOf(j) = {}
    BY DEF Init, SpawnsOf
  <2>3. \A j \in Jobs : Cardinality(SpawnsOf(j)) = 0
    BY <2>2, FS_EmptySet
  <2>4. SlotsDense
    BY <2>2, <2>3 DEF Init, SlotsDense, NoRequest
  <2>5. AllReadsHold
    BY DEF Init, AllReadsHold, ReadsHold, NoCall
  <2> QED
    BY <2>1, <2>4, <2>5 DEF Init, TableInv, SpawnsNeedJob, GrantsMatch, CompletedHasSpawn
<1>2. TableInv /\ [Next]_vars => TableInv'
    BY TypeInvStep, SpawnsNeedJobStep, ReadsStep, GrantsMatchStep, SlotsDenseStep,
       CompletedHasSpawnStep DEF TableInv
<1> QED
    BY <1>1, <1>2, PTL DEF Spec

\* However polls, retries and sweeps interleave, the slots of a job are dense,
\* distinct and at most AGENTS: agent_poll's claim oversubscribes no job and
\* never trips the UNIQUE index.
THEOREM SlotsAreDense == Spec => []SlotsDense
BY TablesInvariant, PTL DEF TableInv

\* Every "run" response of agent_poll agrees with the row in JOB_SPAWNS and
\* with the job's split of the target rate, for as long as the job exists.
THEOREM GrantsAgree == Spec => []GrantsMatch
BY TablesInvariant, PTL DEF TableInv

\* A job that no agent joined is never shown as RUNNING or COMPLETED.
THEOREM CompletedRan == Spec => []CompletedHasSpawn
BY TablesInvariant, PTL DEF TableInv

\* A spawn keeps its row and its slot, and once it left RUNNING no statement
\* writes RUNNING to it again.
THEOREM SpawnsStayDone == Spec => SpawnsNeverRevive
<1> DEFINE Revival == \A j \in Jobs, a \in Agents :
            spawnStatus[j][a] # "NONE"
            => /\ slot'[j][a] = slot[j][a]
               /\ spawnStatus'[j][a] # "NONE"
               /\ spawnStatus'[j][a] = "RUNNING" => spawnStatus[j][a] = "RUNNING"
<1>1. TableInv /\ [Next]_vars => [Revival]_vars
  <2> SUFFICES ASSUME TableInv, [Next]_vars PROVE Revival
    OBVIOUS
  <2>0. TypeInv /\ Stable
    BY StableStep DEF TableInv
  <2> SUFFICES ASSUME NEW j \in Jobs, NEW a \in Agents, spawnStatus[j][a] # "NONE",
                      spawnStatus'[j][a] = "RUNNING"
               PROVE  spawnStatus[j][a] = "RUNNING"
    BY <2>0 DEF Stable
  <2>1. CASE UNCHANGED spawnStatus
    BY <2>1
  <2>2. ASSUME NEW c \in Calls, HandlerWrite(c) PROVE spawnStatus[j][a] = "RUNNING"
    <3>1. CASE StartInsert(c) \/ PollPromote(c) \/ CompleteClose(c)
      BY <2>1, <3>1 DEF StartInsert, PollPromote, CompleteClose, spawnVars
    <3>2. CASE PollClaim(c)
      BY <2>0, <3>2, ClaimEffect
    <3>3. CASE CompleteMark(c)
      <4>1. call[c].status # "RUNNING"
        BY <2>0, <3>3 DEF CompleteMark, TypeInv, LocalsOK, LocalOK
      <4> QED
        BY <2>0, <3>3, <4>1 DEF CompleteMark, TypeInv, TypeOK
    <3> QED
      BY <2>2, <3>1, <3>2, <3>3 DEF HandlerWrite
  <2>3. ASSUME NEW c \in Crons, SweepWrite(c) PROVE spawnStatus[j][a] = "RUNNING"
    <3>1. CASE ReapOrphans(c) \/ ReapStopping(c)
      BY <2>1, <3>1 DEF ReapOrphans, ReapStopping, spawnVars
    <3>2. CASE ReapStale(c)
      BY <2>0, <3>2 DEF ReapStale, TypeInv, TypeOK
    <3>3. CASE ReapFinalise(c)
      BY <2>0, <3>3 DEF ReapFinalise, TypeInv, TypeOK
    <3> QED
      BY <2>3, <3>1, <3>2, <3>3 DEF SweepWrite
  <2>4. ASSUME NEW k \in Jobs, StopJob(k) PROVE spawnStatus[j][a] = "RUNNING"
    BY <2>1, <2>4 DEF StopJob, spawnVars
  <2>5. ASSUME NEW k \in Jobs, NEW b \in Agents, CompleteError(k, b)
        PROVE  spawnStatus[j][a] = "RUNNING"
    BY <2>0, <2>5 DEF CompleteError, TypeInv, TypeOK
  <2>6. CASE Quiet
    BY <2>1, <2>6 DEF Quiet
  <2> QED
    BY <2>2, <2>3, <2>4, <2>5, <2>6, QuietOrWrite
<1> QED
    BY <1>1, TablesInvariant, PTL DEF Spec, SpawnsNeverRevive

-----------------------------------------------------------------------------
(* The lifecycle *)

\* Each statement moves a job along an edge or leaves it alone.
LEMMA EdgeStep ==
    ASSUME TableInv, [Next]_vars, NEW j \in Jobs
    PROVE  jobStatus'[j] = jobStatus[j] \/ Lifecycle!Edge(jobStatus[j], jobStatus'[j])
<1>0. TypeInv
    BY DEF TableInv
<1> DEFINE Moves == jobStatus'[j] = jobStatus[j] \/ Lifecycle!Edge(jobStatus[j], jobStatus'[j])
<1> USE DEF Lifecycle!Edge, TypeInv, TypeOK
<1>1. CASE UNCHANGED jobStatus
    BY <1>1
<1>2. ASSUME NEW c \in Calls, StartInsert(c) PROVE Moves
    BY <1>0, <1>2 DEF StartInsert
<1>3. ASSUME NEW c \in Calls, PollPromote(c) PROVE Moves
    BY <1>0, <1>3 DEF PollPromote, Promote
<1>4. ASSUME NEW c \in Calls, CompleteClose(c) PROVE Moves
  <2>1. /\ call[c].status \in {"COMPLETED", "STOPPED"}
        /\ call[c].status = "STOPPED"
            => jobStatus[call[c].job] \in {"STOPPING"} \union TERMINAL_STATUSES
    BY <1>0, <1>4 DEF CompleteClose, LocalsOK, LocalOK, TableInv, AllReadsHold, ReadsHold
  <2>2. jobStatus'[j] = IF j = call[c].job THEN Close(jobStatus[j], call[c].status)
                                           ELSE jobStatus[j]
    BY <1>0, <1>4 DEF CompleteClose
  <2> QED
    BY <2>1, <2>2 DEF Close, LIVE_STATUSES, ACTIVE_STATUSES, TERMINAL_STATUSES
<1>5. ASSUME NEW c \in Crons, ReapFinalise(c) PROVE Moves
  <2>1. call[c].status \in {"COMPLETED", "FAILED"}
    BY <1>0, <1>5 DEF ReapFinalise, LocalsOK, LocalOK
  <2>2. jobStatus'[j] = IF j = call[c].job THEN Close(jobStatus[j], call[c].status)
                                           ELSE jobStatus[j]
    BY <1>0, <1>5 DEF ReapFinalise
  <2> QED
    BY <2>1, <2>2 DEF Close, LIVE_STATUSES, ACTIVE_STATUSES
<1>6. ASSUME NEW c \in Crons, ReapOrphans(c) PROVE Moves
    BY <1>0, <1>6 DEF ReapOrphans
<1>7. ASSUME NEW c \in Crons, ReapStopping(c) PROVE Moves
    BY <1>0, <1>7 DEF ReapStopping
<1>8. ASSUME NEW k \in Jobs, StopJob(k) PROVE Moves
    BY <1>0, <1>8 DEF StopJob, LIVE_STATUSES, ACTIVE_STATUSES
<1>9. ASSUME NEW k \in Jobs, NEW a \in Agents, CompleteError(k, a) PROVE Moves
    BY <1>0, <1>9 DEF CompleteError, ACTIVE_STATUSES
<1>10. ASSUME NEW c \in Calls, PollClaim(c) \/ CompleteMark(c) PROVE Moves
    BY <1>1, <1>10 DEF PollClaim, CompleteMark, jobVars
<1>11. ASSUME NEW c \in Crons, ReapStale(c) PROVE Moves
    BY <1>1, <1>11 DEF ReapStale, jobVars
<1>12. ASSUME Quiet PROVE Moves
    BY <1>1, <1>12 DEF Quiet
<1> HIDE DEF TypeInv, TypeOK, Moves, Lifecycle!Edge
<1>13. ASSUME NEW c \in Calls, HandlerWrite(c) PROVE Moves
    BY <1>13, <1>2, <1>3, <1>4, <1>10 DEF HandlerWrite
<1>14. ASSUME NEW c \in Crons, SweepWrite(c) PROVE Moves
    BY <1>14, <1>5, <1>6, <1>7, <1>11 DEF SweepWrite
<1>15. \/ Quiet
       \/ \E c \in Calls : HandlerWrite(c)
       \/ \E c \in Crons : SweepWrite(c)
       \/ \E k \in Jobs : StopJob(k)
       \/ \E k \in Jobs, a \in Agents : CompleteError(k, a)
    BY QuietOrWrite
<1>16. Moves
    BY <1>8, <1>9, <1>12, <1>13, <1>14, <1>15
<1> QED
    BY <1>16 DEF Moves

\* The control plane implements the job lifecycle: no interleaving of starts,
\* stops, polls, reports and sweeps takes a job off its edges.
THEOREM LifecycleRefined == Spec => ImplementsLifecycle
<1>1. Init => Lifecycle!Init
    BY DEF Init, Lifecycle!Init
<1>2. TableInv /\ TableInv' /\ [Next]_vars => [Lifecycle!Next]_jobStatus
  <2> SUFFICES ASSUME TableInv, TableInv', [Next]_vars, jobStatus' # jobStatus
               PROVE  Lifecycle!Next
    OBVIOUS
  <2>1. jobStatus \in [Jobs -> JobStatuses] /\ jobStatus' \in [Jobs -> JobStatuses]
    BY DEF TableInv, TypeInv, TypeOK
  <2> DEFINE moved == {j \in Jobs : jobStatus'[j] # jobStatus[j]}
  <2>2. moved \in (SUBSET Jobs) \ {{}}
    <3>1. moved # {}
      BY <2>1
    <3> QED
      BY <3>1
  <2>3. jobStatus' \in [Jobs -> Lifecycle!JobStatuses]
    BY <2>1 DEF JobStatuses, LIVE_STATUSES, ACTIVE_STATUSES, TERMINAL_STATUSES,
       Lifecycle!JobStatuses, Lifecycle!LIVE_STATUSES, Lifecycle!TERMINAL_STATUSES
  <2>4. Lifecycle!Move(moved)
    BY <2>3, EdgeStep DEF Lifecycle!Move
  <2> QED
    BY <2>2, <2>4 DEF Lifecycle!Next
<1> QED
    BY <1>1, <1>2, TablesInvariant, PTL DEF Spec, Lifecycle!Spec, ImplementsLifecycle

-----------------------------------------------------------------------------
(* The last completion report closes the job *)

\* The two halves of LastOneCloses for one job: its spawns have all landed,
\* and some report is about to count them and close it.
Landed(j) ==
    /\ jobStatus[j] \in LIVE_STATUSES
    /\ SpawnsOf(j) # {}
    /\ \A a \in SpawnsOf(j) : spawnStatus[j][a] \in {"COMPLETED", "STOPPED"}

ClosingPcs == {"complete_count", "complete_close"}
Closing(j) == \E c \in Calls : call[c].pc \in ClosingPcs /\ call[c].job = j

\* A report that is about to close stays so while other activations move.
LEMMA ClosingStays ==
    ASSUME TypeInv, NEW j \in Jobs, Closing(j), NEW c \in Calls \union Crons, NEW l,
           Goto(c, l), c \in Crons \/ call[c].pc \notin ClosingPcs \/ call[c].job # j
    PROVE  Closing(j)'
<1>1. PICK d \in Calls : call[d].pc \in ClosingPcs /\ call[d].job = j
    BY DEF Closing
<1>2. c # d
    BY <1>1, ConstantsAssumption
<1>3. call'[d] = call[d]
    BY <1>2 DEF Goto, TypeInv, TypeOK
<1> QED
    BY <1>1, <1>3 DEF Closing

\* Marking the spawn comes before counting the others, so the last to be marked
\* sees none running; a sweep that marks spawns closes the job with them.
LEMMA LastOneStep ==
    ASSUME TableInv, ~MayFail, [Next]_vars, NEW j \in Jobs,
           Landed(j) => Closing(j), Landed(j)'
    PROVE  Closing(j)'
<1>0. TypeInv /\ TypeOK /\ Stable
    BY StableStep DEF TableInv, TypeInv
<1>a. ASSUME UNCHANGED <<jobStatus, spawnStatus>> PROVE Closing(j)
    BY <1>a DEF Landed, SpawnsOf
<1>b. ASSUME NEW c \in Calls \union Crons, NEW l, Goto(c, l), Closing(j),
             c \in Crons \/ call[c].pc \notin ClosingPcs \/ call[c].job # j
      PROVE  Closing(j)'
    BY <1>0, <1>b, ClosingStays
<1>c. ASSUME UNCHANGED call, Closing(j) PROVE Closing(j)'
    BY <1>c DEF Closing
<1>1. ASSUME NEW c \in Calls, StartCheck(c) PROVE Closing(j)'
  <2>1. PICK q \in Requests :
        Goto(c, [NoCall EXCEPT !.pc = "start_insert", !.req = q, !.now = clock])
    BY <1>1, Zenon DEF StartCheck
  <2>2. call[c].pc \notin ClosingPcs
    BY <1>1 DEF StartCheck, ClosingPcs
  <2>3. Closing(j)
    BY <1>a, <1>1 DEF StartCheck, jobVars, spawnVars
  <2> QED
    BY <1>b, <2>1, <2>2, <2>3
<1>2. ASSUME NEW c \in Calls, StartInsert(c) PROVE Closing(j)'
  <2>1. UNCHANGED spawnStatus /\ \E k \in Jobs : /\ jobStatus[k] = "NONE"
                           /\ jobStatus' = [jobStatus EXCEPT ![k] = "QUEUED"]
    BY <1>0, <1>2, StartEffect
  <2>2. jobStatus[j] # "NONE"
    BY <2>1 DEF Landed, SpawnsOf, TableInv, SpawnsNeedJob
  <2>3. jobStatus'[j] = jobStatus[j]
    BY <1>0, <2>1, <2>2 DEF TypeOK
  <2>4. Closing(j)
    BY <2>1, <2>3 DEF Landed, SpawnsOf
  <2> QED
    BY <1>b, <1>2, <2>4 DEF StartInsert, Return, ClosingPcs
<1>3. ASSUME NEW c \in Calls, NEW a \in Agents, PollSelectJob(c, a) PROVE Closing(j)'
  <2>1. PICK k \in Jobs :
        Goto(c, [NoCall EXCEPT !.pc = "poll_spawn", !.job = k, !.agent = a,
                               !.status = jobStatus[k], !.until = stopAt[k],
                               !.now = clock])
    BY <1>3, Zenon DEF PollSelectJob
  <2>2. call[c].pc \notin ClosingPcs
    BY <1>3 DEF PollSelectJob, ClosingPcs
  <2>3. Closing(j)
    BY <1>a, <1>3 DEF PollSelectJob, jobVars, spawnVars
  <2> QED
    BY <1>b, <2>1, <2>2, <2>3
<1>4. ASSUME NEW c \in Calls, PollSelectSpawn(c) PROVE Closing(j)'
  <2>1. \E l : Goto(c, l)
    BY <1>4, Zenon DEF PollSelectSpawn, Return
  <2>2. call[c].pc \notin ClosingPcs
    BY <1>4 DEF PollSelectSpawn, ClosingPcs
  <2>3. Closing(j)
    BY <1>a, <1>4 DEF PollSelectSpawn, jobVars, spawnVars
  <2> QED
    BY <1>b, <2>1, <2>2, <2>3
<1>5. ASSUME NEW c \in Calls, PollTouch(c) PROVE Closing(j)'
  <2>1. Goto(c, [call[c] EXCEPT !.pc = "poll_promote", !.now = 0])
    BY <1>5, Zenon DEF PollTouch
  <2>2. call[c].pc \notin ClosingPcs
    BY <1>5 DEF PollTouch, ClosingPcs
  <2>3. Closing(j)
    BY <1>a, <1>5 DEF PollTouch, jobVars
  <2> QED
    BY <1>b, <2>1, <2>2, <2>3
<1>6. ASSUME NEW c \in Calls, PollClaim(c) PROVE Closing(j)'
  <2>1. Goto(c, [call[c] EXCEPT !.pc = "poll_read", !.now = 0])
    BY <1>6, Zenon DEF PollClaim
  <2>2. call[c].pc \notin ClosingPcs
    BY <1>6 DEF PollClaim, ClosingPcs
  <2>3. PICK k \in Jobs, a \in Agents :
        /\ UNCHANGED jobStatus
        /\ \/ UNCHANGED spawnStatus
           \/ \A i \in Jobs, b \in Agents :
                spawnStatus'[i][b] = IF i = k /\ b = a THEN "RUNNING" ELSE spawnStatus[i][b]
    <3>1. /\ UNCHANGED jobStatus /\ call[c].job \in Jobs /\ call[c].agent \in Agents
          /\ \/ UNCHANGED spawnStatus
             \/ \A i \in Jobs, b \in Agents :
                  spawnStatus'[i][b] = IF i = call[c].job /\ b = call[c].agent
                                       THEN "RUNNING" ELSE spawnStatus[i][b]
      BY <1>0, <1>6, ClaimEffect
    <3> QED
      BY <3>1, Zenon
  <2>4. CASE UNCHANGED spawnStatus
    BY <1>a, <1>b, <2>1, <2>2, <2>3, <2>4
  <2>5. CASE ~UNCHANGED spawnStatus
    <3>1. k # j
      <4>1. spawnStatus'[k][a] = "RUNNING"
        BY <2>3, <2>5
      <4> QED
        BY <4>1 DEF Landed, SpawnsOf
    <3>2. \A b \in Agents : spawnStatus'[j][b] = spawnStatus[j][b]
      BY <2>3, <2>5, <3>1
    <3>3. SpawnsOf(j)' = SpawnsOf(j)
      BY <3>2 DEF SpawnsOf
    <3>4. Landed(j)
      BY <2>3, <3>2, <3>3 DEF Landed, SpawnsOf
    <3> QED
      BY <1>b, <2>1, <2>2, <3>4
  <2> QED
    BY <2>4, <2>5
<1>7. ASSUME NEW c \in Calls, PollReadSlot(c) PROVE Closing(j)'
  <2>1. \E l : Goto(c, l)
    BY <1>7, Zenon DEF PollReadSlot, Return
  <2>2. call[c].pc \notin ClosingPcs
    BY <1>7 DEF PollReadSlot, ClosingPcs
  <2>3. Closing(j)
    BY <1>a, <1>7 DEF PollReadSlot, jobVars, spawnVars
  <2> QED
    BY <1>b, <2>1, <2>2, <2>3
<1>8. ASSUME NEW c \in Calls, PollPromote(c) PROVE Closing(j)'
  <2>1. Goto(c, NoCall) /\ UNCHANGED spawnStatus
    BY <1>8 DEF PollPromote, Return, spawnVars
  <2>2. call[c].pc \notin ClosingPcs
    BY <1>8 DEF PollPromote, ClosingPcs
  <2>3. jobStatus'[j] \in LIVE_STATUSES => jobStatus[j] \in LIVE_STATUSES
    BY <1>0, <1>8 DEF PollPromote, Promote, TypeOK, LIVE_STATUSES, ACTIVE_STATUSES
  <2>4. Landed(j)
    BY <2>1, <2>3 DEF Landed, SpawnsOf
  <2> QED
    BY <1>b, <2>1, <2>2, <2>4
<1>9. ASSUME NEW c \in Calls, NEW k \in Jobs, NEW a \in Agents, CompleteRead(c, k, a)
      PROVE  Closing(j)'
  <2>1. \E l : Goto(c, l)
    BY <1>9, Zenon DEF CompleteRead, CompletionRead
  <2>2. call[c].pc \notin ClosingPcs
    BY <1>9 DEF CompleteRead, CompletionRead, ClosingPcs
  <2>3. Closing(j)
    BY <1>a, <1>9 DEF CompleteRead, CompletionRead, jobVars, spawnVars
  <2> QED
    BY <1>b, <2>1, <2>2, <2>3
<1>10. ASSUME NEW c \in Calls, CompleteMark(c) PROVE Closing(j)'
  <2> DEFINE l == [call[c] EXCEPT !.pc = "complete_count"]
  <2>1. Goto(c, l)
    BY <1>10, Zenon DEF CompleteMark
  <2>2. CASE call[c].job = j
    <3>1. l.pc = "complete_count" /\ l.job = j
      BY <1>0, <2>2 DEF TypeOK, CallType
    <3>2. call'[c] = l
      BY <1>0, <2>1 DEF Goto, TypeOK
    <3> QED
      BY <3>1, <3>2 DEF Closing, ClosingPcs
  <2>3. CASE call[c].job # j
    <3>1. spawnStatus'[j] = spawnStatus[j] /\ UNCHANGED jobStatus
      BY <1>0, <1>10, <2>3 DEF CompleteMark, TypeOK, jobVars
    <3>2. Landed(j)
      BY <3>1 DEF Landed, SpawnsOf
    <3> QED
      BY <1>b, <2>1, <2>3, <3>2
  <2> QED
    BY <2>2, <2>3
<1>11. ASSUME NEW c \in Calls, CompleteCount(c) PROVE Closing(j)'
  <2> DEFINE l == [call[c] EXCEPT !.pc = "complete_close"]
  <2>1. \/ Return(c) /\ ~LastLanded(call[c].job)
        \/ Goto(c, l)
    BY <1>11, Zenon DEF CompleteCount
  <2>2. Landed(j)
    BY <1>11 DEF CompleteCount, jobVars, spawnVars, Landed, SpawnsOf
  <2>3. CASE call[c].job = j
    <3>1. RunningOf(j) = {}
      BY <2>2 DEF Landed, SpawnsOf, RunningOf
    <3>2. Goto(c, l)
      BY <2>1, <2>3, <3>1 DEF LastLanded
    <3>3. l.pc = "complete_close" /\ l.job = j
      BY <1>0, <2>3 DEF TypeOK, CallType
    <3>4. call'[c] = l
      BY <1>0, <3>2 DEF Goto, TypeOK
    <3> QED
      BY <3>3, <3>4 DEF Closing, ClosingPcs
  <2>4. CASE call[c].job # j
    <3>1. \E m : Goto(c, m)
      BY <2>1, Zenon DEF Return
    <3> QED
      BY <1>b, <2>2, <2>4, <3>1
  <2> QED
    BY <2>3, <2>4
<1>12. ASSUME NEW c \in Calls, CompleteClose(c) PROVE Closing(j)'
  <2>1. call[c].status \in {"COMPLETED", "STOPPED"}
    BY <1>0, <1>12 DEF CompleteClose, TypeInv, LocalsOK, LocalOK
  <2>2. jobStatus'[j] = IF j = call[c].job THEN Close(jobStatus[j], call[c].status)
                                           ELSE jobStatus[j]
    BY <1>0, <1>12 DEF CompleteClose, TypeOK
  <2>3. j # call[c].job
    BY <2>1, <2>2 DEF Landed, Close, LIVE_STATUSES, ACTIVE_STATUSES
  <2>4. Landed(j)
    BY <1>12, <2>2, <2>3 DEF CompleteClose, spawnVars, Landed, SpawnsOf
  <2> QED
    BY <1>b, <1>12, <2>3, <2>4 DEF CompleteClose, Return
<1>13. ASSUME NEW c \in Crons, ReapBegin(c) PROVE Closing(j)'
  <2>1. \E l : Goto(c, l)
    BY <1>13, Zenon DEF ReapBegin
  <2>2. Closing(j)
    BY <1>a, <1>13 DEF ReapBegin, jobVars, spawnVars
  <2> QED
    BY <1>b, <2>1, <2>2
<1>14. ASSUME NEW c \in Crons, ReapStale(c) PROVE Closing(j)'
  <2>1. \E l : Goto(c, l)
    BY <1>14, Zenon DEF ReapStale
  <2>2. \A a \in Agents : spawnStatus'[j][a] = spawnStatus[j][a] \/ spawnStatus'[j][a] = "FAILED"
    BY <1>0, <1>14 DEF ReapStale, TypeOK
  <2>3. \A a \in Agents : spawnStatus'[j][a] = spawnStatus[j][a]
    BY <2>2 DEF Landed, SpawnsOf
  <2>4. UNCHANGED jobStatus
    BY <1>14 DEF ReapStale, jobVars
  <2>5. Landed(j)
    BY <2>3, <2>4 DEF Landed, SpawnsOf
  <2> QED
    BY <1>b, <2>1, <2>5
<1>15. ASSUME NEW c \in Crons, ReapSelect(c) PROVE Closing(j)'
  <2>1. \E l : Goto(c, l)
    BY <1>15, Zenon DEF ReapSelect
  <2>2. Closing(j)
    BY <1>a, <1>15 DEF ReapSelect, jobVars, spawnVars
  <2> QED
    BY <1>b, <2>1, <2>2
<1>16. ASSUME NEW c \in Crons, ReapCount(c) PROVE Closing(j)'
  <2>1. \E l : Goto(c, l)
    BY <1>16, Zenon DEF ReapCount
  <2>2. Closing(j)
    BY <1>a, <1>16 DEF ReapCount, jobVars, spawnVars
  <2> QED
    BY <1>b, <2>1, <2>2
<1>17. ASSUME NEW c \in Crons, ReapFinalise(c) PROVE Closing(j)'
  <2>1. \E l : Goto(c, l)
    BY <1>17, Zenon DEF ReapFinalise
  <2>2. call[c].status \in {"COMPLETED", "FAILED"}
    BY <1>0, <1>17 DEF ReapFinalise, TypeInv, LocalsOK, LocalOK
  <2>3. jobStatus'[j] = IF j = call[c].job THEN Close(jobStatus[j], call[c].status)
                                           ELSE jobStatus[j]
    BY <1>0, <1>17 DEF ReapFinalise, TypeOK
  <2>4. j # call[c].job
    BY <2>2, <2>3 DEF Landed, Close, LIVE_STATUSES, ACTIVE_STATUSES
  <2>5. spawnStatus'[j] = spawnStatus[j]
    BY <1>0, <1>17, <2>4 DEF ReapFinalise, TypeOK
  <2>6. Landed(j)
    BY <2>3, <2>4, <2>5 DEF Landed, SpawnsOf
  <2> QED
    BY <1>b, <2>1, <2>6
<1>18. ASSUME NEW c \in Crons, ReapOrphans(c) PROVE Closing(j)'
  <2>1. \E l : Goto(c, l)
    BY <1>18, Zenon DEF ReapOrphans
  <2>2. UNCHANGED spawnStatus /\ (jobStatus'[j] = jobStatus[j] \/ jobStatus'[j] = "FAILED")
    BY <1>0, <1>18 DEF ReapOrphans, spawnVars, TypeOK
  <2>3. Landed(j)
    BY <2>2 DEF Landed, SpawnsOf, LIVE_STATUSES, ACTIVE_STATUSES
  <2> QED
    BY <1>b, <2>1, <2>3
<1>19. ASSUME NEW c \in Crons, ReapStopping(c) PROVE Closing(j)'
  <2>1. Goto(c, NoCall)
    BY <1>19 DEF ReapStopping, Return
  <2>2. UNCHANGED spawnStatus /\ (jobStatus'[j] = jobStatus[j] \/ jobStatus'[j] = "STOPPED")
    BY <1>0, <1>19 DEF ReapStopping, spawnVars, TypeOK
  <2>3. Landed(j)
    BY <2>2 DEF Landed, SpawnsOf, LIVE_STATUSES, ACTIVE_STATUSES
  <2> QED
    BY <1>b, <2>1, <2>3
<1>20. ASSUME NEW c \in Calls \union Crons, Abort(c) PROVE Closing(j)'
    BY <1>20 DEF Abort
<1>21. ASSUME NEW k \in Jobs, StopJob(k) PROVE Closing(j)'
  <2>1. jobStatus'[j] \in LIVE_STATUSES => jobStatus[j] \in LIVE_STATUSES
    BY <1>0, <1>21 DEF StopJob, TypeOK
  <2>2. Landed(j)
    BY <1>21, <2>1 DEF StopJob, spawnVars, Landed, SpawnsOf
  <2> QED
    BY <1>c, <1>21, <2>2 DEF StopJob
<1>22. ASSUME NEW k \in Jobs, NEW a \in Agents, RecordMetrics(k, a) PROVE Closing(j)'
    BY <1>a, <1>c, <1>22 DEF RecordMetrics, MetricsBatch, jobVars
<1>23. ASSUME NEW k \in Jobs, NEW a \in Agents, CompleteError(k, a) PROVE Closing(j)'
  <2>1. k # j
    BY <1>0, <1>23 DEF CompleteError, TypeOK, Landed, SpawnsOf
  <2>2. spawnStatus'[j] = spawnStatus[j] /\ jobStatus'[j] = jobStatus[j]
    BY <1>0, <1>23, <2>1 DEF CompleteError, TypeOK
  <2>3. Landed(j)
    BY <2>2 DEF Landed, SpawnsOf
  <2> QED
    BY <1>c, <1>23, <2>3 DEF CompleteError
<1>24. ASSUME Tick PROVE Closing(j)'
    BY <1>a, <1>c, <1>24 DEF Tick, jobVars, spawnVars
<1>25. ASSUME UNCHANGED vars PROVE Closing(j)'
    BY <1>a, <1>c, <1>25 DEF vars, jobVars, spawnVars
<1> QED
    BY <1>1, <1>2, <1>3, <1>4, <1>5, <1>6, <1>7, <1>8, <1>9, <1>10, <1>11, <1>12,
       <1>13, <1>14, <1>15, <1>16, <1>17, <1>18, <1>19, <1>20, <1>21, <1>22,
       <1>23, <1>24, <1>25
    DEF Next, HandlerStep, ReaperStep

\* When the spawns of a live job have all reported completion, a report is on
\* its way to close the job, unless activations die: two last reports cannot
\* each leave the closing to the other.
THEOREM LastOneClosesJob == Spec => []LastOneCloses
<1>1. Init => LastOneCloses
    BY DEF Init, LastOneCloses, SpawnsOf
<1>2. TableInv /\ LastOneCloses /\ [Next]_vars => LastOneCloses'
  <2> SUFFICES ASSUME TableInv, LastOneCloses, [Next]_vars, ~MayFail,
                      NEW j \in Jobs, Landed(j)'
               PROVE  Closing(j)'
    BY DEF LastOneCloses, Landed, Closing, ClosingPcs
  <2>1. Landed(j) => Closing(j)
    BY DEF LastOneCloses, Landed, Closing, ClosingPcs
  <2> QED
    BY <2>1, LastOneStep
<1> QED
    BY <1>1, <1>2, TablesInvariant, PTL DEF Spec

-----------------------------------------------------------------------------
(* The shares add up *)

\* The requests of jobs are validated ones.
LEMMA RequestsValidStep ==
    ASSUME TableInv, RequestsValid, [Next]_vars
    PROVE  RequestsValid'
<1>0. TypeInv
    BY DEF TableInv
<1>1. CASE SameRows
    BY <1>1 DEF SameRows, RequestsValid, ValidRequest
<1>2. ASSUME NEW c \in Calls, StartInsert(c) PROVE RequestsValid'
  <2>1. PICK j \in Jobs : req' = [req EXCEPT ![j] = call[c].req]
    BY <1>2 DEF StartInsert
  <2>2. ValidRequest(call[c].req)
    BY <1>0, <1>2 DEF StartInsert, TypeInv, LocalsOK, LocalOK
  <2>3. req \in [Jobs -> Requests \union {NoRequest}]
    BY <1>0 DEF TypeInv, TypeOK
  <2>4. \A k \in Jobs : req'[k] = IF k = j THEN call[c].req ELSE req[k]
    BY <2>1, <2>3
  <2> QED BY <2>2, <2>4 DEF RequestsValid, ValidRequest
<1>3. ASSUME NEW c \in Calls, PollClaim(c) PROVE RequestsValid'
  <2>1. UNCHANGED req
    BY <1>0, <1>3, ClaimEffect
  <2> QED BY <2>1 DEF RequestsValid, ValidRequest
<1> QED BY <1>1, <1>2, <1>3, RowEffects DEF TableInv

\* rps_for_slot cuts a rate into as many shares as there are agents: what does
\* not divide evenly goes to the first slots, one each.
LEMMA SharesAddUp ==
    ASSUME NEW rps \in Nat, NEW n \in Nat \ {0},
           NEW share, \A s \in 0 .. n - 1 : share[s] = rps_for_slot(rps, n, s)
    PROVE  /\ \A s \in 0 .. n - 1 : share[s] \in Nat /\ (rps >= n => share[s] >= 1)
           /\ SumFunctionOnSet(share, 0 .. n - 1) = rps
<1> DEFINE q     == rps \div n
           r     == rps % n
           even  == [s \in 0 .. n - 1 |-> q]
           extra == [s \in 0 .. n - 1 |-> IF s < r THEN 1 ELSE 0]
<1>1. q \in Nat /\ r \in 0 .. n - 1 /\ rps = q * n + r /\ (rps >= n => q >= 1)
  <2>1. q \in Nat /\ r \in 0 .. n - 1 /\ rps = q * n + r
    OBVIOUS
  <2>2. q = 0 => rps < n
    BY <2>1
  <2> QED BY <2>1, <2>2
<1>2. \A s \in 0 .. n - 1 : share[s] = even[s] + extra[s]
    BY <1>1 DEF rps_for_slot
<1> HIDE DEF q, r
<1>3. IsFiniteSet(0 .. n - 1) /\ Cardinality(0 .. n - 1) = n
    BY FS_Interval
<1>4. SumFunctionOnSet(share, 0 .. n - 1)
        = SumFunctionOnSet(even, 0 .. n - 1) + SumFunctionOnSet(extra, 0 .. n - 1)
  <2>1. \A s \in 0 .. n - 1 : even[s] \in Int /\ extra[s] \in Int
    BY <1>1
  <2> HIDE DEF even, extra
  <2> QED BY <1>2, <1>3, <2>1, SumPlus
<1>5. SumFunctionOnSet(even, 0 .. n - 1) = q * n
  <2>1. q \in Int /\ \A s \in 0 .. n - 1 : even[s] = q
    BY <1>1
  <2> HIDE DEF even
  <2> QED BY <1>3, <2>1, SumConstant
<1>6. SumFunctionOnSet(extra, 0 .. n - 1) = r
  <2> DEFINE L == 0 .. r - 1
             H == r .. n - 1
  <2>1. /\ 0 .. n - 1 = L \union H
        /\ L \cap H = {}
        /\ \A s \in L \union H : extra[s] \in Int
        /\ \A s \in L : extra[s] = 1
        /\ \A s \in H : extra[s] = 0
    BY <1>1
  <2>2. r \in Int /\ r >= 0
    BY <1>1
  <2>3. IsFiniteSet(L) /\ Cardinality(L) = r
    BY <2>2, FS_Interval
  <2>4. IsFiniteSet(H) /\ Cardinality(H) \in Nat
    BY <2>2, FS_Interval, FS_CardinalityType
  <2> HIDE DEF extra, L, H
  <2>5. SumFunctionOnSet(extra, L) = 1 * Cardinality(L)
    BY <2>1, <2>3, SumConstant
  <2>6. SumFunctionOnSet(extra, H) = 0 * Cardinality(H)
    BY <2>1, <2>4, SumConstant
  <2>7. SumFunctionOnSet(extra, L \union H)
          = SumFunctionOnSet(extra, L) + SumFunctionOnSet(extra, H)
    BY <2>1, <2>3, <2>4, SumDisjoint
  <2>8. SumFunctionOnSet(extra, L) = r /\ SumFunctionOnSet(extra, H) = 0
    BY <2>2, <2>3, <2>4, <2>5, <2>6
  <2>9. SumFunctionOnSet(extra, L \union H) = r
    BY <2>2, <2>7, <2>8
  <2> QED BY <2>1, <2>9
<1>7. \A s \in 0 .. n - 1 : share[s] \in Nat /\ (rps >= n => share[s] >= 1)
    BY <1>1, <1>2
<1> HIDE DEF even, extra
<1> QED BY <1>1, <1>4, <1>5, <1>6, <1>7

\* The grants of a job hold distinct slots, so their rates are distinct shares.
LEMMA RateIsSharedInv ==
    ASSUME TableInv, RequestsValid
    PROVE  RateIsShared
<1> SUFFICES ASSUME NEW j \in Jobs
             PROVE  LET mine == {g \in grants : g.job = j}
                        sum  == SumFunctionOnSet([g \in grants |-> g.rps], mine)
                    IN  /\ sum <= req[j].rps
                        /\ Cardinality(mine) = req[j].agents => sum = req[j].rps
                        /\ \A g \in mine : req[j].unthrottled \/ g.rps >= 1
    BY DEF RateIsShared
<1> DEFINE mine  == {g \in grants : g.job = j}
           rate  == [g \in grants |-> g.rps]
           place == [g \in mine |-> g.slot]
           n     == req[j].agents
           share == [s \in Nat |-> rps_for_slot(req[j].rps, n, s)]
<1>0. /\ TypeInv /\ GrantsMatch /\ SlotsDense
      /\ req[j] \in Requests \union {NoRequest} /\ req[j].rps \in Int /\ n \in Int
    BY ConstantsAssumption DEF TableInv, TypeInv, TypeOK, RequestType, NoRequest
<1>1. ASSUME NEW g \in mine
      PROVE  /\ g \in GrantType /\ g.agent \in SpawnsOf(j)
             /\ g.slot = slot[j][g.agent] /\ g.slot \in 0 .. n - 1
             /\ g.rps = share[g.slot]
  <2>1. g \in GrantType /\ g.agent \in SpawnsOf(j) /\ g.slot = slot[j][g.agent]
    BY <1>0 DEF TypeInv, TypeOK, GrantsMatch, GrantType, SpawnsOf
  <2>2. g.slot \in Nat /\ g.slot < Cardinality(SpawnsOf(j)) /\ Cardinality(SpawnsOf(j)) <= n
    BY <1>0, <2>1 DEF SlotsDense, GrantType
  <2>3. Cardinality(SpawnsOf(j)) \in Nat
    BY SpawnCount
  <2>4. g.rps = share[g.slot]
    BY <1>0, <2>2 DEF GrantsMatch
  <2> QED BY <1>0, <2>1, <2>2, <2>3, <2>4
<1>2. CASE mine = {}
  <2>1. SumFunctionOnSet(rate, mine) = 0 /\ Cardinality(mine) = 0
    BY <1>2, SumEmpty, FS_EmptySet
  <2>2. req[j].rps >= 0 /\ (n = 0 => req[j].rps = 0)
    BY <1>0 DEF RequestsValid, ValidRequest, NoRequest
  <2> QED BY <1>0, <1>2, <2>1, <2>2
<1>3. CASE mine # {}
  <2>1. n \in Nat \ {0}
    <3>1. PICK g \in mine : TRUE
        BY <1>3
    <3>2. g.slot \in 0 .. n - 1
        BY <1>1
    <3> HIDE DEF n
    <3> QED BY <1>0, <3>2
  <2>2. /\ req[j].rps \in Nat
        /\ req[j].unthrottled \/ req[j].rps >= n
    BY <1>0, <2>1 DEF RequestsValid, ValidRequest, NoRequest
  <2>3. ASSUME NEW g \in mine, NEW h \in mine, g.slot = h.slot PROVE g = h
    <3>1. g.agent = h.agent
        BY <1>0, <1>1, <2>3 DEF SlotsDense
    <3>2. g.job = h.job /\ g.rps = h.rps
        BY <1>1, <2>3
    <3>3. \A k \in GrantType :
             k = [job |-> k.job, agent |-> k.agent, slot |-> k.slot, rps |-> k.rps]
        BY DEF GrantType
    <3>4. /\ g = [job |-> g.job, agent |-> g.agent, slot |-> g.slot, rps |-> g.rps]
          /\ h = [job |-> h.job, agent |-> h.agent, slot |-> h.slot, rps |-> h.rps]
        BY <1>1, <3>3
    <3> QED BY <2>3, <3>1, <3>2, <3>4
  <2>4. place \in Injection(mine, 0 .. n - 1)
    BY <1>1, <2>3 DEF Injection, IsInjective
  <2>5. IsFiniteSet(0 .. n - 1) /\ Cardinality(0 .. n - 1) = n
    <3> HIDE DEF n
    <3> QED BY <2>1, FS_Interval
  <2>6. IsFiniteSet(mine) /\ (Cardinality(mine) = n <=> place \in Surjection(mine, 0 .. n - 1))
    BY <2>4, <2>5, FS_Injection
  <2>7. /\ \A s \in 0 .. n - 1 : share[s] \in Nat /\ (req[j].rps >= n => share[s] >= 1)
        /\ SumFunctionOnSet(share, 0 .. n - 1) = req[j].rps
    <3>1. \A s \in 0 .. n - 1 : share[s] = rps_for_slot(req[j].rps, n, s)
        OBVIOUS
    <3> HIDE DEF share, n
    <3> QED BY <2>1, <2>2, <3>1, SharesAddUp
  <2>8. SumFunctionOnSet(rate, mine) = SumFunctionOnSet(share, {place[g] : g \in mine})
    <3>1. \A g \in mine : rate[g] \in Int /\ share[place[g]] = rate[g]
        BY <1>1 DEF GrantType
    <3>2. \A g, h \in mine : place[g] = place[h] => g = h
        BY <2>3
    <3> HIDE DEF rate, share, place, mine
    <3> QED BY <2>6, <3>1, <3>2, SumReindex
  <2>9. {place[g] : g \in mine} \subseteq 0 .. n - 1
    BY <1>1
  <2>10. SumFunctionOnSet(rate, mine) <= req[j].rps
    <3> HIDE DEF rate, share, place, mine, n
    <3> QED BY <2>5, <2>7, <2>8, <2>9, SumSubset
  <2>11. Cardinality(mine) = n => SumFunctionOnSet(rate, mine) = req[j].rps
    <3>1. place \in Surjection(mine, 0 .. n - 1) => {place[g] : g \in mine} = 0 .. n - 1
        BY <2>9 DEF Surjection
    <3> QED BY <2>6, <2>7, <2>8, <3>1
  <2>12. \A g \in mine : req[j].unthrottled \/ g.rps >= 1
    BY <1>1, <2>2, <2>7
  <2> QED BY <2>10, <2>11, <2>12
<1> QED BY <1>2, <1>3

\* The rates agent_poll hands out for a job never exceed its target rate, make
\* it up exactly once every slot is granted, and leave no agent of a throttled
\* job without one, in whatever order the polls of however many agents race.
THEOREM RatesAddUp == Spec => []RateIsShared
<1>1. Init => RequestsValid
    BY DEF Init, RequestsValid
<1>2. TableInv /\ RequestsValid /\ [Next]_vars => RequestsValid'
    BY RequestsValidStep
<1>3. TableInv /\ RequestsValid => RateIsShared
    BY RateIsSharedInv
<1> QED BY <1>1, <1>2, <1>3, TablesInvariant, PTL DEF Spec
=============================================================================
