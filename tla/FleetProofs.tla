----------------------------- MODULE FleetProofs -----------------------------
(***************************************************************************)
(* The fleet uses the control plane as ControlPlane says it is used, for    *)
(* any number of agents, jobs, activations and faults.  What makes it so is *)
(* that an agent acts on an order only after the answer to the poll it      *)
(* waits for, and that answer is a grant.  And no sweep takes an agent at   *)
(* work for dead, if everybody is prompt and the first report of each run   *)
(* comes soon enough after its hold.                                        *)
(***************************************************************************)
EXTENDS Fleet, ControlPlaneProofs

PollPcs == {"poll_spawn", "poll_touch", "poll_claim", "poll_read", "poll_promote"}
Working == {"holding", "loading", "finishing", "completing"}

OrdersGranted ==
    \A a \in Agents : phase[a] \in Working => Granted(order[a].job, a)

\* The activation an agent waits for serves its poll, for the job of its order.
WaitsMatch ==
    \A a \in Agents : \A c \in Calls :
        waiting[a] = c => /\ call[c].pc \in PollPcs
                          /\ call[c].agent = a
                          /\ call[c].job = order[a].job

FleetInv == TypeInv /\ FleetTypeOK /\ OrdersGranted /\ WaitsMatch

-----------------------------------------------------------------------------

\* Every step of the fleet is a step of the control plane, or none of it.
LEMMA StepUses ==
    ASSUME FleetInv, [FleetNext]_fleetVars
    PROVE  [Next]_vars
<1>0. CASE UNCHANGED fleetVars
  BY <1>0 DEF fleetVars
<1>1. ASSUME NEW a \in Agents,
             \/ Boot(a) \/ PollFails(a) \/ BeginLoad(a) \/ HoldInterrupted(a)
             \/ EndLoad(a) \/ WatchStatus(a) \/ Sigterm(a) \/ Crash(a)
      PROVE  [Next]_vars
  <2>1. UNCHANGED vars
    BY <1>1, Zenon DEF Boot, PollFails, BeginLoad, HoldInterrupted, EndLoad,
                       WatchStatus, Finish, Sigterm, Crash
  <2> QED
    BY <2>1
<1>2. ASSUME NEW a \in Agents, NEW c \in Calls, Poll(a, c) PROVE [Next]_vars
  BY <1>2 DEF Poll, Next
<1>w. ASSUME NEW a \in Agents, phase[a] \in Working
      PROVE  order[a].job \in Jobs /\ Granted(order[a].job, a)
  <2>1. order[a] \in OrderType /\ order[a] # NoOrder
    BY <1>w DEF FleetInv, FleetTypeOK, Working
  <2> QED
    BY <1>w, <2>1 DEF OrderType, FleetInv, OrdersGranted
<1>3. ASSUME NEW a \in Agents, Report(a) PROVE [Next]_vars
  BY <1>3, <1>w DEF Report, RecordMetrics, Next, Working
<1>4. ASSUME NEW a \in Agents, Flush(a) PROVE [Next]_vars
  BY <1>4, <1>w DEF Flush, RecordMetrics, Next, Working
<1>5. ASSUME NEW a \in Agents, NEW c \in Calls, Complete(a, c) PROVE [Next]_vars
  BY <1>5, <1>w DEF Complete, CompleteRead, Next, Working
<1>6. ASSUME NEW c \in Calls, PollStep(c) \/ Run(c) \/ (Abort(c) /\ Idle(c))
      PROVE  [Next]_vars
  BY <1>6 DEF PollStep, Run, HandlerStep, Next
<1>7. CASE ServerStep
  BY <1>7 DEF ServerStep, HandlerStep, Next
<1>8. CASE FleetTick
  BY <1>8 DEF FleetTick, Next
<1> QED
  BY <1>0, <1>1, <1>2, <1>3, <1>4, <1>5, <1>6, <1>7, <1>8 DEF FleetNext, AgentStep

\* A grant is never taken back.
LEMMA GrantsGrow ==
    ASSUME [Next]_vars
    PROVE  grants \subseteq grants'
<1>1. ASSUME NEW c \in Calls, PollPromote(c) PROVE grants \subseteq grants'
  BY <1>1 DEF PollPromote
<1> QED
  BY <1>1, OnlyPollsGrant

\* The server's own steps leave every poll in flight alone.
LEMMA ServerKeepsPolls ==
    ASSUME TypeInv, ServerStep, NEW d \in Calls, call[d].pc \in PollPcs
    PROVE  call'[d] = call[d]
<1> DEFINE Other(c) == \E l : call' = [call EXCEPT ![c] = l]
<1>1. ASSUME NEW c \in Calls \union Crons, c # d, Other(c) PROVE call'[d] = call[d]
  BY <1>1 DEF TypeInv, TypeOK
<1>2. \A c \in Crons : c # d
  BY ConstantsAssumption
<1>3. ASSUME NEW c \in Calls, StartCheck(c) PROVE call'[d] = call[d]
  <2>1. Other(c)
    BY <1>3, Zenon DEF StartCheck, Goto
  <2>2. c # d
    BY <1>3 DEF StartCheck, PollPcs
  <2> QED
    BY <1>1, <2>1, <2>2
<1>3a. ASSUME NEW c \in Calls, StartInsert(c) PROVE call'[d] = call[d]
  <2>1. Other(c)
    BY <1>3a, Zenon DEF StartInsert, Goto, Return
  <2>2. c # d
    BY <1>3a DEF StartInsert, PollPcs
  <2> QED
    BY <1>1, <2>1, <2>2
<1>4. ASSUME NEW c \in Calls, CompleteMark(c) \/ CompleteCount(c) \/ CompleteClose(c)
      PROVE  call'[d] = call[d]
  <2>1. Other(c)
    BY <1>4, Zenon DEF CompleteMark, CompleteCount, CompleteClose, Goto, Return
  <2>2. c # d
    BY <1>4 DEF CompleteMark, CompleteCount, CompleteClose, PollPcs
  <2> QED
    BY <1>1, <2>1, <2>2
<1>5. ASSUME NEW c \in Crons, ReapBegin(c) \/ ReaperStep(c) \/ Abort(c)
      PROVE  call'[d] = call[d]
  <2>1. Other(c)
    BY <1>5, Zenon DEF ReapBegin, ReaperStep, ReapStale, ReapSelect, ReapCount,
                       ReapFinalise, ReapOrphans, ReapStopping, Abort, Goto, Return
  <2> QED
    BY <1>1, <1>2, <2>1
<1>6. ASSUME NEW j \in Jobs, StopJob(j) PROVE call'[d] = call[d]
  BY <1>6 DEF StopJob
<1> HIDE DEF Other
<1> QED
  BY <1>3, <1>3a, <1>4, <1>5, <1>6 DEF ServerStep

-----------------------------------------------------------------------------
(* The steps of the agents *)

\* Only the answer to a poll puts an agent to work; every other step keeps
\* the order of each agent that goes on working.
LEMMA OnlyRunStartsWork ==
    ASSUME FleetInv, [FleetNext]_fleetVars, NEW b \in Agents, phase'[b] \in Working
    PROVE  \/ phase[b] \in Working /\ order'[b] = order[b]
           \/ \E c \in Calls : Run(c) /\ waiting[b] = c /\ order'[b] = order[b]
<1> DEFINE Goal == \/ phase[b] \in Working /\ order'[b] = order[b]
                   \/ \E c \in Calls : Run(c) /\ waiting[b] = c /\ order'[b] = order[b]
<1> USE DEF Working
<1>t. FleetTypeOK
  BY DEF FleetInv
<1>0. ASSUME UNCHANGED fleetVars PROVE Goal
  BY <1>0 DEF fleetVars, agentVars
<1>1. ASSUME NEW a \in Agents,
             \/ Boot(a) \/ BeginLoad(a) \/ HoldInterrupted(a) \/ EndLoad(a)
             \/ WatchStatus(a) \/ Flush(a)
      PROVE  Goal
  BY <1>t, <1>1 DEF Boot, BeginLoad, HoldInterrupted, EndLoad, WatchStatus, Finish, Flush,
                    Enter, FleetTypeOK
<1>2. ASSUME NEW a \in Agents, PollFails(a) PROVE Goal
  BY <1>t, <1>2 DEF PollFails, FleetTypeOK
<1>3. ASSUME NEW a \in Agents, NEW c \in Calls, Poll(a, c) PROVE Goal
  BY <1>t, <1>3 DEF Poll, FleetTypeOK
<1>4. ASSUME NEW a \in Agents, NEW c \in Calls, Complete(a, c) PROVE Goal
  BY <1>t, <1>4 DEF Complete, Leave, Enter, FleetTypeOK
<1>5. ASSUME NEW a \in Agents, Report(a) PROVE Goal
  BY <1>5 DEF Report
<1>6. ASSUME NEW a \in Agents, Sigterm(a) \/ Crash(a) PROVE Goal
  BY <1>t, <1>6 DEF Sigterm, Crash, Enter, FleetTypeOK
<1>7. ASSUME NEW c \in Calls, Idle(c) PROVE Goal
  BY <1>t, <1>7, FleetAssumption DEF Idle, FleetTypeOK
<1>8. ASSUME NEW c \in Calls, Run(c) PROVE Goal
  BY <1>t, <1>8 DEF Run, FleetTypeOK
<1>9. ASSUME ServerStep \/ FleetTick PROVE Goal
  BY <1>9 DEF ServerStep, FleetTick, agentVars
<1> HIDE DEF Goal
<1> QED
  <2>1. Goal
    BY <1>0, <1>1, <1>2, <1>3, <1>4, <1>5, <1>6, <1>7, <1>8, <1>9
       DEF FleetNext, AgentStep, PollStep
  <2> QED
    BY <2>1 DEF Goal

\* An order an agent works on stays granted.
LEMMA OrdersStayGranted ==
    ASSUME FleetInv, [FleetNext]_fleetVars
    PROVE  OrdersGranted'
<1>g. grants \subseteq grants'
  BY StepUses, GrantsGrow
<1> SUFFICES ASSUME NEW b \in Agents, phase'[b] \in Working
             PROVE  Granted(order[b].job, b)'
  BY DEF OrdersGranted
<1>1. CASE phase[b] \in Working /\ order'[b] = order[b]
  BY <1>1, <1>g DEF FleetInv, OrdersGranted, Granted
<1>2. ASSUME NEW c \in Calls, Run(c), waiting[b] = c, order'[b] = order[b]
      PROVE  Granted(order[b].job, b)'
  <2>1. call[c].agent = b /\ call[c].job = order[b].job
    BY <1>2 DEF FleetInv, WaitsMatch
  <2>2. \E g \in grants' : g.job = call[c].job /\ g.agent = call[c].agent
    <3> DEFINE j == call[c].job
               r == rps_for_slot(req[j].rps, req[j].agents, call[c].slot)
               g == [job |-> j, agent |-> call[c].agent, slot |-> call[c].slot, rps |-> r]
    <3>1. g \in grants'
      <4>1. grants' = grants \union {g}
        BY <1>2, Zenon DEF Run, PollPromote
      <4> HIDE DEF g
      <4> QED
        BY <4>1
    <3> HIDE DEF r
    <3>2. g.job = j /\ g.agent = call[c].agent
      OBVIOUS
    <3> HIDE DEF g
    <3> QED
      BY <3>1, <3>2
  <2> QED
    BY <1>2, <2>1, <2>2 DEF Granted
<1> QED
  BY <1>1, <1>2, OnlyRunStartsWork

\* A statement of a poll leaves the other polls alone, and its own poll as it
\* was but for its place, or ended.
LEMMA PollStepEffect ==
    ASSUME TypeInv, NEW c \in Calls,
           \/ PollSelectSpawn(c) \/ PollTouch(c) \/ PollClaim(c) \/ PollReadSlot(c)
           \/ PollPromote(c) \/ Abort(c)
    PROVE  /\ \A d \in Calls : d # c => call'[d] = call[d]
           /\ \/ call'[c].pc = "idle"
              \/ /\ call'[c].pc \in PollPcs
                 /\ call'[c].agent = call[c].agent
                 /\ call'[c].job = call[c].job
<1> DEFINE Goal == /\ \A d \in Calls : d # c => call'[d] = call[d]
                   /\ \/ call'[c].pc = "idle"
                      \/ /\ call'[c].pc \in PollPcs
                         /\ call'[c].agent = call[c].agent
                         /\ call'[c].job = call[c].job
<1>t. call \in [Calls \union Crons -> CallType] /\ call[c] \in CallType
  BY DEF TypeInv, TypeOK
<1>r. ASSUME Return(c) PROVE Goal
  BY <1>t, <1>r DEF Return, Goto, NoCall
<1>m. ASSUME NEW l, Goto(c, l), l.pc \in PollPcs,
             l.agent = call[c].agent, l.job = call[c].job
      PROVE  Goal
  BY <1>t, <1>m DEF Goto
<1> HIDE DEF Goal
<1>1. ASSUME PollSelectSpawn(c) PROVE Goal
  <2> DEFINE s == slot[call[c].job][call[c].agent]
             touch(now) == [call[c] EXCEPT !.pc = "poll_touch", !.now = now,
                                   !.until = 0, !.slot = s]
             claim(now) == [call[c] EXCEPT !.pc = "poll_claim", !.now = now,
                                   !.until = 0]
  <2>1. Return(c) \/ \E now \in call[c].now..clock : Goto(c, touch(now)) \/ Goto(c, claim(now))
    BY <1>1, Zenon DEF PollSelectSpawn
  <2> HIDE DEF s
  <2>2. ASSUME NEW now PROVE /\ touch(now).pc \in PollPcs /\ claim(now).pc \in PollPcs
                             /\ touch(now).agent = call[c].agent /\ claim(now).agent = call[c].agent
                             /\ touch(now).job = call[c].job /\ claim(now).job = call[c].job
    BY <1>t DEF CallType, PollPcs
  <2> HIDE DEF touch, claim
  <2> QED
    BY <1>r, <1>m, <2>1, <2>2
<1>2. ASSUME PollTouch(c) PROVE Goal
  <2> DEFINE l == [call[c] EXCEPT !.pc = "poll_promote", !.now = 0]
  <2>1. Goto(c, l)
    BY <1>2, Zenon DEF PollTouch
  <2>2. l.pc \in PollPcs /\ l.agent = call[c].agent /\ l.job = call[c].job
    BY <1>t DEF CallType, PollPcs
  <2> HIDE DEF l
  <2> QED
    BY <1>m, <2>1, <2>2
<1>3. ASSUME PollClaim(c) PROVE Goal
  <2> DEFINE l == [call[c] EXCEPT !.pc = "poll_read", !.now = 0]
  <2>1. Goto(c, l)
    BY <1>3, Zenon DEF PollClaim
  <2>2. l.pc \in PollPcs /\ l.agent = call[c].agent /\ l.job = call[c].job
    BY <1>t DEF CallType, PollPcs
  <2> HIDE DEF l
  <2> QED
    BY <1>m, <2>1, <2>2
<1>4. ASSUME PollReadSlot(c) PROVE Goal
  <2> DEFINE s == ClaimedSlot(call[c].job, call[c].agent)
             l == [call[c] EXCEPT !.pc = "poll_promote", !.slot = s]
  <2>1. Return(c) \/ Goto(c, l)
    BY <1>4, Zenon DEF PollReadSlot
  <2> HIDE DEF s
  <2>2. l.pc \in PollPcs /\ l.agent = call[c].agent /\ l.job = call[c].job
    BY <1>t DEF CallType, PollPcs
  <2> HIDE DEF l
  <2> QED
    BY <1>r, <1>m, <2>1, <2>2
<1>5. ASSUME PollPromote(c) \/ Abort(c) PROVE Goal
  BY <1>5, <1>r DEF PollPromote, Abort
<1> QED
  <2>1. Goal
    BY <1>1, <1>2, <1>3, <1>4, <1>5
  <2> QED
    BY <2>1 DEF Goal

\* An activation that aborts has ended.
LEMMA AbortEnds ==
    ASSUME TypeInv, NEW c \in Calls, Abort(c)
    PROVE  call'[c].pc = "idle"
BY DEF Abort, Return, Goto, NoCall, TypeInv, TypeOK

\* An agent that waits for a poll has just sent it, or waited for it before
\* and the poll went on by one statement at most.
LEMMA WaitMoves ==
    ASSUME FleetInv, [FleetNext]_fleetVars, NEW b \in Agents, NEW d \in Calls,
           waiting'[b] = d
    PROVE  \/ /\ call'[d].pc = "poll_spawn"
              /\ call'[d].agent = b /\ call'[d].job = order'[b].job
           \/ /\ waiting[b] = d /\ order'[b] = order[b]
              /\ \/ call'[d] = call[d]
                 \/ /\ PollSelectSpawn(d) \/ PollTouch(d) \/ PollClaim(d) \/ PollReadSlot(d)
                    /\ call'[d].pc # "idle"
<1> DEFINE New == /\ call'[d].pc = "poll_spawn"
                  /\ call'[d].agent = b /\ call'[d].job = order'[b].job
           Stay == waiting[b] = d /\ order'[b] = order[b]
           On == PollSelectSpawn(d) \/ PollTouch(d) \/ PollClaim(d) \/ PollReadSlot(d)
           Goal == New \/ (Stay /\ (call'[d] = call[d] \/ (On /\ call'[d].pc # "idle")))
<1>t. TypeInv /\ FleetTypeOK /\ (waiting[b] = d => call[d].pc \in PollPcs)
  BY DEF FleetInv, WaitsMatch
<1>s. ASSUME waiting[b] = d, call'[d] = call[d], order'[b] = order[b]
      PROVE  Goal
  BY <1>s
<1>n. waiting'[b] # None
  BY FleetAssumption
<1>0. ASSUME UNCHANGED fleetVars PROVE Goal
  BY <1>0, <1>s DEF fleetVars, agentVars, vars
<1>1. ASSUME NEW a \in Agents,
             \/ Boot(a) \/ BeginLoad(a) \/ HoldInterrupted(a) \/ EndLoad(a)
             \/ WatchStatus(a)
      PROVE  Goal
  BY <1>1, <1>s DEF Boot, BeginLoad, HoldInterrupted, EndLoad, WatchStatus, Finish, vars
<1>2. ASSUME NEW a \in Agents, Flush(a) \/ Report(a) PROVE Goal
  BY <1>2, <1>s DEF Flush, Report, MetricsBatch, vars
<1>3. ASSUME NEW a \in Agents, PollFails(a) \/ Sigterm(a) \/ Crash(a) PROVE Goal
  BY <1>3, <1>s, <1>n, <1>t DEF PollFails, Sigterm, Crash, vars, FleetTypeOK
<1>4. ASSUME NEW a \in Agents, NEW c \in Calls, Poll(a, c) PROVE Goal
  <2> PICK j \in Jobs :
        Goto(c, [NoCall EXCEPT !.pc = "poll_spawn", !.job = j, !.agent = a,
                               !.status = jobStatus[j], !.until = stopAt[j],
                               !.now = clock])
    BY <1>4, Zenon DEF Poll, PollSelectJob
  <2> DEFINE st == jobStatus[j]
             un == stopAt[j]
             l == [NoCall EXCEPT !.pc = "poll_spawn", !.job = j, !.agent = a,
                               !.status = st, !.until = un, !.now = clock]
  <2>1. Goto(c, l)
    OBVIOUS
  <2> HIDE DEF st, un
  <2>2. l.pc = "poll_spawn" /\ l.agent = a /\ l.job = j
    BY DEF NoCall
  <2> HIDE DEF l
  <2>3. call \in [Calls \union Crons -> CallType]
    BY <1>t DEF TypeInv, TypeOK
  <2>4. call'[c] = l /\ (d # c => call'[d] = call[d])
    BY <2>1, <2>3 DEF Goto
  <2>5. /\ call[c].pc = "idle"
        /\ \E k \in Jobs : /\ call'[c].job = k
              /\ order' = [order EXCEPT ![a] = [job |-> k, start |-> startAt[k], stop |-> stopAt[k]]]
        /\ waiting' = [waiting EXCEPT ![a] = c]
    BY <1>4 DEF Poll, PollSelectJob
  <2>6. PICK k \in Jobs : /\ call'[c].job = k
              /\ order' = [order EXCEPT ![a] = [job |-> k, start |-> startAt[k], stop |-> stopAt[k]]]
    BY <2>5
  <2>7. CASE b = a
    <3>1. d = c
      BY <2>5, <2>7, <1>t DEF FleetTypeOK
    <3>2. order'[b].job = k
      BY <2>6, <2>7, <1>t DEF FleetTypeOK
    <3> QED
      BY <2>2, <2>4, <2>6, <2>7, <3>1, <3>2
  <2>8. CASE b # a
    <3>1. waiting[b] = d /\ order'[b] = order[b]
      BY <2>5, <2>6, <2>8, <1>t DEF FleetTypeOK
    <3>2. d # c
      BY <2>5, <3>1, <1>t DEF PollPcs
    <3> QED
      BY <2>4, <3>1, <3>2, <1>s
  <2> QED
    BY <2>7, <2>8
<1>5. ASSUME NEW a \in Agents, NEW c \in Calls, Complete(a, c) PROVE Goal
  <2>1. phase[a] = "completing" /\ waiting' = waiting /\ order' = [order EXCEPT ![a] = NoOrder]
    BY <1>5 DEF Complete, Leave
  <2>2. b # a
    BY <2>1, <1>n, <1>t DEF FleetTypeOK
  <2>3. waiting[b] = d /\ order'[b] = order[b]
    BY <2>1, <2>2, <1>t DEF FleetTypeOK
  <2>4. call'[d] = call[d]
    <3>1. CASE UNCHANGED vars
      BY <3>1 DEF vars
    <3>2. CASE CompletionRead(c, order[a].job, a)
      <4>1. call[c].pc = "idle" /\ \E l : call' = [call EXCEPT ![c] = l]
        BY <3>2, Zenon DEF CompletionRead, Goto
      <4>2. c # d
        BY <4>1, <2>3, <1>t DEF PollPcs
      <4> QED
        BY <4>1, <4>2, <1>t DEF TypeInv, TypeOK
    <3> QED
      BY <1>5, <3>1, <3>2 DEF Complete
  <2> QED
    BY <2>3, <2>4, <1>s
<1>6. ASSUME NEW c \in Calls, PollStep(c) \/ (Abort(c) /\ Idle(c)) PROVE Goal
  <2>1. /\ \A e \in Calls : e # c => call'[e] = call[e]
        /\ \/ call'[c].pc = "idle"
           \/ /\ call'[c].pc \in PollPcs
              /\ call'[c].agent = call[c].agent
              /\ call'[c].job = call[c].job
    BY <1>6, <1>t, PollStepEffect DEF PollStep
  <2>2. /\ waiting[b] = d /\ order'[b] = order[b]
        /\ d = c => call'[c].pc # "idle"
    BY <1>6, <1>n DEF PollStep, Idle
  <2>3. CASE d # c
    BY <2>1, <2>2, <2>3, <1>s
  <2>4. CASE d = c
    <3>1. ~Abort(c)
      BY <2>2, <2>4, <1>t, AbortEnds
    <3>2. On
      BY <1>6, <2>4, <3>1 DEF PollStep
    <3> QED
      BY <2>2, <2>4, <3>2
  <2> QED
    BY <2>3, <2>4
<1>7. ASSUME NEW c \in Calls, Run(c) PROVE Goal
  <2>1. waiting[b] = d /\ d # c /\ order' = order
    BY <1>7, <1>n DEF Run
  <2>2. call'[d] = call[d]
    BY <1>7, <2>1, <1>t, PollStepEffect DEF Run
  <2> QED
    BY <2>1, <2>2, <1>s
<1>8. ASSUME ServerStep PROVE Goal
  <2>1. waiting[b] = d /\ order' = order
    BY <1>8 DEF ServerStep, agentVars
  <2>2. call'[d] = call[d]
    BY <1>8, <1>t, <2>1, ServerKeepsPolls
  <2> QED
    BY <2>1, <2>2, <1>s
<1>9. ASSUME FleetTick PROVE Goal
  BY <1>9, <1>s DEF FleetTick, Tick, agentVars
<1> HIDE DEF Goal
<1> QED
  <2>1. Goal
    BY <1>0, <1>1, <1>2, <1>3, <1>4, <1>5, <1>6, <1>7, <1>8, <1>9
       DEF FleetNext, AgentStep
  <2> QED
    BY <2>1 DEF Goal, New, Stay, On

\* An agent that waits for a poll waits for its own.
LEMMA WaitsStayMatched ==
    ASSUME FleetInv, [FleetNext]_fleetVars
    PROVE  WaitsMatch'
<1> SUFFICES ASSUME NEW b \in Agents, NEW d \in Calls, waiting'[b] = d
             PROVE  /\ call'[d].pc \in PollPcs
                    /\ call'[d].agent = b
                    /\ call'[d].job = order'[b].job
  BY DEF WaitsMatch
<1>1. CASE /\ call'[d].pc = "poll_spawn"
           /\ call'[d].agent = b /\ call'[d].job = order'[b].job
  BY <1>1 DEF PollPcs
<1>2. ASSUME waiting[b] = d, order'[b] = order[b],
             \/ call'[d] = call[d]
             \/ /\ PollSelectSpawn(d) \/ PollTouch(d) \/ PollClaim(d) \/ PollReadSlot(d)
                /\ call'[d].pc # "idle"
      PROVE  /\ call'[d].pc \in PollPcs
             /\ call'[d].agent = b
             /\ call'[d].job = order'[b].job
  <2>1. call[d].pc \in PollPcs /\ call[d].agent = b /\ call[d].job = order[b].job
    BY <1>2 DEF FleetInv, WaitsMatch
  <2>2. TypeInv
    BY DEF FleetInv
  <2> QED
    BY <1>2, <2>1, <2>2, PollStepEffect
<1> QED
  BY <1>1, <1>2, WaitMoves

\* Every step keeps the types, and the rule on who has an order or a ticker.
LEMMA FleetTypeStep ==
    ASSUME FleetInv, [FleetNext]_fleetVars
    PROVE  FleetTypeOK'
<1>t. TypeInv /\ FleetTypeOK
  BY DEF FleetInv
<1>c. /\ {"down", "polling", "holding", "loading", "finishing", "completing"} = Phases
      /\ NoOrder \in OrderType
      /\ \A x \in OrderType : x # NoOrder => x.job \in Jobs
      /\ None \notin Calls
  BY FleetAssumption DEF Phases, OrderType
<1>0. ASSUME UNCHANGED fleetVars PROVE FleetTypeOK'
  BY <1>0, <1>t DEF fleetVars, agentVars, FleetTypeOK
<1>1. ASSUME NEW a \in Agents, Boot(a) \/ HoldInterrupted(a) \/ Flush(a)
      PROVE  FleetTypeOK'
  BY <1>1, <1>t, <1>c DEF Boot, HoldInterrupted, Flush, Enter, FleetTypeOK
<1>1a. ASSUME NEW a \in Agents, BeginLoad(a) PROVE FleetTypeOK'
  <2>1. clock + ReportInterval \in Nat \ {0}
    BY <1>t, FleetAssumption DEF TypeInv, TypeOK
  <2> QED
    BY <1>1a, <1>t, <1>c, <2>1 DEF BeginLoad, Enter, FleetTypeOK
<1>1b. ASSUME NEW a \in Agents, EndLoad(a) \/ WatchStatus(a) PROVE FleetTypeOK'
  BY <1>1b, <1>t, <1>c DEF EndLoad, WatchStatus, Finish, Enter, FleetTypeOK
<1>2. ASSUME NEW a \in Agents, PollFails(a) PROVE FleetTypeOK'
  BY <1>2, <1>t, <1>c DEF PollFails, FleetTypeOK
<1>3. ASSUME NEW a \in Agents, NEW c \in Calls, Poll(a, c) PROVE FleetTypeOK'
  <2>1. PICK j \in Jobs : order' = [order EXCEPT ![a] =
                        [job |-> j, start |-> startAt[j], stop |-> stopAt[j]]]
    BY <1>3 DEF Poll
  <2> DEFINE o == [job |-> j, start |-> startAt[j], stop |-> stopAt[j]]
  <2>2. o \in OrderType /\ o # NoOrder
    BY <1>t, ConstantsAssumption DEF OrderType, NoOrder, TypeInv, TypeOK
  <2>3. order' = [order EXCEPT ![a] = o]
    BY <2>1
  <2> HIDE DEF o
  <2> QED
    BY <1>3, <1>t, <1>c, <2>2, <2>3 DEF Poll, FleetTypeOK
<1>4. ASSUME NEW a \in Agents, NEW c \in Calls, Complete(a, c) PROVE FleetTypeOK'
  BY <1>4, <1>t, <1>c DEF Complete, Leave, Enter, FleetTypeOK
<1>5. ASSUME NEW a \in Agents, Report(a) PROVE FleetTypeOK'
  <2>1. \A t \in LaterTicks(nextReport[a]) : t \in Nat \ {0}
    <3>1. nextReport[a] \in Nat /\ ReportInterval \in Nat \ {0} /\ clock \in Nat
      BY <1>t, FleetAssumption DEF FleetTypeOK, TypeInv, TypeOK
    <3> QED
      BY <3>1 DEF LaterTicks
  <2> QED
    BY <1>5, <1>t, <2>1 DEF Report, FleetTypeOK
<1>6. ASSUME NEW a \in Agents, Sigterm(a) PROVE FleetTypeOK'
  <2>1. faults' \in 0 .. MaxFaults
    BY <1>6, <1>t, FleetAssumption DEF Sigterm, FleetTypeOK
  <2>2. CASE phase[a] = "polling"
    BY <1>6, <1>t, <1>c, <2>1, <2>2 DEF Sigterm, Enter, FleetTypeOK
  <2>3. CASE phase[a] # "polling"
    <3>1. /\ UNCHANGED <<phase, waiting, order, nextReport>>
          /\ leaving' = [leaving EXCEPT ![a] = TRUE]
      BY <1>6, <2>3 DEF Sigterm
    <3> QED
      BY <1>t, <2>1, <3>1 DEF FleetTypeOK
  <2> QED
    BY <2>2, <2>3
<1>7. ASSUME NEW a \in Agents, Crash(a) PROVE FleetTypeOK'
  <2>1. faults' \in 0 .. MaxFaults
    BY <1>7, <1>t, FleetAssumption DEF Crash, FleetTypeOK
  <2> QED
    BY <1>7, <1>t, <1>c, <2>1 DEF Crash, Enter, FleetTypeOK
<1>8. ASSUME NEW c \in Calls, Idle(c) PROVE FleetTypeOK'
  BY <1>8, <1>t, <1>c DEF Idle, FleetTypeOK
<1>9. ASSUME NEW c \in Calls, Run(c) PROVE FleetTypeOK'
  BY <1>9, <1>t, <1>c DEF Run, FleetTypeOK
<1>10. ASSUME ServerStep \/ FleetTick PROVE FleetTypeOK'
  BY <1>10, <1>t DEF ServerStep, FleetTick, agentVars, FleetTypeOK
<1> QED
  BY <1>0, <1>1, <1>1a, <1>1b, <1>2, <1>3, <1>4, <1>5, <1>6, <1>7, <1>8, <1>9, <1>10
     DEF FleetNext, AgentStep, PollStep

-----------------------------------------------------------------------------

\* FleetInv is an invariant: the inductive argument of everything below.
THEOREM FleetInvariant == FleetSpec => []FleetInv
<1>1. FleetInit => FleetInv
  <2> SUFFICES ASSUME FleetInit PROVE FleetInv
    OBVIOUS
  <2>1. TypeInv
    BY NoCallType DEF FleetInit, Init, TypeInv, TypeOK, LocalsOK, JobStatuses, SpawnStatuses
  <2>2. FleetTypeOK
    BY FleetAssumption DEF FleetInit, FleetTypeOK, Phases, OrderType
  <2>3. OrdersGranted /\ WaitsMatch
    BY FleetAssumption DEF FleetInit, OrdersGranted, WaitsMatch, Working
  <2> QED
    BY <2>1, <2>2, <2>3 DEF FleetInv
<1>2. FleetInv /\ [FleetNext]_fleetVars => FleetInv'
  <2> SUFFICES ASSUME FleetInv, [FleetNext]_fleetVars PROVE FleetInv'
    OBVIOUS
  <2>1. TypeInv'
    BY StepUses, TypeInvStep DEF FleetInv
  <2> QED
    BY <2>1, FleetTypeStep, OrdersStayGranted, WaitsStayMatched DEF FleetInv
<1> QED
  BY <1>1, <1>2, PTL DEF FleetSpec

\* Phases, orders and polls in flight agree, whatever answers are lost and
\* whichever agents crash or are told to terminate.
THEOREM FleetTyped == FleetSpec => []FleetTypeOK
BY FleetInvariant, PTL DEF FleetInv

\* The fleet drives the control plane only as ControlPlane's Spec allows: no
\* agent reports on a spawn it was not granted.
THEOREM FleetUses == FleetSpec => UsesControlPlane
<1>1. FleetInit => Init
  BY DEF FleetInit
<1>2. FleetInv /\ [FleetNext]_fleetVars => [Next]_vars
  BY StepUses
<1> QED
  BY <1>1, <1>2, FleetInvariant, PTL DEF FleetSpec, UsesControlPlane, Spec

\* Two agents at work on one job never share a slot, from the answer to the
\* completion report: they were granted it, grants agree with JOB_SPAWNS, and
\* slots are distinct there.
THEOREM SlotsHeldOnce == FleetSpec => []OneAgentPerSlot
<1>1. FleetInv /\ TableInv => OneAgentPerSlot
  <2> SUFFICES ASSUME FleetInv, TableInv, NEW a \in Agents, NEW b \in Agents, a # b,
                      phase[a] \in Working, phase[b] \in Working,
                      order[a].job = order[b].job
               PROVE  slot[order[a].job][a] # slot[order[b].job][b]
    BY DEF OneAgentPerSlot, Working
  <2> DEFINE j == order[a].job
  <2>1. j \in Jobs
    BY DEF FleetInv, FleetTypeOK, OrderType, Working
  <2>2. Granted(j, a) /\ Granted(j, b)
    BY DEF FleetInv, OrdersGranted
  <2>3. a \in SpawnsOf(j) /\ b \in SpawnsOf(j)
    BY <2>2 DEF Granted, TableInv, GrantsMatch, SpawnsOf
  <2> QED
    BY <2>1, <2>3 DEF TableInv, SlotsDense
<1>2. FleetSpec => []TableInv
  BY FleetUses, TablesInvariant DEF UsesControlPlane
<1> QED
  BY <1>1, <1>2, FleetInvariant, PTL

-----------------------------------------------------------------------------
(* Why no sweep fails a healthy agent *)

\* Everybody is prompt, and the hold of a job and the interval its first report
\* takes are together no longer than a spawn may be silent: by default 30 s of
\* START_DELAY, 10 s of METRICS_INTERVAL_SECONDS and 90 s of
\* SPAWN_STALE_AFTER_MS.
ShortHolds ==
    /\ Prompt
    /\ ReportInterval + Lag <= StaleAfter
    /\ \A q \in Requests : q.delay + ReportInterval <= StaleAfter

\* No first report is further off than a spawn may be silent, and no activation
\* has a Date.now() other than the time it is.
TimesKnown ==
    /\ \A j \in Jobs : startAt[j] + ReportInterval <= clock + StaleAfter
    /\ \A a \in Agents : order[a].start + ReportInterval <= clock + StaleAfter
    /\ \A c \in Calls : call[c].pc \in {"poll_spawn", "poll_touch", "poll_claim"}
                            => call[c].now = clock
    /\ \A c \in Crons : call[c].pc = "reap_stale" => call[c].now <= clock

Seen(a) == lastSeen[order[a].job][a]

\* The poll an agent waits for has written LAST_SEEN by the time it answers.
WaiterSeen(a) ==
    \A c \in Calls : waiting[a] = c =>
        /\ call[c].pc \in {"poll_claim", "poll_read"}
            => spawnStatus[order[a].job][a] = "NONE" \/ Seen(a) = clock
        /\ call[c].pc = "poll_promote" => Seen(a) = clock

\* An agent at work was heard of lately enough: its next report is ahead and
\* comes before the silence counts, also while it still holds.
AtWorkSeen(a) ==
    /\ phase[a] = "holding" =>
        /\ clock <= Seen(a) \/ clock <= order[a].start
        /\ order[a].start + ReportInterval <= Seen(a) + StaleAfter
    /\ phase[a] = "loading" =>
        /\ clock <= nextReport[a] /\ nextReport[a] <= clock + ReportInterval
        /\ nextReport[a] <= Seen(a) + StaleAfter

HealthInv ==
    /\ ShortHolds
    /\ FleetInv /\ TableInv
    /\ TimesKnown
    /\ \A a \in Agents : WaiterSeen(a) /\ AtWorkSeen(a)

\* Only the clock moves the clock.
LEMMA ClockMoves ==
    ASSUME [FleetNext]_fleetVars
    PROVE  clock' = clock \/ FleetTick
<1>0. ASSUME UNCHANGED vars PROVE clock' = clock
  BY <1>0 DEF vars
<1>1. ASSUME NEW a \in Agents,
             \/ Boot(a) \/ PollFails(a) \/ BeginLoad(a) \/ HoldInterrupted(a)
             \/ EndLoad(a) \/ WatchStatus(a) \/ Sigterm(a) \/ Crash(a)
      PROVE  clock' = clock
  BY <1>0, <1>1, Zenon DEF Boot, PollFails, BeginLoad, HoldInterrupted, EndLoad,
                       WatchStatus, Finish, Sigterm, Crash
<1>2. ASSUME NEW a \in Agents, NEW c \in Calls, Poll(a, c) \/ Complete(a, c)
      PROVE  clock' = clock
  BY <1>0, <1>2, Zenon DEF Poll, PollSelectJob, Complete, CompletionRead
<1>3. ASSUME NEW a \in Agents, Report(a) \/ Flush(a) PROVE clock' = clock
  BY <1>0, <1>3, Zenon DEF Report, Flush, MetricsBatch
<1>4. ASSUME NEW c \in Calls, PollStep(c) \/ Run(c) PROVE clock' = clock
  BY <1>4, Zenon DEF PollStep, Run, PollSelectSpawn, PollTouch, PollClaim, PollReadSlot,
              PollPromote
<1>5. ASSUME NEW c \in Calls \union Crons, Abort(c) PROVE clock' = clock
  BY <1>5, Zenon DEF Abort
<1>6. ASSUME NEW c \in Calls, \/ StartCheck(c) \/ StartInsert(c) \/ CompleteMark(c)
                              \/ CompleteCount(c) \/ CompleteClose(c)
      PROVE  clock' = clock
  BY <1>6, Zenon DEF StartCheck, StartInsert, CompleteMark, CompleteCount, CompleteClose
<1>7. ASSUME NEW c \in Crons, ReapBegin(c) \/ ReaperStep(c) PROVE clock' = clock
  BY <1>7, Zenon DEF ReapBegin, ReaperStep, ReapStale, ReapSelect, ReapCount,
                     ReapFinalise, ReapOrphans, ReapStopping
<1>8. ASSUME NEW j \in Jobs, StopJob(j) PROVE clock' = clock
  BY <1>8, Zenon DEF StopJob
<1> QED
  BY <1>0, <1>1, <1>2, <1>3, <1>4, <1>5, <1>6, <1>7, <1>8
     DEF FleetNext, AgentStep, ServerStep, fleetVars

\* LAST_SEEN is written with the time it is, or by an agent that loads or
\* flushes, within Lag of it.
LEMMA SeenWritten ==
    ASSUME FleetInv, TimesKnown, [FleetNext]_fleetVars,
           NEW j \in Jobs, NEW a \in Agents
    PROVE  \/ lastSeen'[j][a] \in {lastSeen[j][a], clock}
           \/ /\ phase'[a] \in {"loading", "completing"}
              /\ lastSeen'[j][a] \in Nat /\ clock <= lastSeen'[j][a] + Lag
<1> DEFINE Goal == \/ lastSeen'[j][a] \in {lastSeen[j][a], clock}
                   \/ /\ phase'[a] \in {"loading", "completing"}
                      /\ lastSeen'[j][a] \in Nat /\ clock <= lastSeen'[j][a] + Lag
<1>t. /\ lastSeen \in [Jobs -> [Agents -> Nat]]
      /\ phase \in [Agents -> Phases]
      /\ \A b \in Agents : phase[b] \in Working => order[b].job \in Jobs
  BY DEF FleetInv, FleetTypeOK, Working, OrderType, TypeInv, TypeOK
<1>same. ASSUME lastSeen' = lastSeen PROVE Goal
  BY <1>same
<1>0. ASSUME UNCHANGED vars PROVE Goal
  BY <1>0 DEF vars, spawnVars
<1>m. ASSUME NEW b \in Agents, MetricsBatch(order[b].job, b), phase[b] \in Working,
             b = a => phase'[a] \in {"loading", "completing"}
      PROVE  Goal
  <2>1. PICK now \in Stamps : lastSeen' = [lastSeen EXCEPT ![order[b].job][b] = now]
    BY <1>m DEF MetricsBatch
  <2>2. now \in Nat /\ clock <= now + Lag
    BY DEF Stamps, TypeInv, TypeOK, FleetInv
  <2>3. order[b].job \in Jobs
    BY <1>m, <1>t
  <2>4. lastSeen'[j][a] = IF order[b].job = j /\ a = b THEN now ELSE lastSeen[j][a]
    BY <2>1, <2>3, <1>t
  <2> QED
    BY <1>m, <2>2, <2>4
<1>p. ASSUME NEW c \in Calls, PollTouch(c) \/ PollClaim(c) PROVE Goal
  <2>1. call[c].now = clock
    BY <1>p DEF TimesKnown, PollTouch, PollClaim
  <2>2. call[c].job \in Jobs /\ call[c].agent \in Agents
    BY <1>p DEF PollTouch, PollClaim, FleetInv, TypeInv, LocalsOK, LocalOK, HandlerPcs
  <2>3. lastSeen' \in {lastSeen, [lastSeen EXCEPT ![call[c].job][call[c].agent] = clock]}
    BY <1>p, <2>1 DEF PollTouch, PollClaim, spawnVars
  <2> QED
    BY <2>2, <2>3, <1>t
<1> HIDE DEF Goal
<1>1. ASSUME NEW b \in Agents,
             \/ Boot(b) \/ PollFails(b) \/ BeginLoad(b) \/ HoldInterrupted(b)
             \/ EndLoad(b) \/ WatchStatus(b) \/ Sigterm(b) \/ Crash(b)
      PROVE  Goal
  BY <1>0, <1>1, Zenon DEF Boot, PollFails, BeginLoad, HoldInterrupted, EndLoad,
                       WatchStatus, Finish, Sigterm, Crash
<1>2. ASSUME NEW b \in Agents, NEW c \in Calls, Poll(b, c) \/ Complete(b, c)
      PROVE  Goal
  BY <1>0, <1>same, <1>2 DEF Poll, PollSelectJob, Complete, CompletionRead, spawnVars
<1>3. ASSUME NEW b \in Agents, Report(b) PROVE Goal
  <2>1. /\ phase[b] = "loading" /\ phase' = phase
        /\ MetricsBatch(order[b].job, b) \/ UNCHANGED vars
    BY <1>3 DEF Report
  <2> QED
    BY <2>1, <1>m, <1>0 DEF Working
<1>4. ASSUME NEW b \in Agents, Flush(b) PROVE Goal
  <2>1. /\ phase[b] = "finishing" /\ phase' = [phase EXCEPT ![b] = "completing"]
        /\ MetricsBatch(order[b].job, b) \/ UNCHANGED vars
    BY <1>4 DEF Flush, Enter
  <2> QED
    BY <2>1, <1>m, <1>0, <1>t DEF Working
<1>5. ASSUME NEW c \in Calls, PollSelectSpawn(c) \/ PollReadSlot(c) \/ PollPromote(c)
      PROVE  Goal
  BY <1>same, <1>5 DEF PollSelectSpawn, PollReadSlot, PollPromote, spawnVars
<1>6. ASSUME NEW c \in Calls \union Crons, Abort(c) PROVE Goal
  BY <1>same, <1>6 DEF Abort, spawnVars
<1>7. ASSUME NEW c \in Calls, \/ StartCheck(c) \/ StartInsert(c) \/ CompleteMark(c)
                              \/ CompleteCount(c) \/ CompleteClose(c)
      PROVE  Goal
  BY <1>same, <1>7 DEF StartCheck, StartInsert, CompleteMark, CompleteCount,
     CompleteClose, spawnVars
<1>8. ASSUME NEW c \in Crons, ReapBegin(c) \/ ReaperStep(c) PROVE Goal
  BY <1>same, <1>8 DEF ReapBegin, ReaperStep, ReapStale, ReapSelect, ReapCount,
                     ReapFinalise, ReapOrphans, ReapStopping, spawnVars
<1>9. ASSUME NEW k \in Jobs, StopJob(k) PROVE Goal
  BY <1>same, <1>9 DEF StopJob, spawnVars
<1>10. ASSUME FleetTick PROVE Goal
  BY <1>same, <1>10 DEF FleetTick, Tick, spawnVars
<1> QED
  <2>1. Goal
    BY <1>0, <1>p, <1>1, <1>2, <1>3, <1>4, <1>5, <1>6, <1>7, <1>8, <1>9, <1>10
       DEF FleetNext, AgentStep, ServerStep, PollStep, Run, fleetVars
  <2> QED
    BY <2>1 DEF Goal

\* START_AT is set once, to a time no further off than the delay asked for.
LEMMA StartsKnown ==
    ASSUME HealthInv, [FleetNext]_fleetVars, NEW j \in Jobs
    PROVE  startAt'[j] = startAt[j] \/ startAt'[j] + ReportInterval <= clock + StaleAfter
<1> DEFINE Goal == startAt'[j] = startAt[j]
                   \/ startAt'[j] + ReportInterval <= clock + StaleAfter
<1>same. ASSUME startAt' = startAt PROVE Goal
  BY <1>same
<1>1. ASSUME NEW c \in Calls, StartInsert(c) PROVE Goal
  <2>1. ValidRequest(call[c].req) /\ call[c] \in CallType /\ clock \in Nat
    BY <1>1 DEF StartInsert, HealthInv, TableInv, TypeInv, TypeOK, LocalsOK, LocalOK
  <2>2. call[c].req \in Requests /\ call[c].req.delay \in Nat /\ call[c].now \in Nat
    BY <2>1, ValidRequestType DEF CallType
  <2>3. /\ call[c].req.delay + ReportInterval <= StaleAfter
        /\ StaleAfter \in Nat /\ ReportInterval \in Nat
    BY <2>2, ConstantsAssumption, FleetAssumption DEF HealthInv, ShortHolds
  <2>4. PICK k \in Jobs, now \in call[c].now..clock :
            startAt' = [startAt EXCEPT ![k] = now + call[c].req.delay]
    BY <1>1 DEF StartInsert
  <2>5. now + call[c].req.delay + ReportInterval <= clock + StaleAfter
    BY <2>1, <2>2, <2>3, <2>4
  <2>6. startAt \in [Jobs -> Nat]
    BY DEF HealthInv, TableInv, TypeInv, TypeOK
  <2> QED
    BY <2>4, <2>5, <2>6
<1> HIDE DEF Goal
<1>2. ASSUME NEW c \in Calls, \/ StartCheck(c) \/ CompleteMark(c) \/ CompleteCount(c)
                              \/ CompleteClose(c) \/ PollSelectSpawn(c) \/ PollTouch(c)
                              \/ PollClaim(c) \/ PollReadSlot(c) \/ PollPromote(c)
      PROVE  Goal
  BY <1>same, <1>2 DEF StartCheck, CompleteMark, CompleteCount, CompleteClose,
     PollSelectSpawn, PollTouch, PollClaim, PollReadSlot, PollPromote, jobVars
<1>3. ASSUME NEW c \in Calls, NEW a \in Agents, PollSelectJob(c, a) PROVE Goal
  BY <1>same, <1>3 DEF PollSelectJob, jobVars
<1>4. ASSUME NEW c \in Calls, NEW k \in Jobs, NEW a \in Agents, CompleteRead(c, k, a)
      PROVE  Goal
  BY <1>same, <1>4 DEF CompleteRead, CompletionRead, jobVars
<1>5. ASSUME NEW c \in Crons, ReapBegin(c) \/ ReaperStep(c) PROVE Goal
  BY <1>same, <1>5 DEF ReapBegin, ReaperStep, ReapStale, ReapSelect, ReapCount,
     ReapFinalise, ReapOrphans, ReapStopping, jobVars
<1>6. ASSUME NEW c \in Calls \union Crons, Abort(c) PROVE Goal
  BY <1>same, <1>6 DEF Abort, jobVars
<1>7. ASSUME NEW k \in Jobs, NEW a \in Agents, RecordMetrics(k, a) \/ CompleteError(k, a)
      PROVE  Goal
  BY <1>same, <1>7 DEF RecordMetrics, MetricsBatch, CompleteError, jobVars
<1>7a. ASSUME NEW k \in Jobs, StopJob(k) PROVE Goal
  BY <1>same, <1>7a DEF StopJob
<1>8. ASSUME Tick \/ UNCHANGED vars PROVE Goal
  BY <1>same, <1>8 DEF Tick, vars, jobVars
<1>9. [Next]_vars
  BY StepUses DEF HealthInv
<1> QED
  <2>1. Goal
    BY <1>1, <1>2, <1>3, <1>4, <1>5, <1>6, <1>7, <1>7a, <1>8, <1>9
       DEF Next, HandlerStep
  <2> QED
    BY <2>1 DEF Goal

\* A prompt activation never works with a time that has gone by.
LEMMA NowKnown ==
    ASSUME HealthInv, [FleetNext]_fleetVars
    PROVE  /\ \A c \in Calls : call'[c].pc \in {"poll_spawn", "poll_touch", "poll_claim"}
                                => call'[c].now = clock'
           /\ \A c \in Crons : call'[c].pc = "reap_stale" => call'[c].now <= clock'
<1> DEFINE Dated == {"poll_spawn", "poll_touch", "poll_claim", "reap_stale"}
           Fresh(l) == l.pc \notin Dated \/ l.now = clock
           Goal == /\ \A c \in Calls : call'[c].pc \in {"poll_spawn", "poll_touch", "poll_claim"}
                                => call'[c].now = clock'
                   /\ \A c \in Crons : call'[c].pc = "reap_stale" => call'[c].now <= clock'
<1>t. /\ call \in [Calls \union Crons -> CallType] /\ clock \in Nat
      /\ \A c \in Calls \union Crons : call[c].now \in Nat
      /\ TimesKnown
  BY DEF HealthInv, TableInv, TypeInv, TypeOK, CallType
<1>k. clock' = clock \/ FleetTick
  BY ClockMoves
<1>9. ASSUME FleetTick PROVE Goal
  <2>1. clock' = clock + 1 /\ call' = call
    BY <1>9 DEF FleetTick, Tick
  <2>2. \A c \in Calls : call[c].pc = "idle"
    BY <1>9 DEF FleetTick, HealthInv, ShortHolds
  <2> QED
    BY <2>1, <2>2, <1>t DEF TimesKnown
<1> SUFFICES ASSUME clock' = clock PROVE Goal
  BY <1>k, <1>9
<1>same. ASSUME call' = call PROVE Goal
  BY <1>same, <1>t DEF TimesKnown
<1>m. ASSUME NEW d \in Calls \union Crons, NEW l, Goto(d, l), Fresh(l) PROVE Goal
  <2>1. \A c \in Calls \union Crons : call'[c] = IF c = d THEN l ELSE call[c]
    BY <1>m, <1>t DEF Goto
  <2> QED
    BY <2>1, <1>m, <1>t DEF TimesKnown
<1>r. ASSUME NEW d \in Calls \union Crons, Return(d) PROVE Goal
  BY <1>m, <1>r DEF Return, NoCall
<1> HIDE DEF Goal
<1>1. ASSUME NEW c \in Calls, NEW a \in Agents, PollSelectJob(c, a) PROVE Goal
  <2>1. \E l : Goto(c, l) /\ l.now = clock
    <3> PICK j \in Jobs :
            Goto(c, [NoCall EXCEPT !.pc = "poll_spawn", !.job = j, !.agent = a,
                               !.status = jobStatus[j], !.until = stopAt[j],
                               !.now = clock])
      BY <1>1, Zenon DEF PollSelectJob
    <3> DEFINE st == jobStatus[j]
               un == stopAt[j]
               l == [NoCall EXCEPT !.pc = "poll_spawn", !.job = j, !.agent = a,
                               !.status = st, !.until = un, !.now = clock]
    <3>1. Goto(c, l)
      OBVIOUS
    <3> HIDE DEF st, un
    <3>2. l.now = clock
      BY DEF NoCall
    <3> HIDE DEF l
    <3> QED
      BY <3>1, <3>2
  <2> QED
    BY <2>1, <1>m
<1>2. ASSUME NEW c \in Calls, PollSelectSpawn(c) PROVE Goal
  <2> DEFINE s == slot[call[c].job][call[c].agent]
             touch(now) == [call[c] EXCEPT !.pc = "poll_touch", !.now = now,
                                   !.until = 0, !.slot = s]
             claim(now) == [call[c] EXCEPT !.pc = "poll_claim", !.now = now,
                                   !.until = 0]
  <2>1. Return(c) \/ \E now \in call[c].now..clock : Goto(c, touch(now)) \/ Goto(c, claim(now))
    BY <1>2, Zenon DEF PollSelectSpawn
  <2> HIDE DEF s
  <2>2. call[c].now = clock
    BY <1>2, <1>t DEF TimesKnown, PollSelectSpawn
  <2>3. ASSUME NEW now \in call[c].now..clock
        PROVE  touch(now).now = clock /\ claim(now).now = clock
    <3>1. now = clock
      BY <2>2, <1>t
    <3> QED
      BY <3>1, <1>t DEF CallType
  <2> HIDE DEF touch, claim
  <2> QED
    BY <1>r, <1>m, <2>1, <2>3
<1>3. ASSUME NEW c \in Calls, PollTouch(c) PROVE Goal
  <2> DEFINE l == [call[c] EXCEPT !.pc = "poll_promote", !.now = 0]
  <2>1. Goto(c, l)
    BY <1>3, Zenon DEF PollTouch
  <2>2. Fresh(l)
    BY <1>t DEF CallType
  <2> HIDE DEF l
  <2> QED
    BY <2>1, <2>2, <1>m
<1>4. ASSUME NEW c \in Calls, PollClaim(c) PROVE Goal
  <2> DEFINE l == [call[c] EXCEPT !.pc = "poll_read", !.now = 0]
  <2>1. Goto(c, l)
    BY <1>4, Zenon DEF PollClaim
  <2>2. Fresh(l)
    BY <1>t DEF CallType
  <2> HIDE DEF l
  <2> QED
    BY <2>1, <2>2, <1>m
<1>5. ASSUME NEW c \in Calls, PollReadSlot(c) PROVE Goal
  <2> DEFINE s == ClaimedSlot(call[c].job, call[c].agent)
             l == [call[c] EXCEPT !.pc = "poll_promote", !.slot = s]
  <2>1. Return(c) \/ Goto(c, l)
    BY <1>5, Zenon DEF PollReadSlot
  <2> HIDE DEF s
  <2>2. Fresh(l)
    BY <1>t DEF CallType
  <2> HIDE DEF l
  <2> QED
    BY <2>1, <2>2, <1>m, <1>r
<1>6. ASSUME NEW c \in Calls, PollPromote(c) \/ CompleteClose(c) PROVE Goal
  BY <1>6, <1>r DEF PollPromote, CompleteClose
<1>7. ASSUME NEW c \in Calls, CompleteMark(c) PROVE Goal
  <2> DEFINE l == [call[c] EXCEPT !.pc = "complete_count"]
  <2>1. Goto(c, l)
    BY <1>7, Zenon DEF CompleteMark
  <2>2. Fresh(l)
    BY <1>t DEF CallType
  <2> HIDE DEF l
  <2> QED
    BY <2>1, <2>2, <1>m
<1>7a. ASSUME NEW c \in Calls, CompleteCount(c) PROVE Goal
  <2> DEFINE l == [call[c] EXCEPT !.pc = "complete_close"]
  <2>1. Return(c) \/ Goto(c, l)
    BY <1>7a, Zenon DEF CompleteCount
  <2>2. Fresh(l)
    BY <1>t DEF CallType
  <2> HIDE DEF l
  <2> QED
    BY <2>1, <2>2, <1>m, <1>r
<1>8. ASSUME NEW c \in Calls, NEW j \in Jobs, NEW a \in Agents, CompleteRead(c, j, a)
      PROVE  Goal
  <2> DEFINE st == IF jobStatus[j] \in {"STOPPING", "STOPPED"} THEN "STOPPED" ELSE "COMPLETED"
             l == [NoCall EXCEPT !.pc = "complete_mark", !.job = j, !.agent = a,
                           !.status = st]
  <2>1. Goto(c, l)
    BY <1>8, Zenon DEF CompleteRead, CompletionRead
  <2> HIDE DEF st
  <2>2. Fresh(l)
    BY DEF NoCall
  <2> HIDE DEF l
  <2> QED
    BY <2>1, <2>2, <1>m
<1>10. ASSUME NEW c \in Calls, StartCheck(c) PROVE Goal
  <2> PICK q \in Requests :
        Goto(c, [NoCall EXCEPT !.pc = "start_insert", !.req = q, !.now = clock])
    BY <1>10, Zenon DEF StartCheck
  <2> DEFINE l == [NoCall EXCEPT !.pc = "start_insert", !.req = q, !.now = clock]
  <2>1. Goto(c, l)
    OBVIOUS
  <2>2. Fresh(l)
    BY DEF NoCall
  <2> HIDE DEF l
  <2> QED
    BY <2>1, <2>2, <1>m
<1>11. ASSUME NEW c \in Calls, StartInsert(c) PROVE Goal
  BY <1>11, <1>r DEF StartInsert
<1>12. ASSUME NEW c \in Crons, ReapBegin(c) PROVE Goal
  <2> DEFINE l == [NoCall EXCEPT !.pc = "reap_stale", !.now = clock]
  <2>1. Goto(c, l)
    BY <1>12, Zenon DEF ReapBegin
  <2>2. Fresh(l)
    BY DEF NoCall
  <2> HIDE DEF l
  <2> QED
    BY <2>1, <2>2, <1>m
<1>13. ASSUME NEW c \in Crons, ReapStale(c) PROVE Goal
  <2> DEFINE l == [call[c] EXCEPT !.pc = "reap_select"]
  <2>1. Goto(c, l)
    BY <1>13, Zenon DEF ReapStale
  <2>2. Fresh(l)
    BY <1>t DEF CallType
  <2> HIDE DEF l
  <2> QED
    BY <2>1, <2>2, <1>m
<1>14. ASSUME NEW c \in Crons, ReapSelect(c) PROVE Goal
  <2> DEFINE l(e) == [call[c] EXCEPT !.pc = LoopPc(e), !.todo = e]
  <2>1. \E e : Goto(c, l(e))
    BY <1>14, Zenon DEF ReapSelect
  <2>2. ASSUME NEW e PROVE Fresh(l(e))
    BY <1>t DEF CallType, LoopPc
  <2> HIDE DEF l
  <2> QED
    BY <2>1, <2>2, <1>m
<1>15. ASSUME NEW c \in Crons, ReapCount(c) PROVE Goal
  <2> DEFINE l(j, o) == [call[c] EXCEPT !.pc = "reap_finalise", !.job = j, !.status = o]
  <2>1. \E j, o : Goto(c, l(j, o))
    BY <1>15, Zenon DEF ReapCount
  <2>2. ASSUME NEW j, NEW o PROVE Fresh(l(j, o))
    BY <1>t DEF CallType
  <2> HIDE DEF l
  <2> QED
    BY <2>1, <2>2, <1>m
<1>16. ASSUME NEW c \in Crons, ReapFinalise(c) PROVE Goal
  <2> DEFINE l(e) == [call[c] EXCEPT !.pc = LoopPc(e), !.todo = e,
                            !.job = None, !.status = "NONE"]
  <2>1. \E e : Goto(c, l(e))
    BY <1>16, Zenon DEF ReapFinalise
  <2>2. ASSUME NEW e PROVE Fresh(l(e))
    BY <1>t DEF CallType, LoopPc
  <2> HIDE DEF l
  <2> QED
    BY <2>1, <2>2, <1>m
<1>17. ASSUME NEW c \in Crons, ReapOrphans(c) PROVE Goal
  <2> DEFINE l == [call[c] EXCEPT !.pc = "reap_stopping", !.now = 0]
  <2>1. Goto(c, l)
    BY <1>17, Zenon DEF ReapOrphans
  <2>2. Fresh(l)
    BY <1>t DEF CallType
  <2> HIDE DEF l
  <2> QED
    BY <2>1, <2>2, <1>m
<1>18. ASSUME NEW c \in Crons, ReapStopping(c) PROVE Goal
  BY <1>18, <1>r, Zenon DEF ReapStopping
<1>19. ASSUME NEW c \in Calls \union Crons, Abort(c) PROVE Goal
  BY <1>19, <1>r DEF Abort
<1>20. ASSUME NEW j \in Jobs, NEW a \in Agents, RecordMetrics(j, a) \/ CompleteError(j, a)
       PROVE  Goal
  BY <1>20, <1>same DEF RecordMetrics, MetricsBatch, CompleteError
<1>21. ASSUME NEW j \in Jobs, StopJob(j) PROVE Goal
  BY <1>21, <1>same DEF StopJob
<1>22. ASSUME Tick \/ UNCHANGED vars PROVE Goal
  BY <1>22, <1>same DEF Tick, vars
<1>23. [Next]_vars
  BY StepUses DEF HealthInv
<1> QED
  BY <1>1, <1>2, <1>3, <1>4, <1>5, <1>6, <1>7, <1>7a, <1>8, <1>10, <1>11, <1>12, <1>13, <1>14,
     <1>15, <1>16, <1>17, <1>18, <1>19, <1>20, <1>21, <1>22, <1>23
     DEF Next, HandlerStep, ReaperStep

\* Orders are read from rows, so their starts are known too.
LEMMA TimesKnownStep ==
    ASSUME HealthInv, [FleetNext]_fleetVars
    PROVE  TimesKnown'
<1> DEFINE Near(start) == start \in Nat /\ start + ReportInterval <= clock + StaleAfter
<1>t. /\ FleetTypeOK /\ StaleAfter \in Nat /\ clock \in Nat
      /\ ReportInterval \in Nat /\ ReportInterval <= StaleAfter
      /\ \A j \in Jobs : Near(startAt[j])
      /\ \A a \in Agents : Near(order[a].start)
  <2>1. \A a \in Agents : order[a].start \in Nat
    BY DEF HealthInv, FleetInv, FleetTypeOK, OrderType, NoOrder
  <2> QED
    BY <2>1, ConstantsAssumption, FleetAssumption
       DEF HealthInv, ShortHolds, FleetInv, TableInv, TypeInv, TypeOK, TimesKnown
<1>c. clock' \in {clock, clock + 1}
  BY ClockMoves DEF FleetTick, Tick
<1>1. \A j \in Jobs : startAt'[j] + ReportInterval <= clock' + StaleAfter
  <2>1. \A j \in Jobs : startAt'[j] \in Nat
    BY StepUses, TypeInvStep DEF HealthInv, FleetInv, TypeInv, TypeOK
  <2> QED
    BY <1>t, <1>c, <2>1, StartsKnown
<1>2. ASSUME NEW a \in Agents PROVE order'[a].start + ReportInterval <= clock' + StaleAfter
  <2> DEFINE Old == order'[a] = order[a] \/ order'[a] = NoOrder
             New == \E j \in Jobs : order'[a] = [job |-> j, start |-> startAt[j], stop |-> stopAt[j]]
  <2>0. ASSUME UNCHANGED order PROVE Old
    BY <2>0
  <2>1. Old \/ New
    <3>1. ASSUME NEW b \in Agents,
                 \/ Boot(b) \/ BeginLoad(b) \/ HoldInterrupted(b) \/ EndLoad(b)
                 \/ WatchStatus(b) \/ Flush(b) \/ Report(b)
          PROVE  Old
      BY <3>1 DEF Boot, BeginLoad, HoldInterrupted, EndLoad, WatchStatus, Finish,
                  Flush, Report
    <3>2. ASSUME NEW b \in Agents, PollFails(b) \/ Sigterm(b) \/ Crash(b) PROVE Old
      BY <3>2, <1>t DEF PollFails, Sigterm, Crash, FleetTypeOK
    <3>3. ASSUME NEW b \in Agents, NEW c \in Calls, Poll(b, c) PROVE Old \/ New
      BY <3>3, <1>t DEF Poll, FleetTypeOK
    <3>4. ASSUME NEW b \in Agents, NEW c \in Calls, Complete(b, c) PROVE Old
      BY <3>4, <1>t DEF Complete, Leave, FleetTypeOK
    <3>5. ASSUME NEW c \in Calls, Idle(c) \/ Run(c) PROVE Old
      BY <3>5, <1>t DEF Idle, Run
    <3>6. ASSUME ServerStep \/ FleetTick \/ UNCHANGED fleetVars PROVE Old
      BY <3>6 DEF ServerStep, FleetTick, fleetVars, agentVars
    <3> HIDE DEF Old, New
    <3> QED
      BY <3>1, <3>2, <3>3, <3>4, <3>5, <3>6 DEF FleetNext, AgentStep, PollStep
  <2>2. Near(order'[a].start)
    <3>1. CASE Old
      BY <3>1, <1>t DEF NoOrder
    <3>2. CASE New
      BY <3>2, <1>t
    <3> QED
      BY <2>1, <3>1, <3>2
  <2> QED
    BY <2>2, <1>t, <1>c
<1> QED
  BY <1>1, <1>2, NowKnown DEF TimesKnown

\* A row that appears has just been claimed, and its LAST_SEEN is the time.
LEMMA ClaimIsSeen ==
    ASSUME HealthInv, [FleetNext]_fleetVars, NEW j \in Jobs, NEW a \in Agents,
           spawnStatus[j][a] = "NONE", spawnStatus'[j][a] # "NONE"
    PROVE  lastSeen'[j][a] = clock
<1>1. TypeInv /\ AllReadsHold /\ GrantsMatch /\ TimesKnown /\ [Next]_vars
  BY StepUses DEF HealthInv, TableInv
<1>2. ~SameRows
  BY DEF SameRows
<1>3. PICK c \in Calls : StartInsert(c) \/ PollClaim(c)
  BY <1>1, <1>2, RowEffects
<1>4. PollClaim(c)
  BY <1>1, <1>3, StartEffect
<1>5. /\ j = call[c].job /\ a = call[c].agent
      /\ ~UNCHANGED spawnStatus
  BY <1>1, <1>4, ClaimEffect
<1>6. lastSeen' = [lastSeen EXCEPT ![j][a] = call[c].now]
  BY <1>4, <1>5 DEF PollClaim, spawnVars
<1>7. call[c].now = clock
  BY <1>1, <1>4 DEF PollClaim, TimesKnown
<1> QED
  BY <1>1, <1>6, <1>7 DEF TypeInv, TypeOK

\* Whatever else reaches the database, the poll an agent waits for has put its
\* LAST_SEEN right before it answers.
LEMMA WaiterSeenStep ==
    ASSUME HealthInv, [FleetNext]_fleetVars, NEW a \in Agents
    PROVE  WaiterSeen(a)'
<1> SUFFICES ASSUME NEW d \in Calls, waiting'[a] = d
             PROVE  /\ call'[d].pc \in {"poll_claim", "poll_read"}
                        => spawnStatus'[order'[a].job][a] = "NONE" \/ Seen(a)' = clock'
                    /\ call'[d].pc = "poll_promote" => Seen(a)' = clock'
  BY DEF WaiterSeen
<1>t. FleetInv /\ TypeInv /\ TimesKnown
  BY DEF HealthInv, FleetInv
<1>1. waiting'[a] # None /\ phase'[a] = "polling"
  BY <1>t, FleetAssumption, FleetTypeStep DEF FleetTypeOK
<1>2. CASE call'[d].pc = "poll_spawn"
  BY <1>2
<1>3. ASSUME waiting[a] = d, order'[a] = order[a],
             \/ call'[d] = call[d]
             \/ PollSelectSpawn(d) \/ PollTouch(d) \/ PollClaim(d) \/ PollReadSlot(d)
      PROVE  /\ call'[d].pc \in {"poll_claim", "poll_read"}
                 => spawnStatus'[order'[a].job][a] = "NONE" \/ Seen(a)' = clock'
             /\ call'[d].pc = "poll_promote" => Seen(a)' = clock'
  <2> DEFINE j == order[a].job
  <2>1. call[d].pc \in PollPcs /\ call[d].agent = a /\ call[d].job = j
    BY <1>3, <1>t DEF FleetInv, WaitsMatch
  <2>2. j \in Jobs
    BY <1>t, <2>1 DEF TypeInv, LocalsOK, LocalOK, HandlerPcs, PollPcs
  <2>3. clock' = clock
    <3>1. ~FleetTick
      BY <2>1 DEF FleetTick, HealthInv, ShortHolds, PollPcs
    <3> QED
      BY <3>1, ClockMoves
  <2> HIDE DEF j
  <2>4. order'[a].job = j /\ Seen(a) = lastSeen[j][a] /\ Seen(a)' = lastSeen'[j][a]
    BY <1>3 DEF j, Seen
  <2>5. lastSeen'[j][a] \in {lastSeen[j][a], clock}
    BY <1>1, <1>t, <2>2, SeenWritten
  <2>6. /\ call[d].pc \in {"poll_claim", "poll_read"}
            => spawnStatus[j][a] = "NONE" \/ lastSeen[j][a] = clock
        /\ call[d].pc = "poll_promote" => lastSeen[j][a] = clock
    BY <1>3, <2>4 DEF HealthInv, WaiterSeen, j
  <2>7. spawnStatus[j][a] = "NONE" => spawnStatus'[j][a] = "NONE" \/ lastSeen'[j][a] = clock
    BY <2>2, ClaimIsSeen
  <2>c. call \in [Calls \union Crons -> CallType]
    BY <1>t DEF TypeInv, TypeOK
  <2>8. /\ call'[d].pc \in {"poll_claim", "poll_read"}
            => spawnStatus'[j][a] = "NONE" \/ lastSeen'[j][a] = clock
        /\ call'[d].pc = "poll_promote" => lastSeen'[j][a] = clock
    <3>1. CASE call'[d] = call[d]
      BY <3>1, <2>5, <2>6, <2>7
    <3>2. CASE PollSelectSpawn(d)
      <4>1. /\ UNCHANGED spawnVars
            /\ \/ call'[d].pc \in {"idle", "poll_touch"}
               \/ call'[d].pc = "poll_claim" /\ spawnStatus[j][a] = "NONE"
        <5> DEFINE s == slot[call[d].job][call[d].agent]
                   touch(now) == [call[d] EXCEPT !.pc = "poll_touch", !.now = now,
                                   !.until = 0, !.slot = s]
                   claim(now) == [call[d] EXCEPT !.pc = "poll_claim", !.now = now,
                                   !.until = 0]
        <5>1. /\ UNCHANGED spawnVars
              /\ \/ Return(d)
                 \/ \E now : Goto(d, touch(now))
                 \/ /\ spawnStatus[call[d].job][call[d].agent] = "NONE"
                    /\ \E now : Goto(d, claim(now))
          BY <3>2, Zenon DEF PollSelectSpawn
        <5> HIDE DEF s
        <5>2. \A now : touch(now).pc = "poll_touch" /\ claim(now).pc = "poll_claim"
          BY <2>c DEF CallType
        <5> HIDE DEF touch, claim
        <5>3. \A l : Goto(d, l) => call'[d] = l
          BY <2>c DEF Goto
        <5>4. Return(d) => call'[d].pc = "idle"
          BY <5>3 DEF Return, NoCall
        <5> QED
          BY <2>1, <5>1, <5>2, <5>3, <5>4
      <4> QED
        BY <4>1 DEF spawnVars
    <3>3. CASE PollTouch(d)
      <4>1. call[d].now = clock
        BY <3>3, <1>t DEF PollTouch, TimesKnown
      <4>2. lastSeen' = [lastSeen EXCEPT ![j][a] = clock]
        BY <3>3, <2>1, <4>1 DEF PollTouch
      <4>3. lastSeen'[j][a] = clock
        BY <1>t, <2>2, <4>2 DEF TypeInv, TypeOK
      <4> QED
        BY <4>3
    <3>4. CASE PollClaim(d)
      <4>1. call[d].pc = "poll_claim" /\ call'[d].pc = "poll_read"
        <5>1. Goto(d, [call[d] EXCEPT !.pc = "poll_read", !.now = 0])
          BY <3>4, Zenon DEF PollClaim
        <5> QED
          BY <3>4, <5>1, <2>c DEF Goto, CallType, PollClaim
      <4> QED
        BY <4>1, <2>5, <2>6, <2>7
    <3>5. CASE PollReadSlot(d)
      <4>1. /\ call[d].pc = "poll_read"
            /\ \/ call'[d].pc = "idle"
               \/ call'[d].pc = "poll_promote" /\ spawnStatus[j][a] # "NONE"
        <5> DEFINE s == ClaimedSlot(call[d].job, call[d].agent)
                   l == [call[d] EXCEPT !.pc = "poll_promote", !.slot = s]
        <5>1. /\ call[d].pc = "poll_read"
              /\ \/ Return(d)
                 \/ /\ spawnStatus[call[d].job][call[d].agent] # "NONE"
                    /\ Goto(d, l)
          BY <3>5, Zenon DEF PollReadSlot
        <5> HIDE DEF s
        <5>2. l.pc = "poll_promote"
          BY <2>c DEF CallType
        <5> HIDE DEF l
        <5>3. \A m : Goto(d, m) => call'[d] = m
          BY <2>c DEF Goto
        <5>4. Return(d) => call'[d].pc = "idle"
          BY <5>3 DEF Return, NoCall
        <5> QED
          BY <2>1, <5>1, <5>2, <5>3, <5>4
      <4> QED
        BY <4>1, <2>5, <2>6
    <3> QED
      BY <1>3, <3>1, <3>2, <3>3, <3>4, <3>5
  <2> QED
    BY <2>3, <2>4, <2>8
<1> QED
  BY <1>2, <1>3, <1>t, WaitMoves

\* An agent at work enters a phase from the one before it.  Its ticker starts
\* with the load, and goes on by one interval when a report has arrived.
LEMMA WorkGoesOn ==
    ASSUME FleetInv, Prompt, [FleetNext]_fleetVars,
           NEW a \in Agents, phase[a] \in Working
    PROVE  /\ phase'[a] = "holding" => phase[a] = "holding"
           /\ phase'[a] = "loading" =>
                \/ /\ phase[a] = "holding" /\ clock >= order[a].start
                   /\ nextReport'[a] = clock + ReportInterval
                \/ phase[a] = "loading" /\ nextReport'[a] = nextReport[a]
                \/ /\ phase[a] = "loading"
                   /\ nextReport'[a] \in nextReport[a] + ReportInterval .. clock + ReportInterval
                   /\ lastSeen'[order[a].job][a] \in Stamps
<1> DEFINE Goal ==
           /\ phase'[a] = "holding" => phase[a] = "holding"
           /\ phase'[a] = "loading" =>
                \/ /\ phase[a] = "holding" /\ clock >= order[a].start
                   /\ nextReport'[a] = clock + ReportInterval
                \/ phase[a] = "loading" /\ nextReport'[a] = nextReport[a]
                \/ /\ phase[a] = "loading"
                   /\ nextReport'[a] \in nextReport[a] + ReportInterval .. clock + ReportInterval
                   /\ lastSeen'[order[a].job][a] \in Stamps
<1>t. /\ phase \in [Agents -> Phases] /\ nextReport \in [Agents -> Nat]
      /\ waiting[a] = None
      /\ \A c \in Calls : waiting[a] # c
  BY FleetAssumption DEF FleetInv, FleetTypeOK, Working
<1>same. ASSUME phase' = phase, nextReport' = nextReport PROVE Goal
  BY <1>same
<1>1. ASSUME NEW b \in Agents,
             \/ Boot(b) \/ BeginLoad(b) \/ HoldInterrupted(b) \/ EndLoad(b)
             \/ WatchStatus(b) \/ Flush(b) \/ Sigterm(b) \/ Crash(b)
      PROVE  Goal
  BY <1>t, <1>1 DEF Boot, BeginLoad, HoldInterrupted, EndLoad, WatchStatus, Finish,
                    Flush, Sigterm, Crash, Enter
<1>2. ASSUME NEW b \in Agents, NEW c \in Calls, Complete(b, c) PROVE Goal
  BY <1>t, <1>2 DEF Complete, Leave, Enter
<1>3. ASSUME NEW c \in Calls, Run(c) PROVE Goal
  BY <1>t, <1>3 DEF Run
<1>4. ASSUME NEW b \in Agents, NEW c \in Calls, Poll(b, c) \/ Idle(c) PROVE Goal
  BY <1>same, <1>4 DEF Poll, Idle
<1>5. ASSUME NEW b \in Agents, PollFails(b) PROVE Goal
  BY <1>same, <1>5 DEF PollFails
<1>6. ASSUME NEW b \in Agents, Report(b) PROVE Goal
  <2>1. /\ phase[b] = "loading" /\ phase' = phase
        /\ MetricsBatch(order[b].job, b)
        /\ \E t \in LaterTicks(nextReport[b]) : nextReport' = [nextReport EXCEPT ![b] = t]
    BY <1>6 DEF Report
  <2>2. CASE b # a
    BY <2>1, <2>2, <1>t
  <2>3. CASE b = a
    <3>1. nextReport'[a] \in nextReport[a] + ReportInterval .. clock + ReportInterval
      BY <2>1, <2>3, <1>t DEF LaterTicks
    <3>2. lastSeen'[order[a].job][a] \in Stamps
      <4>1. order[a].job \in Jobs
        BY DEF FleetInv, FleetTypeOK, Working, OrderType
      <4> QED
        BY <2>1, <2>3, <4>1 DEF MetricsBatch, FleetInv, TypeInv, TypeOK
    <3> QED
      BY <2>1, <2>3, <3>1, <3>2
  <2> QED
    BY <2>2, <2>3
<1>7. ASSUME ServerStep \/ FleetTick \/ UNCHANGED fleetVars PROVE Goal
  BY <1>same, <1>7 DEF ServerStep, FleetTick, fleetVars, agentVars
<1> HIDE DEF Goal
<1> QED
  <2>1. Goal
    BY <1>1, <1>2, <1>3, <1>4, <1>5, <1>6, <1>7 DEF FleetNext, AgentStep, PollStep
  <2> QED
    BY <2>1 DEF Goal

\* Nobody at work falls silent: a hold ends in time, and a loading agent
\* reports before the clock passes the tick its report is due.
LEMMA AtWorkSeenStep ==
    ASSUME HealthInv, [FleetNext]_fleetVars, NEW a \in Agents
    PROVE  AtWorkSeen(a)'
<1>t. /\ FleetInv /\ TimesKnown /\ AtWorkSeen(a) /\ Prompt
      /\ clock \in Nat /\ StaleAfter \in Nat /\ Lag \in Nat
      /\ ReportInterval \in Nat /\ 1 <= ReportInterval
      /\ ReportInterval + Lag <= StaleAfter
  BY ConstantsAssumption, FleetAssumption DEF HealthInv, ShortHolds, TableInv, TypeInv, TypeOK
<1> SUFFICES ASSUME phase'[a] \in {"holding", "loading"}
             PROVE  AtWorkSeen(a)'
  BY DEF AtWorkSeen
<1>w. phase'[a] \in Working
  BY DEF Working
<1>1. \A b \in Agents : phase[b] \in Working =>
        /\ order[b].job \in Jobs /\ order[b].start \in Nat
        /\ Seen(b) \in Nat /\ nextReport[b] \in Nat
  BY <1>t DEF FleetInv, FleetTypeOK, Working, OrderType, TypeInv, TypeOK, Seen
<1>2. CASE FleetTick
  <2>1. /\ clock' = clock + 1 /\ phase' = phase /\ Seen(a)' = Seen(a)
        /\ order' = order /\ nextReport' = nextReport
        /\ Timely(a)
    BY <1>2, <1>t DEF FleetTick, Tick, agentVars, spawnVars, Seen
  <2>2. phase[a] \in Working
    BY <1>w, <2>1
  <2> QED
    BY <1>1, <1>t, <2>1, <2>2 DEF Timely, AtWorkSeen
<1>3. ASSUME clock' = clock, phase[a] \in Working, order'[a] = order[a]
      PROVE  AtWorkSeen(a)'
  <2> DEFINE seen == Seen(a)'
             next == nextReport'[a]
  <2>1. order[a].job \in Jobs /\ order[a].start \in Nat /\ Seen(a) \in Nat
        /\ nextReport[a] \in Nat
        /\ order[a].start + ReportInterval <= clock + StaleAfter
    BY <1>1, <1>3, <1>t DEF TimesKnown
  <2>2. /\ seen \in Nat
        /\ \/ seen = Seen(a) \/ seen = clock
           \/ phase'[a] = "loading" /\ clock <= seen + Lag
    BY <1>3, <1>t, <2>1, SeenWritten DEF Seen
  <2>3. /\ phase'[a] = "holding" => phase[a] = "holding"
        /\ phase'[a] = "loading" =>
             \/ /\ phase[a] = "holding" /\ clock >= order[a].start
                /\ next = clock + ReportInterval
             \/ phase[a] = "loading" /\ next = nextReport[a]
             \/ /\ phase[a] = "loading"
                /\ next \in nextReport[a] + ReportInterval .. clock + ReportInterval
                /\ seen \in Stamps
    BY <1>3, <1>t, WorkGoesOn DEF Seen
  <2>4. seen \in Stamps => clock <= seen + Lag
    BY <1>t DEF Stamps
  <2>5. /\ phase[a] = "holding" =>
             /\ clock <= Seen(a) \/ clock <= order[a].start
             /\ order[a].start + ReportInterval <= Seen(a) + StaleAfter
        /\ phase[a] = "loading" =>
             /\ clock <= nextReport[a] /\ nextReport[a] <= clock + ReportInterval
             /\ nextReport[a] <= Seen(a) + StaleAfter
    BY <1>t DEF AtWorkSeen
  <2>6. /\ phase'[a] = "holding" =>
             /\ clock <= seen \/ clock <= order[a].start
             /\ order[a].start + ReportInterval <= seen + StaleAfter
        /\ phase'[a] = "loading" =>
             /\ clock <= next /\ next <= clock + ReportInterval
             /\ next <= seen + StaleAfter
    <3> HIDE DEF seen, next
    <3>1. CASE phase'[a] = "holding"
      BY <1>t, <2>1, <2>2, <2>3, <2>5, <3>1
    <3>2. CASE phase'[a] = "loading"
      BY <1>t, <2>1, <2>2, <2>3, <2>4, <2>5, <3>2
    <3> QED
      BY <3>1, <3>2
  <2> QED
    BY <1>3, <2>6 DEF AtWorkSeen
<1>4. ASSUME NEW c \in Calls, Run(c), waiting[a] = c, order'[a] = order[a]
      PROVE  AtWorkSeen(a)'
  <2>1. call[c].pc = "poll_promote" /\ clock' = clock /\ lastSeen' = lastSeen
    BY <1>4 DEF Run, PollPromote, spawnVars
  <2>2. Seen(a) = clock /\ Seen(a)' = clock
    BY <1>4, <2>1 DEF HealthInv, WaiterSeen, Seen
  <2>3. phase'[a] = "holding"
    BY <1>4, <1>t DEF Run, FleetInv, FleetTypeOK
  <2>4. order[a].start \in Nat /\ order[a].start + ReportInterval <= clock + StaleAfter
    BY <1>t DEF TimesKnown, FleetInv, FleetTypeOK, OrderType, NoOrder
  <2> QED
    BY <1>4, <1>t, <2>1, <2>2, <2>3, <2>4 DEF AtWorkSeen
<1> QED
  <2>1. CASE ~FleetTick
    BY <2>1, <1>3, <1>4, <1>t, <1>w, ClockMoves, OnlyRunStartsWork DEF Run, PollPromote
  <2> QED
    BY <1>2, <2>1

\* Only a sweep writes FAILED, to a spawn it finds silent for too long.
LEMMA OnlySweepFails ==
    ASSUME FleetInv, [FleetNext]_fleetVars, NEW j \in Jobs, NEW a \in Agents,
           spawnStatus[j][a] = "RUNNING", spawnStatus'[j][a] = "FAILED"
    PROVE  \E c \in Crons : /\ call[c].pc = "reap_stale"
                            /\ Stale(lastSeen[j][a], call[c].now)
<1> DEFINE Goal == \E c \in Crons : /\ call[c].pc = "reap_stale"
                                    /\ Stale(lastSeen[j][a], call[c].now)
<1>t. TypeInv /\ spawnStatus \in [Jobs -> [Agents -> SpawnStatuses]]
  BY DEF FleetInv, TypeInv, TypeOK
<1>w. spawnStatus' # spawnStatus
  OBVIOUS
<1>1. ASSUME NEW b \in Agents,
             \/ Boot(b) \/ PollFails(b) \/ BeginLoad(b) \/ HoldInterrupted(b)
             \/ EndLoad(b) \/ WatchStatus(b) \/ Sigterm(b) \/ Crash(b)
      PROVE  FALSE
  BY <1>1, <1>w DEF Boot, PollFails, BeginLoad, HoldInterrupted, EndLoad,
                    WatchStatus, Finish, Sigterm, Crash, vars, spawnVars
<1>2. ASSUME NEW b \in Agents, NEW c \in Calls, Poll(b, c) \/ Complete(b, c)
      PROVE  FALSE
  BY <1>2, <1>w DEF Poll, PollSelectJob, Complete, CompletionRead, vars, spawnVars
<1>3. ASSUME NEW b \in Agents, Report(b) \/ Flush(b) PROVE FALSE
  BY <1>3, <1>w DEF Report, Flush, MetricsBatch, vars, spawnVars
<1>4. ASSUME NEW c \in Calls, PollSelectSpawn(c) \/ PollTouch(c) \/ PollReadSlot(c)
                              \/ PollPromote(c)
      PROVE  FALSE
  BY <1>4, <1>w DEF PollSelectSpawn, PollTouch, PollReadSlot, PollPromote, spawnVars
<1>5. ASSUME NEW c \in Calls, PollClaim(c) PROVE FALSE
  BY <1>5, <1>t, ClaimEffect
<1>6. ASSUME NEW c \in Calls \union Crons, Abort(c) PROVE FALSE
  BY <1>6, <1>w DEF Abort, spawnVars
<1>7. ASSUME NEW c \in Calls, \/ StartCheck(c) \/ StartInsert(c) \/ CompleteCount(c)
                              \/ CompleteClose(c)
      PROVE  FALSE
  BY <1>7, <1>w DEF StartCheck, StartInsert, CompleteCount, CompleteClose, spawnVars
<1>8. ASSUME NEW c \in Calls, CompleteMark(c) PROVE FALSE
  <2>1. call[c].status # "FAILED"
    BY <1>8, <1>t DEF CompleteMark, TypeInv, LocalsOK, LocalOK
  <2> QED
    BY <1>8, <1>t, <2>1 DEF CompleteMark
<1>9. ASSUME NEW c \in Crons, \/ ReapBegin(c) \/ ReapSelect(c) \/ ReapCount(c)
                              \/ ReapOrphans(c) \/ ReapStopping(c)
      PROVE  FALSE
  BY <1>9, <1>w DEF ReapBegin, ReapSelect, ReapCount, ReapOrphans, ReapStopping, spawnVars
<1>10. ASSUME NEW c \in Crons, ReapFinalise(c) PROVE FALSE
  BY <1>10, <1>t DEF ReapFinalise
<1>11. ASSUME NEW c \in Crons, ReapStale(c) PROVE Goal
  BY <1>11, <1>t DEF ReapStale
<1>12. ASSUME NEW k \in Jobs, StopJob(k) PROVE FALSE
  BY <1>12, <1>w DEF StopJob, spawnVars
<1>13. ASSUME FleetTick \/ UNCHANGED fleetVars PROVE FALSE
  BY <1>13, <1>w DEF FleetTick, Tick, fleetVars, vars, spawnVars
<1> HIDE DEF Goal
<1> QED
  <2>1. Goal
    BY <1>1, <1>2, <1>3, <1>4, <1>5, <1>6, <1>7, <1>8, <1>9, <1>10, <1>11, <1>12, <1>13
       DEF FleetNext, AgentStep, PollStep, Run, ServerStep, ReaperStep
  <2> QED
    BY <2>1 DEF Goal

\* No sweep presumes dead an agent that is up and at work, for any number of
\* agents, jobs, faults and activations, when everybody is prompt and no start
\* delay with the interval before the first report is longer than
\* SPAWN_STALE_AFTER_MS.  The run longhold shows that the last condition is
\* needed.
THEOREM HealthyAgentsKept == ShortHolds /\ FleetSpec => HealthyNotFailed
<1>1. ShortHolds /\ FleetInit /\ FleetInv /\ TableInv => HealthInv
  <2> SUFFICES ASSUME ShortHolds, FleetInit, FleetInv, TableInv PROVE HealthInv
    OBVIOUS
  <2>1. TimesKnown
    BY ConstantsAssumption, FleetAssumption
       DEF ShortHolds, FleetInit, Init, TimesKnown, NoOrder, NoCall
  <2>2. \A a \in Agents : WaiterSeen(a) /\ AtWorkSeen(a)
    BY FleetAssumption DEF FleetInit, WaiterSeen, AtWorkSeen
  <2> QED
    BY <2>1, <2>2 DEF HealthInv
<1>2. HealthInv /\ FleetInv' /\ TableInv' /\ [FleetNext]_fleetVars => HealthInv'
  BY TimesKnownStep, WaiterSeenStep, AtWorkSeenStep DEF HealthInv, ShortHolds
<1> DEFINE Kept == \A a \in Agents :
                        LET j == order[a].job IN
                        /\ phase[a] \in {"holding", "loading"}
                        /\ spawnStatus[j][a] = "RUNNING"
                        => spawnStatus'[j][a] # "FAILED"
<1>3. HealthInv /\ [FleetNext]_fleetVars => [Kept]_fleetVars
  <2> SUFFICES ASSUME HealthInv, [FleetNext]_fleetVars, NEW a \in Agents,
                      phase[a] \in {"holding", "loading"},
                      spawnStatus[order[a].job][a] = "RUNNING",
                      spawnStatus'[order[a].job][a] = "FAILED"
               PROVE  FALSE
    OBVIOUS
  <2>1. FleetInv /\ AtWorkSeen(a) /\ TimesKnown
    BY DEF HealthInv
  <2>2. order[a].job \in Jobs /\ order[a].start \in Nat
    BY <2>1 DEF FleetInv, FleetTypeOK, OrderType
  <2>3. PICK c \in Crons : call[c].pc = "reap_stale" /\ Stale(Seen(a), call[c].now)
    BY <2>1, <2>2, OnlySweepFails DEF Seen
  <2>4. call[c].now <= clock /\ call[c].now \in Nat /\ clock \in Nat /\ Seen(a) \in Nat
    BY <2>1, <2>2, <2>3 DEF TimesKnown, FleetInv, TypeInv, TypeOK, CallType, Seen
  <2>5. clock <= Seen(a) + StaleAfter
    <3>1. nextReport[a] \in Nat /\ StaleAfter \in Nat /\ ReportInterval \in Nat
      BY <2>1, ConstantsAssumption, FleetAssumption DEF FleetInv, FleetTypeOK
    <3> QED
      BY <2>1, <2>2, <2>4, <3>1 DEF AtWorkSeen
  <2> QED
    BY <2>3, <2>4, <2>5, ConstantsAssumption DEF Stale
<1>4. FleetSpec => []TableInv
  BY FleetUses, TablesInvariant DEF UsesControlPlane
<1> HIDE DEF Kept
<1>5. ShortHolds /\ FleetSpec => [][Kept]_fleetVars
  BY <1>1, <1>2, <1>3, <1>4, FleetInvariant, PTL DEF FleetSpec
<1> QED
  BY <1>5 DEF Kept, HealthyNotFailed
=============================================================================
