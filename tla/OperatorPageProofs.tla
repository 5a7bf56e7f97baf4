------------------------- MODULE OperatorPageProofs -------------------------
(***************************************************************************)
(* No tab is ahead of the job, for any number of tabs, locations, deploys   *)
(* and failed requests.  An answer is not ahead of the job when it is       *)
(* given, and the job only moves on: an answer that waits is as good as the *)
(* status it carries.                                                       *)
(***************************************************************************)
EXTENDS OperatorPage, TLAPS

AnswersNotAhead ==
    \A t \in Tabs : NotAhead(poll[t].status) /\ NotAhead(stop[t].status)

PageInv == PageTypeOK /\ ShownNotAhead /\ AnswersNotAhead

\* The statuses of JobLifecycle, spelt out.
LEMMA StatusNames ==
    /\ Lifecycle!TERMINAL_STATUSES = {"COMPLETED", "STOPPED", "FAILED"}
    /\ Statuses = {"QUEUED", "RUNNING", "STOPPING", "COMPLETED", "STOPPED", "FAILED"}
BY DEF Statuses, Lifecycle!TERMINAL_STATUSES, Lifecycle!LIVE_STATUSES

\* A request and its answers, and the status an answer carries.
LEMMA RequestTypes ==
    /\ NoToken \in Tokens
    /\ NoRequest \in RequestType /\ Refused \in RequestType
    /\ \A tok \in Tokens : Sent(tok) \in RequestType
    /\ \A r \in RequestType, l \in Locations, s \in Statuses : Answer(r, l, s) \in RequestType
<1>1. NoToken \in Tokens
  BY PageAssumption DEF NoToken, Tokens
<1>2. NoRequest \in RequestType /\ Refused \in RequestType
  BY <1>1 DEF NoRequest, Refused, RequestType
<1>3. \A tok \in Tokens : Sent(tok) \in RequestType
  BY DEF Sent, RequestType
<1>4. \A r \in RequestType, l \in Locations, s \in Statuses : Answer(r, l, s) \in RequestType
  BY <1>1, <1>2 DEF Answer, RequestType
<1> QED
  BY <1>1, <1>2, <1>3, <1>4

\* A request carries a status exactly when it was answered.
LEMMA RequestStatus ==
    /\ NoRequest.status = "-" /\ NoRequest.state = "none"
    /\ Refused.status = "-" /\ Refused.state = "refused"
    /\ \A tok : Sent(tok).status = "-" /\ Sent(tok).state = "sent"
    /\ \A r, l, s : Answer(r, l, s) = Refused
                    \/ /\ Answer(r, l, s).status = s /\ Answer(r, l, s).state = "ok"
                       /\ require_admin(l, r.token)
BY DEF NoRequest, Refused, Sent, Answer
Carries(r) == r.state = "ok" <=> r.status # "-"

\* The same for whoever sends or answers in one tab.
LEMMA RequestCarries ==
    /\ Carries(NoRequest) /\ Carries(Refused)
    /\ \A tok : Carries(Sent(tok))
    /\ \A r, l : \A s \in Statuses : Carries(Answer(r, l, s))
BY RequestStatus, StatusNames DEF Carries

Shown == Statuses \union {"-"}

\* PageTypeOK with the requests of each tab apart.
LEMMA TypeParts ==
    PageTypeOK <=>
        /\ job \in Statuses
        /\ latest \in Tokens /\ deployed \in [Locations -> Tokens]
        /\ stored \in Tokens /\ opened \in Tokens
        /\ opens \in 0 .. MaxOpens /\ failures \in 0 .. MaxFailures
        /\ poll \in [Tabs -> RequestType] /\ stop \in [Tabs -> RequestType]
        /\ shown \in [Tabs -> Shown] /\ canStop \in [Tabs -> BOOLEAN]
        /\ \A t \in Tabs : Carries(poll[t]) /\ Carries(stop[t])
BY DEF PageTypeOK, Carries, Shown

\* Requests of one tab are replaced by well-formed ones.
LEMMA TypesOfTabs ==
    ASSUME PageTypeOK, NEW t \in Tabs, NEW r \in RequestType, Carries(r)
    PROVE  /\ poll' = [poll EXCEPT ![t] = r]
                => /\ poll' \in [Tabs -> RequestType]
                   /\ \A u \in Tabs : Carries(poll'[u])
           /\ stop' = [stop EXCEPT ![t] = r]
                => /\ stop' \in [Tabs -> RequestType]
                   /\ \A u \in Tabs : Carries(stop'[u])
<1> USE TypeParts
<1>1. ASSUME poll' = [poll EXCEPT ![t] = r]
      PROVE  poll' \in [Tabs -> RequestType] /\ \A u \in Tabs : Carries(poll'[u])
  <2>1. \A u \in Tabs : poll'[u] = IF u = t THEN r ELSE poll[u]
    BY <1>1
  <2> QED
    BY <1>1, <2>1
<1>2. ASSUME stop' = [stop EXCEPT ![t] = r]
      PROVE  stop' \in [Tabs -> RequestType] /\ \A u \in Tabs : Carries(stop'[u])
  <2>1. \A u \in Tabs : stop'[u] = IF u = t THEN r ELSE stop[u]
    BY <1>2
  <2> QED
    BY <1>2, <2>1
<1> QED
  BY <1>1, <1>2

\* The step of one tab.
TabAction(t) ==
    \/ \E tok \in Tokens : OpenPage(t, tok)
    \/ ClickStop(t) \/ FailPoll(t) \/ FailStop(t) \/ TabStep(t)

\* Every step keeps the types.
LEMMA PageTypeStep ==
    ASSUME PageTypeOK, [PageNext]_vars
    PROVE  PageTypeOK'
<1>p. PageTypeOK' <=>
        /\ job' \in Statuses
        /\ latest' \in Tokens /\ deployed' \in [Locations -> Tokens]
        /\ stored' \in Tokens /\ opened' \in Tokens
        /\ opens' \in 0 .. MaxOpens /\ failures' \in 0 .. MaxFailures
        /\ poll' \in [Tabs -> RequestType] /\ stop' \in [Tabs -> RequestType]
        /\ shown' \in [Tabs -> Shown] /\ canStop' \in [Tabs -> BOOLEAN]
        /\ \A t \in Tabs : Carries(poll'[t]) /\ Carries(stop'[t])
  BY DEF PageTypeOK, Carries, Shown
<1>m. MaxDeploys \in Nat /\ MaxOpens \in Nat /\ MaxFailures \in Nat
  BY PageAssumption
<1>j. \A s \in Statuses : s \in Shown /\ "-" \in Shown /\ "STOPPING" \in Statuses
  BY StatusNames DEF Shown
<1> USE TypeParts
<1>1. CASE Deploy
  <2>1. latest' \in Tokens
    BY <1>1, <1>m DEF Deploy, Tokens
  <2> QED
    BY <1>1, <1>p, <2>1 DEF Deploy, urlVars, tabVars
<1>2. CASE JobMoves
  BY <1>2, <1>p DEF JobMoves, siteVars, urlVars, tabVars
<1>3. ASSUME NEW l \in Locations, Propagate(l) PROVE PageTypeOK'
  BY <1>3, <1>p DEF Propagate, urlVars, tabVars
<1>4. ASSUME NEW t \in Tabs, TabAction(t) PROVE PageTypeOK'
  <2>1. ASSUME NEW tok \in Tokens, OpenPage(t, tok) PROVE PageTypeOK'
    <3>1. /\ poll' \in [Tabs -> RequestType] /\ \A u \in Tabs : Carries(poll'[u])
          /\ stop' \in [Tabs -> RequestType] /\ \A u \in Tabs : Carries(stop'[u])
      BY <2>1, RequestTypes, RequestCarries, TypesOfTabs DEF OpenPage
    <3>2. opens' \in 0 .. MaxOpens
      BY <2>1, <1>m DEF OpenPage
    <3>3. shown' \in [Tabs -> Shown] /\ canStop' \in [Tabs -> BOOLEAN]
      BY <2>1, <1>j DEF OpenPage, Shown
    <3> QED
      BY <2>1, <1>p, <3>1, <3>2, <3>3 DEF OpenPage, siteVars
  <2>2. CASE ClickStop(t)
    <3>1. stop' \in [Tabs -> RequestType] /\ \A u \in Tabs : Carries(stop'[u])
      BY <2>2, RequestTypes, RequestCarries, TypesOfTabs DEF ClickStop
    <3> QED
      BY <2>2, <1>p, <3>1 DEF ClickStop, siteVars, urlVars
  <2>3. CASE FailPoll(t)
    <3>1. poll' \in [Tabs -> RequestType] /\ \A u \in Tabs : Carries(poll'[u])
      BY <2>3, RequestTypes, RequestCarries, TypesOfTabs DEF FailPoll
    <3> QED
      BY <2>3, <1>p, <1>m, <3>1 DEF FailPoll, siteVars, urlVars
  <2>4. CASE FailStop(t)
    <3>1. stop' \in [Tabs -> RequestType] /\ \A u \in Tabs : Carries(stop'[u])
      BY <2>4, RequestTypes, RequestCarries, TypesOfTabs DEF FailStop
    <3> QED
      BY <2>4, <1>p, <1>m, <3>1 DEF FailStop, siteVars, urlVars
  <2>5. CASE Poll(t)
    <3>1. poll' \in [Tabs -> RequestType] /\ \A u \in Tabs : Carries(poll'[u])
      BY <2>5, RequestTypes, RequestCarries, TypesOfTabs DEF Poll
    <3> QED
      BY <2>5, <1>p, <3>1 DEF Poll, siteVars, urlVars
  <2>6. CASE PollReturns(t)
    <3>1. poll' \in [Tabs -> RequestType] /\ \A u \in Tabs : Carries(poll'[u])
      BY <2>6, RequestTypes, RequestCarries, TypesOfTabs DEF PollReturns
    <3>2. shown' \in [Tabs -> Shown] /\ canStop' \in [Tabs -> BOOLEAN] /\ stored' \in Tokens
      <4>1. poll[t].status \in Shown
        BY DEF RequestType, Shown
      <4> DEFINE b == poll[t].status \in {"QUEUED", "RUNNING"}
      <4>2. b \in BOOLEAN
        OBVIOUS
      <4>3. CASE Render(t, poll[t].status) /\ UNCHANGED stored
        <5>1. canStop' = [canStop EXCEPT ![t] = b]
          BY <4>3 DEF Render
        <5> HIDE DEF b
        <5> QED
          BY <4>1, <4>2, <4>3, <5>1 DEF Render
      <4>4. CASE UNCHANGED <<shown, canStop, stored>>
        BY <4>4
      <4> QED
        BY <2>6, <4>3, <4>4 DEF PollReturns, TokenAfter401
    <3> QED
      BY <2>6, <1>p, <3>1, <3>2 DEF PollReturns, siteVars
  <2>7. CASE StopReturns(t)
    <3>1. stop' \in [Tabs -> RequestType] /\ \A u \in Tabs : Carries(stop'[u])
      BY <2>7, RequestTypes, RequestCarries, TypesOfTabs DEF StopReturns
    <3>2. poll' \in [Tabs -> RequestType] /\ \A u \in Tabs : Carries(poll'[u])
      <4>1. CASE UNCHANGED poll
        BY <4>1
      <4>2. CASE poll' = [poll EXCEPT ![t] = IF @ = NoRequest THEN Sent(stored) ELSE @]
        <5> DEFINE r == IF poll[t] = NoRequest THEN Sent(stored) ELSE poll[t]
        <5>1. r \in RequestType /\ Carries(r)
          BY RequestTypes, RequestCarries
        <5>2. poll' = [poll EXCEPT ![t] = r]
          BY <4>2
        <5> HIDE DEF r
        <5> QED
          BY <5>1, <5>2, TypesOfTabs
      <4> QED
        BY <2>7, <4>1, <4>2 DEF StopReturns
    <3>3. shown' \in [Tabs -> Shown] /\ canStop' \in [Tabs -> BOOLEAN] /\ stored' \in Tokens
      <4>1. stop[t].status \in Shown
        BY DEF RequestType, Shown
      <4> QED
        BY <2>7, <4>1 DEF StopReturns, TokenAfter401
    <3> QED
      BY <2>7, <1>p, <3>1, <3>2, <3>3 DEF StopReturns, siteVars
  <2>8. ASSUME NEW l \in Locations, ServePoll(t, l) PROVE PageTypeOK'
    <3>1. poll' \in [Tabs -> RequestType] /\ \A u \in Tabs : Carries(poll'[u])
      BY <2>8, RequestTypes, RequestCarries, TypesOfTabs DEF ServePoll
    <3> QED
      BY <2>8, <1>p, <3>1 DEF ServePoll, siteVars, urlVars
  <2>9. ASSUME NEW l \in Locations, ServeStop(t, l) PROVE PageTypeOK'
    <3>1. stop' \in [Tabs -> RequestType] /\ \A u \in Tabs : Carries(stop'[u])
      BY <2>9, <1>j, RequestTypes, RequestCarries, TypesOfTabs DEF ServeStop
    <3>2. job' \in Statuses
      BY <2>9, <1>j DEF ServeStop
    <3> QED
      BY <2>9, <1>p, <3>1, <3>2 DEF ServeStop, siteVars, urlVars
  <2> QED
    BY <1>4, <2>1, <2>2, <2>3, <2>4, <2>5, <2>6, <2>7, <2>8, <2>9 DEF TabAction, TabStep
<1>5. CASE UNCHANGED vars
  BY <1>5, <1>p DEF vars, siteVars, urlVars, tabVars
<1> QED
  BY <1>1, <1>2, <1>3, <1>4, <1>5 DEF PageNext, TabAction

\* The job stays as it is or moves along an edge of its lifecycle.
LEMMA JobMovesOn ==
    ASSUME PageTypeOK, [PageNext]_vars
    PROVE  job' = job \/ Lifecycle!Edge(job, job')
<1>1. ASSUME NEW t \in Tabs, NEW l \in Locations, ServeStop(t, l)
      PROVE  job' = job \/ Lifecycle!Edge(job, job')
  <2>1. job' = job \/ (job' = "STOPPING" /\ job \notin {"COMPLETED", "STOPPED", "FAILED"})
    BY <1>1, StatusNames DEF ServeStop, Stoppable
  <2> QED
    BY <2>1, StatusNames DEF PageTypeOK, Lifecycle!Edge
<1>2. ASSUME NEW t \in Tabs, TabAction(t), ~\E l \in Locations : ServeStop(t, l)
      PROVE  job' = job
  BY <1>2 DEF TabAction, TabStep, OpenPage, Poll, PollReturns, StopReturns, ClickStop,
              ServePoll, FailPoll, FailStop
<1> QED
  BY <1>1, <1>2 DEF PageNext, TabAction, Deploy, JobMoves, Propagate, vars

\* What every answer and every tab says of the job stays true of it.
LEMMA PageInvStep ==
    ASSUME PageInv, [PageNext]_vars
    PROVE  PageInv'
<1>t. PageTypeOK'
  BY PageTypeStep DEF PageInv
<1>f. /\ poll \in [Tabs -> RequestType] /\ stop \in [Tabs -> RequestType]
      /\ shown \in [Tabs -> Shown] /\ job \in Statuses
  BY TypeParts DEF PageInv
<1>m. job' = job \/ Lifecycle!Edge(job, job')
  BY JobMovesOn DEF PageInv
\* A status that is not ahead of what the job is now.
<1> DEFINE Good(s) == /\ s = "RUNNING" => job' # "QUEUED"
                      /\ s = "STOPPING" => job' \notin {"QUEUED", "RUNNING"}
                      /\ s \in {"COMPLETED", "STOPPED", "FAILED"} => job' = s
<1>k. ASSUME \A t \in Tabs : Good(poll'[t].status) /\ Good(stop'[t].status) /\ Good(shown'[t])
      PROVE  PageInv'
  BY <1>k, <1>t, StatusNames DEF PageInv, ShownNotAhead, AnswersNotAhead, NotAhead,
     Lifecycle!TERMINAL_STATUSES
<1>n. ASSUME NEW s, NotAhead(s) PROVE Good(s)
  BY <1>n, <1>m, <1>f, StatusNames DEF NotAhead, Lifecycle!Edge
<1>g. /\ \A t \in Tabs : Good(poll[t].status) /\ Good(stop[t].status) /\ Good(shown[t])
      /\ Good("-") /\ Good(job')
  BY <1>n DEF PageInv, ShownNotAhead, AnswersNotAhead
<1> HIDE DEF Good
<1>1. CASE UNCHANGED tabVars
  BY <1>1, <1>g, <1>k DEF tabVars
<1>4. ASSUME NEW t \in Tabs, TabAction(t) PROVE PageInv'
  <2>1. ASSUME NEW tok \in Tokens, OpenPage(t, tok) PROVE PageInv'
    BY <2>1, <1>f, <1>g, <1>k, RequestStatus DEF OpenPage
  <2>2. CASE ClickStop(t)
    BY <2>2, <1>f, <1>g, <1>k, RequestStatus DEF ClickStop
  <2>3. CASE FailPoll(t)
    BY <2>3, <1>f, <1>g, <1>k, RequestStatus DEF FailPoll
  <2>4. CASE FailStop(t)
    BY <2>4, <1>f, <1>g, <1>k, RequestStatus DEF FailStop
  <2>5. CASE Poll(t)
    BY <2>5, <1>f, <1>g, <1>k, RequestStatus DEF Poll
  <2>6. CASE PollReturns(t)
    BY <2>6, <1>f, <1>g, <1>k, RequestStatus DEF PollReturns, Render
  <2>7. CASE StopReturns(t)
    BY <2>7, <1>f, <1>g, <1>k, RequestStatus DEF StopReturns
  <2>8. ASSUME NEW l \in Locations, ServePoll(t, l) PROVE PageInv'
    <3>1. Good(poll'[t].status)
      <4>1. poll'[t] = Answer(poll[t], l, job) /\ job' = job
        BY <2>8, <1>f DEF ServePoll
      <4>2. poll'[t].status = "-" \/ poll'[t].status = job'
        BY <4>1, RequestStatus
      <4> QED
        BY <4>2, <1>g
    <3>2. \A u \in Tabs : u # t => poll'[u] = poll[u]
      BY <2>8, <1>f DEF ServePoll
    <3> QED
      BY <2>8, <3>1, <3>2, <1>g, <1>k DEF ServePoll
  <2>9. ASSUME NEW l \in Locations, ServeStop(t, l) PROVE PageInv'
    <3>1. Good(stop'[t].status)
      <4>1. stop'[t] = Answer(stop[t], l, "STOPPING")
        BY <2>9, <1>f DEF ServeStop
      <4>2. \/ stop'[t].status = "-"
            \/ stop'[t].status = "STOPPING" /\ require_admin(l, stop[t].token)
        BY <4>1, RequestStatus
      <4>3. require_admin(l, stop[t].token) => job' \notin {"QUEUED", "RUNNING"}
        BY <2>9, StatusNames DEF ServeStop, Stoppable
      <4> QED
        BY <4>2, <4>3, <1>g DEF Good
    <3>2. \A u \in Tabs : u # t => stop'[u] = stop[u]
      BY <2>9, <1>f DEF ServeStop
    <3> QED
      BY <2>9, <3>1, <3>2, <1>g, <1>k DEF ServeStop
  <2> QED
    BY <1>4, <2>1, <2>2, <2>3, <2>4, <2>5, <2>6, <2>7, <2>8, <2>9 DEF TabAction, TabStep
<1> QED
  BY <1>1, <1>4 DEF PageNext, TabAction, Deploy, JobMoves, Propagate, vars

\* The page's variables stay in their types, and it sees a status in the answers
\* that were "ok" only.
THEOREM PageTypeCorrect == PageSpec => []PageTypeOK
<1>1. ASSUME PageInit PROVE PageTypeOK
  <2>1. 1 \in Tokens /\ NoToken \in Tokens
    BY PageAssumption DEF Tokens, NoToken
  <2>2. 0 \in 0 .. MaxOpens /\ 0 \in 0 .. MaxFailures
    BY PageAssumption
  <2>3. "QUEUED" \in Statuses /\ "-" \in Shown
    BY StatusNames DEF Shown
  <2> QED
    BY <1>1, <2>1, <2>2, <2>3, TypeParts, RequestTypes, RequestCarries DEF PageInit
<1> QED
  BY <1>1, PageTypeStep, PTL DEF PageSpec

\* No tab is ahead of the job, whatever requests fail, are refused or overtake
\* each other, and whether the job is stopped or ends by itself.
THEOREM ShownNeverAhead == PageSpec => []ShownNotAhead
<1>1. ASSUME PageInit PROVE ShownNotAhead /\ AnswersNotAhead
  BY <1>1, RequestStatus, StatusNames DEF PageInit, ShownNotAhead, AnswersNotAhead, NotAhead
<1>2. PageSpec => []PageInv
  <2>1. PageInit /\ PageTypeOK => PageInv
    BY <1>1 DEF PageInv
  <2> QED
    BY <2>1, PageInvStep, PageTypeCorrect, PTL DEF PageSpec
<1>3. PageInv => ShownNotAhead
  BY DEF PageInv
<1> QED
  BY <1>2, <1>3, PTL
=============================================================================
