---------------------------- MODULE OperatorPage ----------------------------
(***************************************************************************)
(* The operator's side: tabs of watch.html over app.js, which share one     *)
(* stored admin token, and require_admin at every location that serves the  *)
(* Worker.  A deploy may change ADMIN_TOKEN and reaches the locations one   *)
(* by one, so a location may refuse a token that is right, and a request    *)
(* may fail on its way.  The job moves as JobLifecycle says, which is what  *)
(* ControlPlane implements, and is stopped by stop_job only.                *)
(***************************************************************************)
EXTENDS Naturals

CONSTANTS
    Tabs,           \* browser tabs that show the job
    Locations,      \* where requests are served
    MaxDeploys,     \* how often ADMIN_TOKEN is changed
    MaxOpens,       \* how often a page is opened by its URL
    MaxFailures     \* how many requests get no answer

ASSUME PageAssumption == {MaxDeploys, MaxOpens, MaxFailures} \subseteq Nat

NoToken == 0        \* none stored; ADMIN_TOKEN unset
Tokens  == 0 .. MaxDeploys + 1

VARIABLES
    job,            \* STATUS of the job, which exists
    latest,         \* the ADMIN_TOKEN last deployed
    deployed,       \* the ADMIN_TOKEN each location checks
    stored,         \* localStorage
    opened,         \* the token of the URL opened last, for the properties
    opens, failures,
    poll, stop,     \* the request of poll() and of stopJob() in each tab
    shown,          \* the status each tab shows
    canStop         \* is the stop button enabled?

Lifecycle == INSTANCE JobLifecycle
                 WITH Jobs <- {"job"}, jobStatus <- [j \in {"job"} |-> job]

Statuses == Lifecycle!LIVE_STATUSES \union Lifecycle!TERMINAL_STATUSES

NoRequest == [state |-> "none", token |-> NoToken, status |-> "-"]
Sent(tok) == [state |-> "sent", token |-> tok, status |-> "-"]
Refused   == [NoRequest EXCEPT !.state = "refused"]
RequestType == [state : {"none", "sent", "ok", "refused"}, token : Tokens,
                status : Statuses \union {"-"}]

tabVars  == <<poll, stop, shown, canStop>>
siteVars == <<latest, deployed>>
urlVars  == <<stored, opened, opens>>
vars     == <<job, siteVars, urlVars, failures, tabVars>>

\* Types, and: a page only ever sees a status in an answer that was "ok", since
\* api() throws on every other.
PageTypeOK ==
    /\ job \in Statuses
    /\ latest \in Tokens /\ deployed \in [Locations -> Tokens]
    /\ stored \in Tokens /\ opened \in Tokens
    /\ opens \in 0 .. MaxOpens /\ failures \in 0 .. MaxFailures
    /\ poll \in [Tabs -> RequestType] /\ stop \in [Tabs -> RequestType]
    /\ shown \in [Tabs -> Statuses \union {"-"}]
    /\ canStop \in [Tabs -> BOOLEAN]
    /\ \A t \in Tabs : \A r \in {poll[t], stop[t]} :
         r.state = "ok" <=> r.status # "-"

PageInit ==
    /\ job = "QUEUED"
    /\ latest = 1 /\ deployed = [l \in Locations |-> 1]
    /\ stored = NoToken /\ opened = NoToken /\ opens = 0 /\ failures = 0
    /\ poll = [t \in Tabs |-> NoRequest] /\ stop = [t \in Tabs |-> NoRequest]
    /\ shown = [t \in Tabs |-> "-"]
    /\ canStop = [t \in Tabs |-> TRUE]

-----------------------------------------------------------------------------
(* The deployment and the job *)

Deploy ==
    /\ latest <= MaxDeploys
    /\ latest' = latest + 1
    /\ UNCHANGED <<job, deployed, urlVars, failures, tabVars>>

Propagate(l) ==
    /\ deployed[l] # latest
    /\ deployed' = [deployed EXCEPT ![l] = latest]
    /\ UNCHANGED <<job, latest, urlVars, failures, tabVars>>

\* The agents and the reaper move the job on, whether it was stopped or not.
JobMoves ==
    /\ job' \in Statuses \ {"STOPPING"}
    /\ Lifecycle!Edge(job, job')
    /\ UNCHANGED <<siteVars, urlVars, failures, tabVars>>

-----------------------------------------------------------------------------
(* Pages *)

\* captureTokenFromUrl: a page opened with ?token= stores the token for every
\* tab and drops it from the address bar; the page starts afresh.
OpenPage(t, tok) ==
    /\ opens < MaxOpens /\ tok <= latest
    /\ stored' = tok /\ opened' = tok /\ opens' = opens + 1
    /\ poll' = [poll EXCEPT ![t] = NoRequest]
    /\ stop' = [stop EXCEPT ![t] = NoRequest]
    /\ shown' = [shown EXCEPT ![t] = "-"]
    /\ canStop' = [canStop EXCEPT ![t] = TRUE]
    /\ UNCHANGED <<job, siteVars, failures>>

\* poll, every pollMs: api() sends the token of this moment.
Poll(t) ==
    /\ poll[t].state = "none"
    /\ poll' = [poll EXCEPT ![t] = Sent(stored)]
    /\ UNCHANGED <<job, siteVars, urlVars, failures, stop, shown, canStop>>

\* A second click before the first is answered is left out.
ClickStop(t) ==
    /\ canStop[t] /\ stop[t].state = "none"
    /\ canStop' = [canStop EXCEPT ![t] = FALSE]
    /\ stop' = [stop EXCEPT ![t] = Sent(stored)]
    /\ UNCHANGED <<job, siteVars, urlVars, failures, poll, shown>>

-----------------------------------------------------------------------------
(* The Worker *)

require_admin(l, presented) == deployed[l] = NoToken \/ presented = deployed[l]

\* Mutation: the body of a 401 is taken for data.
BodyOf401(request, l, status) ==
    IF require_admin(l, request.token)
    THEN [state |-> "ok", token |-> NoToken, status |-> status]
    ELSE [NoRequest EXCEPT !.state = "ok"]

Answer(request, l, status) ==
    IF require_admin(l, request.token)
    THEN [state |-> "ok", token |-> NoToken, status |-> status]
    ELSE Refused

\* watch_job
ServePoll(t, l) ==
    /\ poll[t].state = "sent"
    /\ poll' = [poll EXCEPT ![t] = Answer(@, l, job)]
    /\ UNCHANGED <<job, siteVars, urlVars, failures, stop, shown, canStop>>

\* Mutation: the UPDATE takes a job that is over, too.
StoppableAlways(status) == TRUE

Stoppable(status) == status \notin Lifecycle!TERMINAL_STATUSES

\* stop_job: the answer says STOPPING, also of a job that was over.
ServeStop(t, l) ==
    /\ stop[t].state = "sent"
    /\ stop' = [stop EXCEPT ![t] = Answer(@, l, "STOPPING")]
    /\ job' = IF Stoppable(job) /\ require_admin(l, stop[t].token)
              THEN "STOPPING" ELSE job
    /\ UNCHANGED <<siteVars, urlVars, failures, poll, shown, canStop>>

\* fetch rejects, before or after the request was served.
FailPoll(t) ==
    /\ poll[t].state # "none" /\ failures < MaxFailures
    /\ failures' = failures + 1
    /\ poll' = [poll EXCEPT ![t] = Refused]
    /\ UNCHANGED <<job, siteVars, urlVars, stop, shown, canStop>>

FailStop(t) ==
    /\ stop[t].state # "none" /\ failures < MaxFailures
    /\ failures' = failures + 1
    /\ stop' = [stop EXCEPT ![t] = Refused]
    /\ UNCHANGED <<job, siteVars, urlVars, poll, shown, canStop>>

-----------------------------------------------------------------------------
(* The answers *)

\* render
Render(t, status) ==
    /\ shown' = [shown EXCEPT ![t] = status]
    /\ canStop' = [canStop EXCEPT ![t] = status \in {"QUEUED", "RUNNING"}]

\* A 401 is reported and the stored token is kept.
\* Mutation: it is discarded.
DiscardToken == NoToken

TokenAfter401 == stored

PollReturns(t) ==
    /\ poll[t].state \in {"ok", "refused"}
    /\ poll' = [poll EXCEPT ![t] = NoRequest]
    /\ \/ poll[t].state = "ok" /\ Render(t, poll[t].status) /\ UNCHANGED stored
       \/ /\ poll[t].state = "refused"
          /\ stored' = TokenAfter401
          /\ UNCHANGED <<shown, canStop>>
    /\ UNCHANGED <<job, siteVars, opened, opens, failures, stop>>

\* stopJob shows the answer and polls at once, unless a poll is under way: that
\* one may have been answered before the stop and puts the old status back.
StopReturns(t) ==
    /\ stop[t].state \in {"ok", "refused"}
    /\ stop' = [stop EXCEPT ![t] = NoRequest]
    /\ \/ /\ stop[t].state = "ok"
          /\ shown' = [shown EXCEPT ![t] = stop[t].status]
          /\ poll' = [poll EXCEPT ![t] = IF @ = NoRequest THEN Sent(stored) ELSE @]
          /\ UNCHANGED <<canStop, stored>>
       \/ /\ stop[t].state = "refused"
          /\ canStop' = [canStop EXCEPT ![t] = TRUE]
          /\ stored' = TokenAfter401
          /\ UNCHANGED <<shown, poll>>
    /\ UNCHANGED <<job, siteVars, opened, opens, failures>>

TabStep(t) ==
    \/ Poll(t) \/ PollReturns(t) \/ StopReturns(t)
    \/ \E l \in Locations : ServePoll(t, l) \/ ServeStop(t, l)

PageNext ==
    \/ Deploy \/ JobMoves
    \/ \E l \in Locations : Propagate(l)
    \/ \E t \in Tabs :
        \/ \E tok \in Tokens : OpenPage(t, tok)
        \/ ClickStop(t) \/ FailPoll(t) \/ FailStop(t) \/ TabStep(t)

PageSpec == PageInit /\ [][PageNext]_vars

\* A deploy reaches every location, timers fire and requests are answered.
PageFairSpec ==
    /\ PageSpec
    /\ \A l \in Locations : WF_vars(Propagate(l))
    /\ \A t \in Tabs :
        /\ WF_vars(Poll(t)) /\ WF_vars(PollReturns(t))
        /\ WF_vars(\E l \in Locations : ServePoll(t, l))

-----------------------------------------------------------------------------
(* Properties *)

NotAhead(status) ==
    /\ status = "RUNNING" => job # "QUEUED"
    /\ status = "STOPPING" => job \notin {"QUEUED", "RUNNING"}
    /\ status \in Lifecycle!TERMINAL_STATUSES => job = status

\* No tab is ahead of the job, whichever tab stopped it and whether it ended by
\* itself meanwhile: a tab that shows STOPPING shows it of a job that will not
\* run again, and an end that is shown is final (render and stopJob of
\* watch.html, over watch_job and stop_job).  It is not said that the job was
\* ever STOPPING: stop_job answers so of a job that was over, too.
ShownNotAhead == \A t \in Tabs : NotAhead(shown[t])

\* "any single 401 - a deploy still propagating, an Access hiccup": if the token
\* last opened is the one deployed last, every tab comes to show the job as it
\* is and keeps doing so, whatever requests were refused or failed before and
\* whichever poll overtook a stop.
PageCatchesUp ==
    <>[](opened = latest) => \A t \in Tabs : <>[](shown[t] = job)
=============================================================================
