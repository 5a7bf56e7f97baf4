---------------------------- MODULE JobLifecycle ----------------------------
(***************************************************************************)
(* What the control plane promises about the STATUS column of JOBS, whoever *)
(* writes it: the operator's start and stop, an agent's poll or completion  *)
(* report, or the scheduled reaper.  No clock, no spawns, no interleaving.  *)
(* ControlPlane implements this specification.                              *)
(***************************************************************************)
CONSTANT Jobs

VARIABLE jobStatus

\* src/types.ts names the two classes; "NONE" is a job id not yet used.
TERMINAL_STATUSES == {"COMPLETED", "STOPPED", "FAILED"}
LIVE_STATUSES     == {"QUEUED", "RUNNING", "STOPPING"}
JobStatuses       == {"NONE"} \union LIVE_STATUSES \union TERMINAL_STATUSES

\* The moves a job may make.  STOPPED is the end of a job the operator
\* stopped and of no other; a terminal job never moves again.
Edge(from, to) ==
    \/ from = "NONE"     /\ to = "QUEUED"
    \/ from = "QUEUED"   /\ to \in {"RUNNING", "STOPPING", "COMPLETED", "FAILED"}
    \/ from = "RUNNING"  /\ to \in {"STOPPING", "COMPLETED", "FAILED"}
    \/ from = "STOPPING" /\ to \in {"STOPPED", "COMPLETED", "FAILED"}

Init == jobStatus = [j \in Jobs |-> "NONE"]

\* One UPDATE of the reaper may move several jobs at once, each along an edge.
Move(moved) ==
    /\ jobStatus' \in [Jobs -> JobStatuses]
    /\ \A j \in Jobs : IF j \in moved THEN Edge(jobStatus[j], jobStatus'[j])
                                      ELSE jobStatus'[j] = jobStatus[j]

Next == \E moved \in (SUBSET Jobs) \ {{}} : Move(moved)

Spec == Init /\ [][Next]_jobStatus
=============================================================================
