----------------------------- MODULE DeployPages ------------------------------
(***************************************************************************)
(* .github/workflows/deploy-pages.yml: every push to main, and every       *)
(* dispatch of the workflow for some commit, requests a run.  The runs     *)
(* share the concurrency group "pages" without cancelling the one that is  *)
(* in progress: one run is active, one waits, and a newer request replaces *)
(* the one that waits.  A run goes through its steps in order; a step that *)
(* fails ends it before anything is deployed.                              *)
(***************************************************************************)
EXTENDS Integers, Sequences

CONSTANTS
    MaxCommits,   \* bound: commits on main
    MaxRequests   \* bound: runs requested

ASSUME DeployAssumption == MaxCommits \in Nat /\ MaxRequests \in Nat

VARIABLES
    commits,   \* commits on main, each with the first step its tree fails, or "none"
    requests,  \* per requested run, the commit it checks out
    runs,      \* per requested run, where it stands
    deployed   \* the run whose artifact the site serves, 0 before the first

deployVars == <<commits, requests, runs, deployed>>

\* The steps of the build job that depend on the commit, and what follows each
\* step of a run.
BuildSteps == {"validate", "replay", "build"}
StepAfter == [validate |-> "replay", replay |-> "build", build |-> "upload",
              upload |-> "deploy"]
Active == BuildSteps \cup {"upload", "deploy"}
Ended == {"done", "failed", "cancelled"}

ActiveRuns == {n \in DOMAIN runs : runs[n] \in Active}

DeployInit ==
    /\ commits = << >>
    /\ requests = << >>
    /\ runs = << >>
    /\ deployed = 0

\* Fault: a newer request is cancelled while another one waits.
EnqueueKeepingOldest(c) ==
    /\ Len(requests) < MaxRequests
    /\ requests' = Append(requests, c)
    /\ runs' = Append(runs, IF \E n \in DOMAIN runs : runs[n] = "pending"
                            THEN "cancelled" ELSE "pending")

\* A run is requested for commit c; one that still waits is cancelled.
Enqueue(c) ==
    /\ Len(requests) < MaxRequests
    /\ requests' = Append(requests, c)
    /\ runs' = [n \in DOMAIN requests' |->
                   IF n \notin DOMAIN requests THEN "pending"
                   ELSE IF runs[n] = "pending" THEN "cancelled" ELSE runs[n]]

\* A commit is pushed to main; its tree passes every step, or fails at one.
Push(failsAt) ==
    /\ Len(commits) < MaxCommits
    /\ commits' = Append(commits, failsAt)
    /\ Enqueue(Len(commits) + 1)
    /\ UNCHANGED deployed

\* A person dispatches the workflow for a commit, the newest or an older one.
Dispatch(c) ==
    /\ Enqueue(c)
    /\ UNCHANGED <<commits, deployed>>

\* Fault: the runs are not serialised.
StartRunAtOnce(n) ==
    /\ runs[n] = "pending"
    /\ runs' = [runs EXCEPT ![n] = "validate"]
    /\ UNCHANGED <<commits, requests, deployed>>

\* The waiting run becomes the active one.
StartRun(n) ==
    /\ runs[n] = "pending"
    /\ ActiveRuns = {}
    /\ runs' = [runs EXCEPT ![n] = "validate"]
    /\ UNCHANGED <<commits, requests, deployed>>

\* Fault: a failing step does not end the build job.
PassStepAnyway(n) ==
    /\ runs[n] \in Active \ {"deploy"}
    /\ runs' = [runs EXCEPT ![n] = StepAfter[runs[n]]]
    /\ UNCHANGED <<commits, requests, deployed>>

\* A step before the last one succeeds.
PassStep(n) ==
    /\ runs[n] \in Active \ {"deploy"}
    /\ runs[n] # commits[requests[n]]
    /\ runs' = [runs EXCEPT ![n] = StepAfter[runs[n]]]
    /\ UNCHANGED <<commits, requests, deployed>>

\* A step fails on this commit, or for a reason of its own (the network, the
\* service, the time-out of the job).
FailStep(n) ==
    /\ runs[n] \in Active
    /\ runs' = [runs EXCEPT ![n] = "failed"]
    /\ UNCHANGED <<commits, requests, deployed>>

\* The artifact this run uploaded becomes the site.
Deploy(n) ==
    /\ runs[n] = "deploy"
    /\ deployed' = n
    /\ runs' = [runs EXCEPT ![n] = "done"]
    /\ UNCHANGED <<commits, requests>>

Progress(n) == StartRun(n) \/ PassStep(n) \/ FailStep(n) \/ Deploy(n)

DeployNext ==
    \/ \E failsAt \in BuildSteps \cup {"none"} : Push(failsAt)
    \/ \E c \in DOMAIN commits : Dispatch(c)
    \/ \E n \in DOMAIN runs : Progress(n)

\* The service starts a waiting run when it may, and runs or times out a step.
DeployFairness == \A n \in 1..MaxRequests : WF_deployVars(n \in DOMAIN runs /\ Progress(n))

DeploySpec == DeployInit /\ [][DeployNext]_deployVars /\ DeployFairness

------------------------------------------------------------------------------
\* Every request names a commit on main and has a run of its own.
DeployTypeOK ==
    /\ commits \in Seq(BuildSteps \cup {"none"})
    /\ requests \in Seq(1..Len(commits))
    /\ runs \in [1..Len(requests) -> {"pending"} \cup Active \cup Ended]
    /\ deployed \in {0} \cup DOMAIN runs

\* The site never serves a build of a commit that fails validation, the replay
\* or the build, whatever was pushed or dispatched meanwhile.
DeployedIsValidated ==
    deployed # 0 => commits[requests[deployed]] = "none" /\ runs[deployed] = "done"

\* A run never overwrites the site of a run requested after it: overlapping
\* pushes and dispatches cannot bring an older request back.
NeverOlderRequest == [][deployed' >= deployed]_deployVars

\* The newest request is never dropped: unless a newer one arrives, its run
\* deploys or fails.
NewestSettles ==
    \A n \in 1..MaxRequests :
        Len(requests) = n ~> \/ Len(requests) > n
                             \/ n \in DOMAIN runs /\ runs[n] \in {"done", "failed"}
=============================================================================
