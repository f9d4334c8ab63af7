-------------------------- MODULE DeployPages_proof ---------------------------
(***************************************************************************)
(* Proofs about DeployPages, for any number of commits and requests: the   *)
(* site serves only a commit that passes every step, and never goes back   *)
(* to an older request.                                                    *)
(***************************************************************************)
EXTENDS DeployPages, TLAPS

\* A run that waits is the newest one; the active run is the only one, and newer
\* than the one whose site is served.
QueueInv ==
    /\ \A n \in DOMAIN runs : runs[n] = "pending" => n = Len(requests)
    /\ \A m, n \in ActiveRuns : m = n
    /\ \A n \in ActiveRuns : deployed < n

\* A run stands at a step only if its commit passes the steps before it.
PassedInv ==
    /\ \A n \in DOMAIN runs :
          /\ runs[n] \in {"replay", "build", "upload", "deploy"} =>
                commits[requests[n]] # "validate"
          /\ runs[n] \in {"build", "upload", "deploy"} => commits[requests[n]] # "replay"
          /\ runs[n] \in {"upload", "deploy"} => commits[requests[n]] # "build"
    /\ DeployedIsValidated

DeployInv == DeployTypeOK /\ QueueInv /\ PassedInv

LEMMA InitDeployInv == DeployInit => DeployInv
BY DEF DeployInit, DeployInv, DeployTypeOK, QueueInv, PassedInv, ActiveRuns, DeployedIsValidated

\* A new request: the run that waited is cancelled, the new one is the newest,
\* and the commits of the old ones stay what they are.
LEMMA EnqueuePreserves ==
    ASSUME DeployInv, NEW c, Enqueue(c), UNCHANGED deployed,
           c \in 1..Len(commits'),
           \/ UNCHANGED commits
           \/ \E f \in BuildSteps \cup {"none"} : commits' = Append(commits, f)
    PROVE  DeployInv'
<1> USE DEF DeployInv
<1>1. DeployTypeOK'
  <2>1. commits' \in Seq(BuildSteps \cup {"none"}) /\ Len(commits) <= Len(commits')
    <3>1. commits \in Seq(BuildSteps \cup {"none"}) /\ Len(commits) \in Nat
      BY DEF DeployTypeOK
    <3>2. CASE UNCHANGED commits
      BY <3>1, <3>2
    <3>3. CASE \E f \in BuildSteps \cup {"none"} : commits' = Append(commits, f)
      <4>1. PICK f \in BuildSteps \cup {"none"} : commits' = Append(commits, f)
        BY <3>3
      <4>2. /\ Append(commits, f) \in Seq(BuildSteps \cup {"none"})
            /\ Len(Append(commits, f)) = Len(commits) + 1
        BY <3>1
      <4> QED
        BY <3>1, <4>1, <4>2
    <3> QED
      BY <3>2, <3>3
  <2>2. requests' \in Seq(1..Len(commits')) /\ Len(requests') = Len(requests) + 1
    BY <2>1 DEF DeployTypeOK, Enqueue
  <2>3. /\ DOMAIN requests' = 1..(Len(requests) + 1)
        /\ DOMAIN requests = 1..Len(requests)
        /\ Len(requests) \in Nat
    BY <2>2 DEF DeployTypeOK, Enqueue
  <2>4. runs' \in [1..Len(requests') -> {"pending"} \cup Active \cup Ended]
    BY <2>2, <2>3 DEF DeployTypeOK, Enqueue, Ended
  <2>5. deployed' \in {0} \cup DOMAIN runs'
    BY <2>2, <2>3, <2>4 DEF DeployTypeOK
  <2> QED
    BY <2>1, <2>2, <2>4, <2>5 DEF DeployTypeOK
<1>2. /\ Len(requests') = Len(requests) + 1
      /\ DOMAIN runs' = 1..(Len(requests) + 1)
      /\ DOMAIN runs = 1..Len(requests)
      /\ \A n \in DOMAIN runs : requests'[n] = requests[n]
      /\ \A n \in DOMAIN runs : runs'[n] = IF runs[n] = "pending" THEN "cancelled" ELSE runs[n]
      /\ runs'[Len(requests) + 1] = "pending"
  BY DEF DeployTypeOK, Enqueue
<1>3. ActiveRuns' = ActiveRuns
  BY <1>2 DEF ActiveRuns, Active, BuildSteps, DeployTypeOK
<1>4. QueueInv'
  BY <1>2, <1>3 DEF QueueInv, DeployTypeOK
<1>5. \A n \in DOMAIN runs : commits'[requests'[n]] = commits[requests[n]]
  <2>1. \A d \in 1..Len(commits) : commits'[d] = commits[d]
    BY DEF DeployTypeOK
  <2>2. \A n \in DOMAIN runs : requests[n] \in 1..Len(commits)
    BY <1>2 DEF DeployTypeOK
  <2> QED
    BY <1>2, <2>1, <2>2
<1>6. deployed \in {0} \cup DOMAIN runs
  BY DEF DeployTypeOK
<1>7. DeployedIsValidated'
  BY <1>2, <1>5, <1>6 DEF DeployedIsValidated, PassedInv
<1>8. ASSUME NEW n \in DOMAIN runs'
      PROVE  \/ runs'[n] \in {"pending", "cancelled"}
             \/ /\ n \in DOMAIN runs
                /\ runs'[n] = runs[n]
                /\ commits'[requests'[n]] = commits[requests[n]]
  <2>1. CASE n = Len(requests) + 1
    BY <1>2, <2>1
  <2>2. CASE n \in DOMAIN runs
    BY <1>2, <1>5, <2>2
  <2>3. Len(requests) \in Nat
    BY DEF DeployTypeOK
  <2> QED
    BY <1>2, <1>8, <2>1, <2>2, <2>3
<1>9. PassedInv'
  BY <1>7, <1>8 DEF PassedInv
<1> QED
  BY <1>1, <1>4, <1>9

\* Progress of one run changes only that run and what is deployed.
LEMMA ProgressPreserves ==
    ASSUME DeployInv, NEW n \in DOMAIN runs, Progress(n)
    PROVE  DeployInv'
<1> USE DEF DeployInv
<1>0. /\ n \in 1..Len(requests)
      /\ Len(requests) \in Nat
      /\ DOMAIN runs = 1..Len(requests)
      /\ deployed \in {0} \cup 1..Len(requests)
  BY DEF DeployTypeOK
<1>1. CASE StartRun(n)
  <2>1. DeployTypeOK'
    BY <1>0, <1>1 DEF StartRun, DeployTypeOK, Active, BuildSteps
  <2>2. n = Len(requests) /\ deployed # n
    BY <1>0, <1>1 DEF StartRun, QueueInv, PassedInv, DeployedIsValidated
  <2>3. ActiveRuns' = {n}
    BY <1>0, <1>1 DEF StartRun, ActiveRuns, Active, BuildSteps, DeployTypeOK
  <2>4. QueueInv'
    BY <1>0, <1>1, <2>2, <2>3 DEF StartRun, QueueInv, DeployTypeOK
  <2>5. PassedInv'
    BY <1>0, <1>1, <2>2 DEF StartRun, PassedInv, DeployedIsValidated, DeployTypeOK
  <2> QED
    BY <2>1, <2>4, <2>5
<1>2. CASE PassStep(n)
  <2>1. runs' = [runs EXCEPT ![n] = StepAfter[runs[n]]]
    BY <1>2 DEF PassStep
  <2>2. \/ runs[n] = "validate" /\ runs'[n] = "replay"
        \/ runs[n] = "replay" /\ runs'[n] = "build"
        \/ runs[n] = "build" /\ runs'[n] = "upload"
        \/ runs[n] = "upload" /\ runs'[n] = "deploy"
    BY <1>0, <1>2, <2>1 DEF PassStep, Active, BuildSteps, StepAfter, DeployTypeOK
  <2>3. DeployTypeOK'
    BY <1>0, <1>2, <2>1, <2>2 DEF PassStep, DeployTypeOK, Active, BuildSteps
  <2>4. ActiveRuns' = ActiveRuns
    BY <1>0, <2>1, <2>2 DEF ActiveRuns, Active, BuildSteps, DeployTypeOK
  <2>5. QueueInv'
    BY <1>0, <1>2, <2>1, <2>2, <2>4 DEF PassStep, QueueInv, DeployTypeOK
  <2>6. DeployedIsValidated'
    BY <1>0, <1>2, <2>1, <2>2 DEF PassStep, PassedInv, DeployedIsValidated, DeployTypeOK
  <2>7. PassedInv'
    BY <1>0, <1>2, <2>1, <2>2, <2>6 DEF PassStep, PassedInv, DeployTypeOK
  <2> QED
    BY <2>3, <2>5, <2>7
<1>3. CASE FailStep(n)
  <2>1. DeployTypeOK'
    BY <1>0, <1>3 DEF FailStep, DeployTypeOK, Ended
  <2>2. ActiveRuns' \subseteq ActiveRuns
    BY <1>0, <1>3 DEF FailStep, ActiveRuns, Active, BuildSteps, DeployTypeOK
  <2>3. QueueInv'
    BY <1>0, <1>3, <2>2 DEF FailStep, QueueInv, DeployTypeOK
  <2>4. runs[n] # "done"
    BY <1>3 DEF FailStep, Active, BuildSteps
  <2>5. PassedInv'
    BY <1>0, <1>3, <2>4 DEF FailStep, PassedInv, DeployedIsValidated, DeployTypeOK
  <2> QED
    BY <2>1, <2>3, <2>5
<1>4. CASE Deploy(n)
  <2>1. DeployTypeOK'
    BY <1>0, <1>4 DEF Deploy, DeployTypeOK, Ended
  <2>2. n \in ActiveRuns
    BY <1>0, <1>4 DEF Deploy, ActiveRuns, Active
  <2>3. ActiveRuns' = {}
    BY <1>0, <1>4, <2>2 DEF Deploy, ActiveRuns, Active, BuildSteps, QueueInv, DeployTypeOK
  <2>4. QueueInv'
    BY <1>0, <1>4, <2>3 DEF Deploy, QueueInv, DeployTypeOK
  <2>5. commits[requests[n]] \in BuildSteps \cup {"none"}
    BY <1>0 DEF DeployTypeOK
  <2>6. commits[requests[n]] = "none"
    BY <1>0, <1>4, <2>5 DEF Deploy, PassedInv, BuildSteps
  <2>7. PassedInv'
    BY <1>0, <1>4, <2>6 DEF Deploy, PassedInv, DeployedIsValidated, DeployTypeOK
  <2> QED
    BY <2>1, <2>4, <2>7
<1> QED
  BY <1>1, <1>2, <1>3, <1>4 DEF Progress

\* The queue and the steps a run passed are an inductive invariant.
LEMMA StepPreserves == DeployInv /\ [DeployNext]_deployVars => DeployInv'
<1> SUFFICES ASSUME DeployInv, [DeployNext]_deployVars
             PROVE  DeployInv'
  OBVIOUS
<1>1. ASSUME NEW f \in BuildSteps \cup {"none"}, Push(f)
      PROVE  DeployInv'
  <2>1. Len(commits) + 1 \in 1..Len(commits')
    BY <1>1 DEF Push, DeployInv, DeployTypeOK
  <2> QED
    BY <1>1, <2>1, EnqueuePreserves DEF Push
<1>2. ASSUME NEW c \in DOMAIN commits, Dispatch(c)
      PROVE  DeployInv'
  <2>1. c \in 1..Len(commits')
    BY <1>2 DEF Dispatch, DeployInv, DeployTypeOK
  <2> QED
    BY <1>2, <2>1, EnqueuePreserves DEF Dispatch
<1>3. ASSUME NEW n \in DOMAIN runs, Progress(n)
      PROVE  DeployInv'
  BY <1>3, ProgressPreserves
<1>4. CASE UNCHANGED deployVars
  BY <1>4 DEF deployVars, DeployInv, DeployTypeOK, QueueInv, PassedInv, ActiveRuns,
              DeployedIsValidated
<1> QED
  BY <1>1, <1>2, <1>3, <1>4 DEF DeployNext

LEMMA DeployInvariance == DeploySpec => []DeployInv
BY InitDeployInv, StepPreserves, PTL DEF DeploySpec

\* The site only ever serves a commit that passes validation, the replay and the
\* build (deploy-pages.yml:32-40).
THEOREM OnlyValidatedServed == DeploySpec => []DeployedIsValidated
<1>1. DeployInv => DeployedIsValidated
  BY DEF DeployInv, PassedInv
<1> QED
  BY <1>1, DeployInvariance, PTL

\* A run never replaces the site of a run requested after it
\* (deploy-pages.yml:13-15).
THEOREM NeverOlder == DeploySpec => NeverOlderRequest
<1>1. DeployInv /\ [DeployNext]_deployVars => [deployed' >= deployed]_deployVars
  <2> SUFFICES ASSUME DeployInv, DeployNext
               PROVE  deployed' >= deployed
    BY DEF deployVars
  <2>1. deployed \in Nat
    BY DEF DeployInv, DeployTypeOK
  <2>2. CASE UNCHANGED deployed
    BY <2>1, <2>2
  <2>3. ASSUME NEW n \in DOMAIN runs, Deploy(n)
        PROVE  deployed' >= deployed
    <3>1. n \in ActiveRuns /\ n \in Nat
      BY <2>3 DEF Deploy, ActiveRuns, Active, DeployInv, DeployTypeOK
    <3> QED
      BY <2>1, <2>3, <3>1 DEF Deploy, DeployInv, QueueInv
  <2> QED
    BY <2>2, <2>3 DEF DeployNext, Push, Dispatch, Progress, StartRun, PassStep, FailStep
<1> QED
  BY <1>1, DeployInvariance, PTL DEF DeploySpec, NeverOlderRequest
=============================================================================
