------------------------------ MODULE HealthCheck ------------------------------
(***************************************************************************)
(* .github/workflows/health-check.yml: a job checks the committed files    *)
(* and the published page, and records what it found in an issue that it   *)
(* looks up by title.  The schedule and workflow_dispatch start jobs, and  *)
(* no concurrency group keeps two of them apart; each call of the issue    *)
(* service is a step.  Maintainers leave the issue to the jobs.            *)
(***************************************************************************)
EXTENDS Integers, FiniteSets

CONSTANTS
    None,
    Jobs,       \* the jobs that may be under way at the same time
    IssueIds,   \* numbers for issues; one that is forgotten is given again
    MaxFaults   \* bound: failed calls, failed steps and cancelled jobs

ASSUME HealthAssumption ==
    /\ IsFiniteSet(Jobs)
    /\ None \notin IssueIds
    /\ MaxFaults \in Nat

VARIABLES
    healthy,    \* what the checks would find of the files and the page
    issues,     \* the open issues of the title
    job,        \* for each job, its next step and the issue it looked up
    faults

hvars == <<healthy, issues, job, faults>>

NoJob == [step |-> "none", found |-> None]

Init ==
    /\ healthy \in BOOLEAN
    /\ issues = {}
    /\ job = [j \in Jobs |-> NoJob]
    /\ faults = 0

Fault == faults < MaxFaults /\ faults' = faults + 1
Goto(j, step) == job' = [job EXCEPT ![j].step = step]
End(j) == job' = [job EXCEPT ![j] = NoJob]

\* on: schedule, workflow_dispatch
Trigger(j) ==
    /\ job[j].step = "none"
    /\ Goto(j, "check")
    /\ UNCHANGED <<healthy, issues, faults>>

\* The checks up to the published page.  One may also fail for want of the
\* network, or of the checkout.
Verify(j) ==
    /\ job[j].step = "check"
    /\ \/ healthy /\ Goto(j, "passed") /\ UNCHANGED faults
       \/ ~healthy /\ Goto(j, "failed") /\ UNCHANGED faults
       \/ Fault /\ Goto(j, "failed")
    /\ UNCHANGED <<healthy, issues>>

\* Fault: the title looked for is no longer the one issues are opened with.
ListedUnderOldTitle == {None}

\* The first open issue of the title: whichever the service lists first.
Listed == IF issues = {} THEN {None} ELSE issues

\* The lookup.  The shell goes on when curl fails at the head of the pipe, and
\* takes the empty output for the absence of an issue.
Lookup(j) ==
    /\ job[j].step \in {"failed", "passed"}
    /\ \E found \in Listed \cup {None} :
        /\ \/ found \in Listed /\ UNCHANGED faults
           \/ found = None /\ Fault
        /\ job' = [job EXCEPT
                ![j] = [step |-> IF @.step = "failed" THEN "record" ELSE "resolve",
                        found |-> found]]
    /\ UNCHANGED <<healthy, issues>>

\* The bound on the numbers: one must be left that is neither open nor held.
Unused == IssueIds \ (issues \cup {job[j].found : j \in Jobs})

\* failure(): the issue found is commented on, even if it was closed since; where
\* none was found one is opened.
Record(j) ==
    /\ job[j].step = "record"
    /\ \/ job[j].found # None /\ UNCHANGED issues
       \/ /\ job[j].found = None /\ Unused # {}
          /\ issues' = issues \cup {CHOOSE i \in Unused : TRUE}
    /\ End(j)
    /\ UNCHANGED <<healthy, faults>>

\* Fault: the recovery step says that it closes the issue, and does not.
ResolveByComment(j) ==
    /\ job[j].step = "resolve"
    /\ End(j)
    /\ UNCHANGED <<healthy, issues, faults>>

\* success(): the issue found is commented on and closed.
Resolve(j) ==
    /\ job[j].step = "resolve"
    /\ issues' = issues \ {job[j].found}
    /\ End(j)
    /\ UNCHANGED <<healthy, faults>>

\* timeout-minutes cancels the job, or the shell ends with the failure of a call.
GiveUp(j) ==
    /\ job[j].step # "none"
    /\ Fault
    /\ End(j)
    /\ UNCHANGED <<healthy, issues>>

\* Something breaks, or is repaired.
Turn == healthy' = ~healthy /\ UNCHANGED <<issues, job, faults>>

Proceed(j) == Verify(j) \/ Lookup(j) \/ Record(j) \/ Resolve(j)

Next ==
    \/ \E j \in Jobs : Trigger(j) \/ Proceed(j) \/ GiveUp(j)
    \/ Turn

Spec == Init /\ [][Next]_hvars

\* The schedule goes on, and a job that was started proceeds.
FairSpec ==
    /\ Spec
    /\ WF_hvars(\E j \in Jobs : Trigger(j))
    /\ \A j \in Jobs : WF_hvars(Proceed(j))

------------------------------------------------------------------------------
\* Properties.

\* Issues of the title pile up only as far as jobs overlap or calls fail: each job
\* that is under way, and each fault, accounts for at most one.
DuplicatesFromOverlap == Cardinality(issues) <= Cardinality(Jobs) + faults

\* The issue follows the health of the platform: once that stays broken an issue
\* comes to stay open, and once it stays sound none does, whatever jobs of before
\* are still under way, with issues opened twice and comments on closed ones.
IssueFollowsHealth ==
    /\ <>[]~healthy => <>[](issues # {})
    /\ <>[]healthy => <>[](issues = {})
================================================================================
