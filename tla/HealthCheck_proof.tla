--------------------------- MODULE HealthCheck_proof ---------------------------
(***************************************************************************)
(* Duplicates of the health issue come from overlapping jobs and from      *)
(* faults alone, for any number of jobs.                                   *)
(***************************************************************************)
EXTENDS HealthCheck, FiniteSetTheorems, TLAPS

\* The jobs that are about to open an issue.
Opening(at) == at.step = "record" /\ at.found = None
Openers == {j \in Jobs : Opening(job[j])}

\* Each open issue and each opener takes the place of a job or of a fault.  An
\* opener counts already, because it goes on whatever others open in between.
Inv ==
    /\ DOMAIN job = Jobs
    /\ faults \in Nat
    /\ issues \subseteq IssueIds /\ IsFiniteSet(issues)
    /\ Cardinality(issues) + Cardinality(Openers) <= Cardinality(Jobs) + faults

LEMMA OpenersAreJobs ==
    IsFiniteSet(Openers) /\ Cardinality(Openers) \in Nat /\ Cardinality(Jobs) \in Nat
BY HealthAssumption, FS_Subset, FS_CardinalityType DEF Openers

\* A step that only lets jobs leave, and closes issues, keeps the invariant.
LEMMA FewerKeepInv ==
    ASSUME Inv, DOMAIN job' = Jobs, faults' \in {faults, faults + 1},
           issues' \subseteq issues, Openers' \subseteq Openers
    PROVE  Inv'
<1>1. IsFiniteSet(issues') /\ Cardinality(issues') <= Cardinality(issues)
  BY FS_Subset DEF Inv
<1>2. Cardinality(Openers') <= Cardinality(Openers) /\ IsFiniteSet(Openers')
  BY OpenersAreJobs, FS_Subset
<1>3. /\ Cardinality(issues') \in Nat /\ Cardinality(issues) \in Nat
      /\ Cardinality(Openers') \in Nat
  BY <1>1, <1>2, FS_CardinalityType DEF Inv
<1> QED
  BY <1>1, <1>2, <1>3, OpenersAreJobs DEF Inv

LEMMA InitInv == Init => Inv
<1> SUFFICES ASSUME Init PROVE Inv
  OBVIOUS
<1>1. Openers = {}
  BY DEF Init, Openers, Opening, NoJob
<1> QED
  BY <1>1, FS_EmptySet, OpenersAreJobs DEF Init, Inv

\* A job is ended, or goes on to a step at which it opens nothing.
LEMMA OthersStay ==
    ASSUME Inv, NEW j \in Jobs, NEW to,
           ~Opening(to), job' = [job EXCEPT ![j] = to]
    PROVE  DOMAIN job' = Jobs /\ Openers' = Openers \ {j}
BY DEF Inv, Openers

LEMMA LookupInv ==
    ASSUME Inv, NEW j \in Jobs, Lookup(j)
    PROVE  Inv'
<1>1. PICK found \in Listed \cup {None} :
        /\ (found \in Listed /\ UNCHANGED faults) \/ (found = None /\ Fault)
        /\ job' = [job EXCEPT
                ![j] = [step |-> IF @.step = "failed" THEN "record" ELSE "resolve",
                        found |-> found]]
  BY DEF Lookup
<1> DEFINE to == [step |-> IF job[j].step = "failed" THEN "record" ELSE "resolve",
                  found |-> found]
<1>2. job' = [job EXCEPT ![j] = to] /\ UNCHANGED issues
  BY <1>1 DEF Lookup
<1>3. faults' \in {faults, faults + 1}
  BY <1>1 DEF Fault
<1>4. CASE ~Opening(to)
  <2> HIDE DEF to
  <2> QED
    BY <1>2, <1>3, <1>4, OthersStay, FewerKeepInv
<1>5. CASE Opening(to)
  <2>1. DOMAIN job' = Jobs /\ Openers' = Openers \cup {j} /\ j \notin Openers
    <3>1. ~Opening(job[j])
      BY DEF Lookup, Opening
    <3> HIDE DEF to
    <3> QED
      BY <1>2, <1>5, <3>1 DEF Inv, Openers
  <2>2. IsFiniteSet(Openers') /\ Cardinality(Openers') = Cardinality(Openers) + 1
    BY <2>1, OpenersAreJobs, FS_AddElement
  <2>3. Cardinality(Openers') <= Cardinality(Jobs)
    <3>1. Openers' \subseteq Jobs
      BY <2>1 DEF Openers
    <3> QED
      BY <3>1, HealthAssumption, FS_Subset
  <2>4. CASE issues = {}
    BY <1>2, <1>3, <2>1, <2>2, <2>3, <2>4, FS_EmptySet, OpenersAreJobs DEF Inv
  <2>5. CASE issues # {}
    <3>1. faults' = faults + 1
      <4>1. None \notin issues
        BY HealthAssumption DEF Inv
      <4> QED
        BY <1>1, <1>5, <2>5, <4>1 DEF Listed, Fault, Opening
    <3> QED
      BY <1>2, <2>1, <2>2, <3>1, OpenersAreJobs, FS_CardinalityType DEF Inv
  <2> QED
    BY <2>4, <2>5
<1> QED
  BY <1>4, <1>5

\* Whoever opens an issue was an opener, and its place goes to the issue.
LEMMA RecordInv ==
    ASSUME Inv, NEW j \in Jobs, Record(j)
    PROVE  Inv'
<1>1. ~Opening(NoJob)
  BY DEF NoJob, Opening
<1>2. DOMAIN job' = Jobs /\ Openers' = Openers \ {j} /\ UNCHANGED faults
  BY <1>1, OthersStay DEF Record, End
<1>3. CASE UNCHANGED issues
  BY <1>2, <1>3, FewerKeepInv
<1>4. CASE /\ job[j].found = None /\ Unused # {}
           /\ issues' = issues \cup {CHOOSE i \in Unused : TRUE}
  <2>1. PICK i \in Unused : issues' = issues \cup {i}
    BY <1>4
  <2>2. i \in IssueIds \ issues
    BY DEF Unused
  <2>3. IsFiniteSet(issues') /\ Cardinality(issues') = Cardinality(issues) + 1
    BY <2>1, <2>2, FS_AddElement DEF Inv
  <2>4. j \in Openers
    BY <1>4 DEF Openers, Opening, Record
  <2>5. Cardinality(Openers') = Cardinality(Openers) - 1
    BY <1>2, <2>4, OpenersAreJobs, FS_RemoveElement
  <2>6. Cardinality(issues) \in Nat
    BY FS_CardinalityType DEF Inv
  <2> QED
    BY <1>2, <2>1, <2>2, <2>3, <2>5, <2>6, OpenersAreJobs DEF Inv
<1> QED
  BY <1>3, <1>4 DEF Record

LEMMA StepInv == Inv /\ [Next]_hvars => Inv'
<1> SUFFICES ASSUME Inv, [Next]_hvars PROVE Inv'
  OBVIOUS
<1>1. ASSUME NEW j \in Jobs, Trigger(j) PROVE Inv'
  <2>1. DOMAIN job' = Jobs /\ Openers' \subseteq Openers
    BY <1>1 DEF Trigger, Goto, Openers, Opening, Inv
  <2> QED
    BY <1>1, <2>1, FewerKeepInv DEF Trigger
<1>2. ASSUME NEW j \in Jobs, Verify(j) PROVE Inv'
  <2>1. ASSUME NEW step \in {"passed", "failed"}, Goto(j, step)
        PROVE  DOMAIN job' = Jobs /\ Openers' \subseteq Openers
    BY <1>2, <2>1 DEF Verify, Goto, Openers, Opening, Inv
  <2>2. faults' \in {faults, faults + 1}
    BY <1>2 DEF Verify, Fault
  <2>3. DOMAIN job' = Jobs /\ Openers' \subseteq Openers
    BY <1>2, <2>1 DEF Verify
  <2> QED
    BY <1>2, <2>2, <2>3, FewerKeepInv DEF Verify
<1>3. ASSUME NEW j \in Jobs, Resolve(j) PROVE Inv'
  <2>1. ~Opening(NoJob)
    BY DEF NoJob, Opening
  <2>2. DOMAIN job' = Jobs /\ Openers' \subseteq Openers
    BY <1>3, <2>1, OthersStay DEF Resolve, End
  <2> QED
    BY <1>3, <2>2, FewerKeepInv DEF Resolve
<1>4. ASSUME NEW j \in Jobs, GiveUp(j) PROVE Inv'
  <2>1. ~Opening(NoJob)
    BY DEF NoJob, Opening
  <2>2. DOMAIN job' = Jobs /\ Openers' \subseteq Openers
    BY <1>4, <2>1, OthersStay DEF GiveUp, End
  <2> QED
    BY <1>4, <2>2, FewerKeepInv DEF GiveUp, Fault
<1>5. CASE Turn \/ UNCHANGED hvars
  BY <1>5, FewerKeepInv DEF Turn, hvars, Openers, Inv
<1> QED
  BY <1>1, <1>2, <1>3, <1>4, <1>5, LookupInv, RecordInv DEF Next, Proceed

\* Open issues of the health check are never more than the jobs that can overlap
\* and the faults so far (.github/workflows/health-check.yml): without faults, a
\* group of one job at a time would never open a second.
THEOREM IssuesAreFew == Spec => []DuplicatesFromOverlap
<1>1. Inv => DuplicatesFromOverlap
  BY OpenersAreJobs, FS_CardinalityType DEF Inv, DuplicatesFromOverlap
<1> QED
  BY <1>1, InitInv, StepInv, PTL DEF Spec
=============================================================================
