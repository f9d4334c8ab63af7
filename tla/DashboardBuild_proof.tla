------------------------- MODULE DashboardBuild_proof -------------------------
(***************************************************************************)
(* What the review decisions promise by themselves and together with the   *)
(* dashboard build, for any packages, replies, payloads and bounds.        *)
(*                                                                         *)
(* First the helpers of ReviewRecords: the free identifier and the free    *)
(* name they search for exist, and appending the next entry keeps a        *)
(* history well formed.  Then four regimes, each with its invariant:       *)
(*                                                                         *)
(*   - any number of reviewers, with or without crashes, torn restores,    *)
(*     live inputs and rebuilds: histories are well formed;                *)
(*   - any number of reviewers, killed or not, on inputs that stand still  *)
(*     while a decision runs: only reviewed replies are published;         *)
(*   - one reviewer, who may be killed: what was reported stands;          *)
(*   - one reviewer, whose writes may fail: the stores match, the script   *)
(*     implements the atomic ledger, and the Outlook shows what is         *)
(*     recorded and never goes back.                                       *)
(***************************************************************************)
EXTENDS DashboardBuild, FiniteSetTheorems, WellFoundedInduction, TLAPS

------------------------------------------------------------------------------
\* The helpers of ReviewRecords.

\* A set of naturals that is not empty has a least member.
LEMMA MinimumIsLeast ==
    ASSUME NEW S \in SUBSET Nat, S # {}
    PROVE  /\ Minimum(S) \in S
           /\ \A x \in S : Minimum(S) <= x
<1> DEFINE R == OpToRel(<, Nat)
<1>1. IsWellFoundedOn(R, Nat)
  BY NatLessThanWellFounded
<1>2. \A x, y \in Nat : x < y => <<x, y>> \in R
  BY DEF OpToRel
<1> HIDE DEF R
<1>3. PICK m \in S : \A y \in S : ~(<<y, m>> \in R)
  BY <1>1, WFMin
<1>4. ASSUME NEW y \in S PROVE m <= y
  <2>1. m \in Nat /\ y \in Nat
    OBVIOUS
  <2>2. ~(y < m)
    BY <1>2, <1>3, <2>1
  <2> QED
    BY <2>1, <2>2
<1> QED
  BY <1>4 DEF Minimum

\* A bounded set of naturals that is not empty has a greatest member.
LEMMA MaximumIsGreatest ==
    ASSUME NEW S \in SUBSET Nat, S # {},
           NEW n \in Nat, \A x \in S : x <= n
    PROVE  /\ Maximum(S) \in S
           /\ \A x \in S : x <= Maximum(S)
<1> DEFINE Bounds == {m \in Nat : \A x \in S : x <= m}
           m == Minimum(Bounds)
<1>1. m \in Bounds /\ \A x \in Bounds : m <= x
  <2>1. n \in Bounds
    OBVIOUS
  <2> QED
    BY <2>1, MinimumIsLeast
<1>2. m \in Nat /\ \A x \in S : x <= m
  BY <1>1
<1>3. \A k \in Nat : (\A x \in S : x <= k) => m <= k
  BY <1>1
<1> HIDE DEF m
<1>4. m \in S
  <2>1. CASE m = 0
    <3>1. PICK x \in S : TRUE
      OBVIOUS
    <3>2. x \in Nat /\ x <= m
      BY <1>2
    <3>3. x = m
      BY <2>1, <3>2
    <3> QED
      BY <3>3
  <2>2. CASE m # 0
    <3>1. m - 1 \in Nat /\ ~(m <= m - 1)
      BY <1>2, <2>2
    <3>2. PICK x \in S : ~(x <= m - 1)
      BY <1>3, <3>1
    <3>3. x = m
      BY <1>2, <3>1, <3>2
    <3> QED
      BY <3>3
  <2> QED
    BY <2>1, <2>2
<1> QED
  BY <1>2, <1>4 DEF Maximum

\* unique_history_id finds an identifier no entry of the history has.
LEMMA UniqueHistoryIdIsFree ==
    ASSUME NEW h \in Seq(Entry), NEW day \in Nat, NEW prefix \in Bodies
    PROVE  /\ UniqueHistoryId(h, day, prefix) \in HistoryId
           /\ \A i \in DOMAIN h : h[i].id # UniqueHistoryId(h, day, prefix)
<1> DEFINE id(n) == [day |-> day, prefix |-> prefix, n |-> n]
           taken == {h[i].id : i \in DOMAIN h}
           L == Len(h)
           Free == {n \in 1..(L + 1) : id(n) \notin taken}
<1>1. L \in Nat /\ DOMAIN h = 1..L
  OBVIOUS
<1>2. Free # {}
  <2>1. SUFFICES ASSUME \A n \in 1..(L + 1) : \E i \in 1..L : h[i].id = id(n)
                 PROVE  FALSE
    BY <1>1
  <2> DEFINE f == [n \in 1..(L + 1) |-> CHOOSE i \in 1..L : h[i].id = id(n)]
  <2>2. \A n \in 1..(L + 1) : f[n] \in 1..L /\ h[f[n]].id = id(n)
    BY <2>1
  <2>3. f \in [1..(L + 1) -> 1..L]
    BY <2>2
  <2>4. /\ IsFiniteSet(1..L) /\ Cardinality(1..L) = L
        /\ IsFiniteSet(1..(L + 1)) /\ Cardinality(1..(L + 1)) = L + 1
    BY <1>1, FS_Interval
  <2> HIDE DEF f
  <2>5. PICK m, n \in 1..(L + 1) : m # n /\ f[m] = f[n]
    BY <1>1, <2>3, <2>4, FS_PigeonHole
  <2>6. id(m) = id(n)
    BY <2>2, <2>5
  <2>7. id(m).n = id(n).n
    BY <2>6
  <2> QED
    BY <2>5, <2>7
<1>3. Minimum(Free) \in Free
  <2>1. Free \in SUBSET Nat
    BY <1>1
  <2> QED
    BY <1>2, <2>1, MinimumIsLeast
<1>4. UniqueHistoryId(h, day, prefix) = id(Minimum(Free))
  BY DEF UniqueHistoryId
<1>5. Minimum(Free) \in Nat \ {0} /\ id(Minimum(Free)) \notin taken
  BY <1>1, <1>3
<1>6. id(Minimum(Free)) \in HistoryId
  BY <1>5 DEF HistoryId
<1>7. \A i \in DOMAIN h : h[i].id # id(Minimum(Free))
  BY <1>5
<1> HIDE DEF id, Free
<1> QED
  BY <1>4, <1>6, <1>7

\* archive_target finds a name no archived file has.
LEMMA ArchiveTargetIsFree ==
    ASSUME NEW files, IsFiniteSet(DOMAIN files),
           NEW p \in Packages, NEW stamp \in Nat
    PROVE  /\ ArchiveTarget(files, p, stamp) \in ArchiveName
           /\ ArchiveTarget(files, p, stamp) \notin DOMAIN files
<1> DEFINE name(n) == [pkg |-> p, stamp |-> stamp, n |-> n]
           C == Cardinality(DOMAIN files)
           Free == {n \in 1..(C + 1) : name(n) \notin DOMAIN files}
<1>1. C \in Nat
  BY FS_CardinalityType
<1>2. Free # {}
  <2>1. SUFFICES ASSUME \A n \in 1..(C + 1) : name(n) \in DOMAIN files
                 PROVE  FALSE
    OBVIOUS
  <2> DEFINE f == [n \in 1..(C + 1) |-> name(n)]
  <2>2. f \in [1..(C + 1) -> DOMAIN files]
    BY <2>1
  <2>3. IsFiniteSet(1..(C + 1)) /\ Cardinality(1..(C + 1)) = C + 1
    BY <1>1, FS_Interval
  <2>4. PICK m, n \in 1..(C + 1) : m # n /\ f[m] = f[n]
    <3> HIDE DEF f
    <3> QED
      BY <1>1, <2>2, <2>3, FS_PigeonHole
  <2>5. name(m).n = name(n).n
    BY <2>4
  <2> QED
    BY <2>4, <2>5
<1>3. Minimum(Free) \in Free
  <2>1. Free \in SUBSET Nat
    BY <1>1
  <2> QED
    BY <1>2, <2>1, MinimumIsLeast
<1>4. ArchiveTarget(files, p, stamp) = name(Minimum(Free))
  BY DEF ArchiveTarget
<1>5. Minimum(Free) \in Nat \ {0} /\ name(Minimum(Free)) \notin DOMAIN files
  BY <1>1, <1>3
<1> QED
  BY <1>4, <1>5 DEF ArchiveName

------------------------------------------------------------------------------
\* In a well-formed history the revisions of a package increase along the
\* chain; kept beside WellFormed because the greatest recorded revision is
\* then that of the last approval.
Increasing(h) ==
    \A p \in Packages : \A i, j \in ApprovalsOf(h, p) :
        i < j => h[i].revision < h[j].revision

GoodHistory(h) == h \in Seq(Entry) /\ WellFormed(h) /\ Increasing(h)

LEMMA EmptyHistoryIsGood == GoodHistory(<< >>)
BY DEF GoodHistory, WellFormed, UniqueIds, Increasing, ApprovalsOf

\* The last approval of a package carries its greatest revision.
LEMMA LastApproval ==
    ASSUME NEW h, GoodHistory(h), NEW p \in Packages, ApprovalsOf(h, p) # {}
    PROVE  LET last == Maximum(ApprovalsOf(h, p))
           IN  /\ last \in ApprovalsOf(h, p)
               /\ \A i \in ApprovalsOf(h, p) : i <= last
               /\ NextRevision(h, p) = h[last].revision + 1
               /\ LatestApprovalId(h, p) = h[last].id
<1> DEFINE A == ApprovalsOf(h, p)
           last == Maximum(A)
           Revisions == {h[i].revision : i \in A}
<1>1. /\ A \in SUBSET Nat /\ Len(h) \in Nat /\ \A i \in A : i <= Len(h)
      /\ \A i \in A : i \in DOMAIN h /\ h[i] \in Entry
  BY DEF GoodHistory, ApprovalsOf
<1>2. last \in A /\ \A i \in A : i <= last
  BY <1>1, MaximumIsGreatest
<1>3. Revisions \in SUBSET Nat
  BY <1>1 DEF Entry
<1>4. \A i \in A : h[i].revision <= h[last].revision
  <2>1. ASSUME NEW i \in A PROVE h[i].revision <= h[last].revision
    <3>1. i = last \/ i < last
      BY <1>1, <1>2
    <3>2. h[i].revision \in Nat /\ h[last].revision \in Nat
      BY <1>2, <1>3
    <3>3. CASE i = last
      BY <3>2, <3>3
    <3>4. CASE i < last
      BY <1>2, <3>2, <3>4 DEF GoodHistory, Increasing
    <3> QED
      BY <3>1, <3>3, <3>4
  <2> QED
    BY <2>1
<1>5. h[last].revision \in Revisions /\ \A x \in Revisions : x <= h[last].revision
  BY <1>2, <1>4
<1>6. Maximum(Revisions) = h[last].revision
  <2>1. /\ Maximum(Revisions) \in Revisions
        /\ \A x \in Revisions : x <= Maximum(Revisions)
    BY <1>3, <1>5, MaximumIsGreatest
  <2> HIDE DEF Revisions
  <2>2. Maximum(Revisions) <= h[last].revision /\ h[last].revision <= Maximum(Revisions)
    BY <1>5, <2>1
  <2>3. Maximum(Revisions) \in Nat /\ h[last].revision \in Nat
    BY <1>3, <1>5, <2>1
  <2> QED
    BY <2>2, <2>3
<1>7. NextRevision(h, p) = h[last].revision + 1
  BY <1>6 DEF NextRevision
<1>8. LatestApprovalId(h, p) = h[last].id
  BY DEF LatestApprovalId
<1> QED
  BY <1>2, <1>7, <1>8

\* Before the first approval of a package there is nothing to continue.
LEMMA FirstApproval ==
    ASSUME NEW h, NEW p, ApprovalsOf(h, p) = {}
    PROVE  NextRevision(h, p) = 0 /\ LatestApprovalId(h, p) = None
BY DEF NextRevision, LatestApprovalId

\* next_revision and latest_approval_history_id return what a record holds.
LEMMA NextRevisionType ==
    ASSUME NEW h, GoodHistory(h), NEW p \in Packages
    PROVE  /\ NextRevision(h, p) \in Nat
           /\ LatestApprovalId(h, p) \in HistoryId \cup {None}
<1>1. CASE ApprovalsOf(h, p) = {}
  BY <1>1, FirstApproval
<1>2. CASE ApprovalsOf(h, p) # {}
  <2> DEFINE last == Maximum(ApprovalsOf(h, p))
  <2>1. /\ last \in ApprovalsOf(h, p)
        /\ NextRevision(h, p) = h[last].revision + 1
        /\ LatestApprovalId(h, p) = h[last].id
    BY <1>2, LastApproval
  <2>2. h[last] \in Entry
    BY <2>1 DEF ApprovalsOf, GoodHistory
  <2> QED
    BY <2>1, <2>2 DEF Entry
<1> QED
  BY <1>1, <1>2

\* The record main() installs.
LEMMA MakeRecordType ==
    ASSUME NEW h, GoodHistory(h), NEW p \in Packages,
           NEW out \in Output, NEW pkg \in PackageFile
    PROVE  MakeRecord(h, p, out, pkg) \in Record
BY NextRevisionType DEF MakeRecord, Record, PackageFile

\* The entry main() appends, and what it is made of.
LEMMA MakeEntryType ==
    ASSUME NEW h, GoodHistory(h), NEW p \in Packages, NEW decision \in Decisions,
           NEW out \in Output, NEW stamp \in Nat, NEW archived \in ArchiveName \cup {None}
    PROVE  /\ MakeEntry(h, p, decision, out, stamp, archived) \in Entry
           /\ \A i \in DOMAIN h :
                h[i].id # MakeEntry(h, p, decision, out, stamp, archived).id
<1>1. stamp \div SecondsPerDay \in Nat /\ out.body \in Bodies
  BY RecordsAssumption DEF Output
<1>2. h \in Seq(Entry)
  BY DEF GoodHistory
<1>3. /\ UniqueHistoryId(h, stamp \div SecondsPerDay, out.body) \in HistoryId
      /\ \A i \in DOMAIN h :
            h[i].id # UniqueHistoryId(h, stamp \div SecondsPerDay, out.body)
  BY <1>1, <1>2, UniqueHistoryIdIsFree
<1>4. /\ NextRevision(h, p) \in Nat
      /\ LatestApprovalId(h, p) \in HistoryId \cup {None}
  BY NextRevisionType
<1> QED
  BY <1>3, <1>4 DEF MakeEntry, Entry

\* Appending the entry of a decision keeps a history well formed.
LEMMA AppendKeepsGood ==
    ASSUME NEW h, GoodHistory(h), NEW p \in Packages, NEW decision \in Decisions,
           NEW out \in Output, NEW stamp \in Nat, NEW archived \in ArchiveName \cup {None}
    PROVE  GoodHistory(Append(h, MakeEntry(h, p, decision, out, stamp, archived)))
<1> DEFINE e == MakeEntry(h, p, decision, out, stamp, archived)
           g == Append(h, e)
           n == Len(h) + 1
<1>1. e \in Entry /\ \A i \in DOMAIN h : h[i].id # e.id
  BY MakeEntryType
<1>2. /\ e.subject = p
      /\ e.action = "approved" => /\ decision = "approve"
                                  /\ e.revision = NextRevision(h, p)
                                  /\ e.supersedes = LatestApprovalId(h, p)
  BY DEF MakeEntry, Decisions
<1>3. h \in Seq(Entry) /\ UniqueIds(h) /\ Increasing(h)
      /\ \A q \in Packages : \A i \in ApprovalsOf(h, q) : Continues(h, q, i)
  BY DEF GoodHistory, WellFormed
<1> HIDE DEF e
<1>4. /\ g \in Seq(Entry) /\ DOMAIN g = 1..n /\ DOMAIN h = 1..(n - 1) /\ n \in Nat \ {0}
      /\ \A i \in 1..(n - 1) : g[i] = h[i]
      /\ g[n] = e
  BY <1>1, <1>3
<1> HIDE DEF g, n
<1>5. \A q : ApprovalsOf(g, q) =
          ApprovalsOf(h, q) \cup (IF q = p /\ e.action = "approved" THEN {n} ELSE {})
  BY <1>2, <1>4 DEF ApprovalsOf
<1>6. \A q : \A i \in ApprovalsOf(h, q) : i \in 1..(n - 1) /\ g[i] = h[i] /\ h[i] \in Entry
  BY <1>3, <1>4 DEF ApprovalsOf
<1>7. UniqueIds(g)
  <2>1. ASSUME NEW i \in 1..n, NEW j \in 1..n, g[i].id = g[j].id
        PROVE  i = j
    <3>1. CASE i # n /\ j # n
      <4>1. i \in DOMAIN h /\ j \in DOMAIN h /\ g[i] = h[i] /\ g[j] = h[j]
        BY <1>4, <3>1
      <4> QED
        BY <1>3, <2>1, <4>1 DEF UniqueIds
    <3>2. CASE i = n /\ j # n
      BY <1>1, <1>4, <2>1, <3>2
    <3>3. CASE i # n /\ j = n
      BY <1>1, <1>4, <2>1, <3>3
    <3> QED
      BY <3>1, <3>2, <3>3
  <2> QED
    BY <1>4, <2>1 DEF UniqueIds
<1>8. ASSUME NEW q \in Packages, NEW i \in ApprovalsOf(h, q)
      PROVE  Continues(g, q, i)
  <2> DEFINE before == {j \in ApprovalsOf(h, q) : j < i}
             last == Maximum(before)
  <2>1. {j \in ApprovalsOf(g, q) : j < i} = before
    BY <1>4, <1>5, <1>6
  <2>2. Continues(h, q, i) /\ g[i] = h[i]
    BY <1>3, <1>6
  <2>3. CASE before = {}
    BY <2>1, <2>2, <2>3 DEF Continues
  <2>4. CASE before # {}
    <3>1. before \in SUBSET Nat /\ i \in Nat /\ \A x \in before : x <= i
      BY <1>4, <1>6
    <3>2. last \in before
      BY <2>4, <3>1, MaximumIsGreatest
    <3>3. g[last] = h[last]
      BY <1>6, <3>2
    <3>4. h[i].revision = h[last].revision + 1 /\ h[i].supersedes = h[last].id
      BY <2>2, <2>4 DEF Continues
    <3> QED
      BY <2>1, <2>2, <2>4, <3>3, <3>4 DEF Continues
  <2> QED
    BY <2>3, <2>4
<1>9. ASSUME e.action = "approved"
      PROVE  Continues(g, p, n) /\ \A i \in ApprovalsOf(h, p) : h[i].revision < e.revision
  <2> DEFINE A == ApprovalsOf(h, p)
             last == Maximum(A)
  <2>1. {j \in ApprovalsOf(g, p) : j < n} = A
    BY <1>4, <1>5, <1>6, <1>9
  <2>2. CASE A = {}
    BY <1>2, <1>4, <1>9, <2>1, <2>2, FirstApproval DEF Continues
  <2>3. CASE A # {}
    <3>1. /\ last \in A /\ \A i \in A : i <= last
          /\ e.revision = h[last].revision + 1
          /\ e.supersedes = h[last].id
      BY <1>2, <1>9, <2>3, LastApproval
    <3>2. g[last] = h[last]
      BY <1>6, <3>1
    <3>3. Continues(g, p, n)
      BY <1>4, <2>1, <2>3, <3>1, <3>2 DEF Continues
    <3>4. ASSUME NEW i \in A PROVE h[i].revision < e.revision
      <4>1. i \in Nat /\ last \in Nat /\ i <= last
            /\ h[i].revision \in Nat /\ h[last].revision \in Nat
        BY <1>4, <1>6, <3>1 DEF Entry
      <4>2. i = last \/ h[i].revision < h[last].revision
        BY <1>3, <3>1, <4>1 DEF Increasing
      <4> QED
        BY <3>1, <4>1, <4>2
    <3> QED
      BY <3>3, <3>4
  <2> QED
    BY <2>2, <2>3
<1>10. Increasing(g)
  <2>1. ASSUME NEW q \in Packages,
               NEW i \in ApprovalsOf(g, q), NEW j \in ApprovalsOf(g, q), i < j
        PROVE  g[i].revision < g[j].revision
    <3>1. CASE i \in ApprovalsOf(h, q) /\ j \in ApprovalsOf(h, q)
      BY <1>3, <1>6, <2>1, <3>1 DEF Increasing
    <3>2. CASE i \in ApprovalsOf(h, q) /\ j = n /\ q = p /\ e.action = "approved"
      BY <1>4, <1>6, <1>9, <3>2
    <3>3. i # n
      BY <1>4, <1>5, <1>6, <2>1
    <3> QED
      BY <1>5, <3>1, <3>2, <3>3
  <2> QED
    BY <2>1 DEF Increasing
<1>11. \A q \in Packages : \A i \in ApprovalsOf(g, q) : Continues(g, q, i)
  BY <1>5, <1>8, <1>9
<1> QED
  BY <1>4, <1>7, <1>10, <1>11 DEF GoodHistory, WellFormed, g, e

------------------------------------------------------------------------------
\* The executions.

IsCurrent(file) == file \notin {None, Torn} => file.dataset = Current

\* What is true of one execution: its locals are of their kinds, the histories
\* it holds are well formed, and past the gate an approval holds a current
\* package.
RunInv(r) ==
    /\ run[r] \in RunState
    /\ RunOK(r)
    /\ GoodHistory(run[r].hist)
    /\ run[r].oldHistory # Torn => GoodHistory(run[r].oldHistory)
    /\ IsCurrent(run[r].oldApproved)
    /\ run[r].pc \in {"archive", "move", "writeApproved", "installApproved"} =>
            run[r].decision = "approve"
    /\ run[r].pc \in {"load", "enter"} \cup WritingPcs /\ run[r].decision = "approve" =>
            run[r].pkg.dataset = Current

\* What is true of the files the script writes.
StoresInv ==
    /\ approved \in [Packages -> StoredRecord]
    /\ approvedTmp \in [Packages -> StoredRecord]
    /\ IsFiniteSet(DOMAIN archive) /\ DOMAIN archive \subseteq ArchiveName
    /\ \A x \in DOMAIN archive : archive[x] \in Record \cup {Torn} /\ IsCurrent(archive[x])
    /\ \A p \in Packages : IsCurrent(approved[p]) /\ IsCurrent(approvedTmp[p])
    /\ history # Torn => GoodHistory(history)
    /\ historyTmp \notin {None, Torn} => GoodHistory(historyTmp)
    /\ confirmed \subseteq Entry

\* What is true of the files the script reads.
InputsInv ==
    /\ packages \in [Packages -> MaybePackage]
    /\ inbound \in [Packages -> MaybeOutput]
    /\ acq \in Nat \cup {None}
    /\ clock \in Nat /\ built \in Nat /\ decisions \in Nat

IInv ==
    /\ InputsInv
    /\ StoresInv
    /\ run = [r \in Reviewers |-> run[r]]
    /\ \A r \in Reviewers : RunInv(r)

LEMMA InitIInv == Init => IInv
<1> SUFFICES ASSUME Init PROVE IInv
  OBVIOUS
<1>1. GoodHistory(<< >>)
  BY EmptyHistoryIsGood
<1>2. InputsInv
  BY DEF Init, InputsInv, MaybePackage, MaybeOutput
<1>3. StoresInv
  BY <1>1, FS_EmptySet DEF Init, StoresInv, StoredRecord, IsCurrent
<1>4. ASSUME NEW r \in Reviewers PROVE RunInv(r)
  BY <1>1 DEF Init, RunInv, RunOK, RunState, IdleRun, ReadingPcs, WritingPcs, RestoringPcs,
     MaybePackage, MaybeOutput, StoredRecord, StoredHistory, IsCurrent
<1>5. run = [r \in Reviewers |-> run[r]]
  BY DEF Init
<1> QED
  BY <1>2, <1>3, <1>4, <1>5 DEF IInv

LEMMA IInvImplies == IInv => TypeOK /\ HistoryWellFormed /\ ApprovedIsCurrent
<1> SUFFICES ASSUME IInv PROVE TypeOK /\ HistoryWellFormed /\ ApprovedIsCurrent
  OBVIOUS
<1>1. TypeOK
  BY DEF IInv, InputsInv, StoresInv, RunInv, TypeOK, StoredHistory, GoodHistory
<1>2. HistoryWellFormed
  BY DEF IInv, StoresInv, HistoryWellFormed, GoodHistory
<1>3. ApprovedIsCurrent
  BY DEF IInv, StoresInv, ApprovedIsCurrent, IsCurrent
<1> QED
  BY <1>1, <1>2, <1>3

\* An idle execution has no obligations.
LEMMA IdleRunInv ==
    ASSUME NEW r \in Reviewers, run'[r] = IdleRun
    PROVE  RunInv(r)'
BY EmptyHistoryIsGood
   DEF RunInv, RunOK, RunState, IdleRun, ReadingPcs, WritingPcs, RestoringPcs,
     MaybePackage, MaybeOutput, StoredRecord, StoredHistory, IsCurrent

\* A step that leaves the inputs alone and changes the locals of r only
\* preserves what is true of the other executions.
LEMMA OthersUndisturbed ==
    ASSUME IInv, NEW r \in Reviewers, NEW x, run' = [run EXCEPT ![r] = x],
           RunInv(r)', UNCHANGED <<packages, inbound>>
    PROVE  /\ \A s \in Reviewers : RunInv(s)'
           /\ (run = [s \in Reviewers |-> run[s]])'
<1>1. run = [s \in Reviewers |-> run[s]] /\ \A s \in Reviewers : RunInv(s)
  BY DEF IInv
<1>2. run' = [s \in Reviewers |-> run'[s]]
  BY <1>1
<1>3. ASSUME NEW s \in Reviewers, s # r PROVE RunInv(s)'
  <2>1. run'[s] = run[s]
    BY <1>1, <1>3
  <2> QED
    BY <1>1, <2>1 DEF RunInv, RunOK
<1> QED
  BY <1>2, <1>3

\* ... so a step of r that leaves the stores alone as well is safe when it
\* leaves r itself in order.
LEMMA LocalStep ==
    ASSUME IInv, NEW r \in Reviewers, NEW x, run' = [run EXCEPT ![r] = x],
           RunInv(r)', UNCHANGED <<inputVars, stores, confirmed>>, decisions' \in Nat
    PROVE  IInv'
<1>1. InputsInv'
  BY DEF IInv, InputsInv, inputVars
<1>2. StoresInv'
  BY DEF IInv, StoresInv, stores
<1>3. UNCHANGED <<packages, inbound>>
  BY DEF inputVars
<1> QED
  BY <1>1, <1>2, <1>3, OthersUndisturbed DEF IInv

------------------------------------------------------------------------------
(* The steps that only read.                                               *)

LEMMA StartStep ==
    ASSUME IInv, NEW r \in Reviewers, NEW p \in Packages, NEW d \in Decisions, Start(r, p, d)
    PROVE  IInv'
<1> DEFINE x == [IdleRun EXCEPT !.pc = "output", !.id = p, !.decision = d,
                                !.pkg = packages[p]]
<1>1. run' = [run EXCEPT ![r] = x] /\ run'[r] = x
  BY DEF Start, IInv
<1>2. packages[p] \in PackageFile /\ inbound[p] \in Output
  BY DEF Start, IInv, InputsInv, MaybePackage, MaybeOutput
<1>3. UNCHANGED <<packages, inbound>>
  BY DEF Start, inputVars
<1>4. /\ x.pc = "output" /\ x.id = p /\ x.decision = d /\ x.pkg = packages[p]
      /\ x.hist = << >> /\ x.oldHistory = << >> /\ x.oldApproved = None
  BY DEF IdleRun
<1>5. x \in RunState
  <2>1. IdleRun \in RunState
    BY EmptyHistoryIsGood DEF GoodHistory, RunState, IdleRun, MaybePackage, MaybeOutput,
       StoredRecord, StoredHistory
  <2> QED
    BY <1>2, <2>1 DEF RunState, ReadingPcs, MaybePackage
<1> HIDE DEF x
<1>6. RunInv(r)'
  BY <1>1, <1>2, <1>3, <1>4, <1>5, EmptyHistoryIsGood
     DEF RunInv, RunOK, WritingPcs, IsCurrent
<1> QED
  BY <1>1, <1>6, LocalStep DEF Start, IInv, InputsInv

LEMMA ReadOutputStep ==
    ASSUME IInv, NEW r \in Reviewers, ReadOutput(r)
    PROVE  IInv'
<1> DEFINE x == [run[r] EXCEPT !.pc = "outputAgain",
                               !.passed = Acceptable(inbound[run[r].id], run[r].pkg)]
<1>1. run' = [run EXCEPT ![r] = x] /\ run'[r] = x
  BY DEF ReadOutput, IInv
<1>2. Acceptable(inbound[run[r].id], run[r].pkg) \in BOOLEAN
  BY DEF Acceptable, PackageSound, IInv, RunInv, RunOK, ReadOutput, PackageFile
<1>3. RunInv(r)'
  BY <1>1, <1>2
     DEF ReadOutput, inputVars, IInv, RunInv, RunOK, RunState, ReadingPcs, WritingPcs, RestoringPcs
<1> QED
  BY <1>1, <1>3, LocalStep DEF ReadOutput, IInv, InputsInv

LEMMA ReadOutputAgainStep ==
    ASSUME IInv, NEW r \in Reviewers, ReadOutputAgain(r)
    PROVE  IInv'
<1> DEFINE x == [run[r] EXCEPT !.pc = "packageAgain", !.out = inbound[run[r].id]]
<1>1. run' = [run EXCEPT ![r] = x] /\ run'[r] = x
  BY DEF ReadOutputAgain, IInv
<1>2. RunInv(r)'
  BY <1>1 DEF ReadOutputAgain, inputVars, IInv, RunInv, RunOK, RunState, ReadingPcs, WritingPcs,
       RestoringPcs, MaybeOutput
<1> QED
  BY <1>1, <1>2, LocalStep DEF ReadOutputAgain, IInv, InputsInv

LEMMA ReadPackageAgainStep ==
    ASSUME IInv, NEW r \in Reviewers, ReadPackageAgain(r)
    PROVE  IInv'
<1> DEFINE x == [run[r] EXCEPT !.pc = "gate", !.pkg = packages[run[r].id]]
<1>1. run' = [run EXCEPT ![r] = x] /\ run'[r] = x
  BY DEF ReadPackageAgain, IInv
<1>2. RunInv(r)'
  BY <1>1 DEF ReadPackageAgain, inputVars, IInv, RunInv, RunOK, RunState, ReadingPcs, WritingPcs,
       RestoringPcs, MaybePackage
<1> QED
  BY <1>1, <1>2, LocalStep DEF ReadPackageAgain, IInv, InputsInv

LEMMA GateStep ==
    ASSUME IInv, NEW r \in Reviewers, Gate(r)
    PROVE  IInv'
<1>1. CASE run' = [run EXCEPT ![r] = IdleRun]
  <2>1. run'[r] = IdleRun
    BY <1>1 DEF IInv
  <2> QED
    BY <1>1, <2>1, IdleRunInv, LocalStep DEF Gate, IInv, InputsInv
<1>2. CASE /\ run' = [run EXCEPT ![r].pc = "load"]
           /\ \/ run[r].decision = "reject"
              \/ run[r].passed /\ Approvable(run[r].pkg, acq)
  <2> DEFINE x == [run[r] EXCEPT !.pc = "load"]
  <2>1. run' = [run EXCEPT ![r] = x] /\ run'[r] = x
    BY <1>2 DEF IInv
  <2>2. run[r].decision = "approve" => run[r].pkg.dataset = Current
    BY <1>2 DEF Approvable
  <2>3. RunInv(r)'
    BY <2>1, <2>2 DEF Gate, inputVars, IInv, RunInv, RunOK, RunState, ReadingPcs, WritingPcs,
       RestoringPcs
  <2> QED
    BY <2>1, <2>3, LocalStep DEF Gate, IInv, InputsInv
<1> QED
  BY <1>1, <1>2 DEF Gate

LEMMA LoadHistoryStep ==
    ASSUME IInv, NEW r \in Reviewers, LoadHistory(r)
    PROVE  IInv'
<1>1. CASE history = Torn
  <2>1. run' = [run EXCEPT ![r] = IdleRun] /\ run'[r] = IdleRun
    BY <1>1 DEF LoadHistory, IInv
  <2> QED
    BY <2>1, IdleRunInv, LocalStep DEF LoadHistory, IInv, InputsInv
<1>2. CASE history # Torn
  <2> DEFINE x == [run[r] EXCEPT !.pc = "enter", !.stamp = clock, !.hist = history]
  <2>1. run' = [run EXCEPT ![r] = x] /\ run'[r] = x
    BY <1>2 DEF LoadHistory, IInv
  <2>2. GoodHistory(history) /\ history \in Seq(Entry) /\ clock \in Nat
    BY <1>2 DEF IInv, StoresInv, InputsInv, GoodHistory
  <2>3. RunInv(r)'
    BY <2>1, <2>2 DEF LoadHistory, inputVars, IInv, RunInv, RunOK, RunState, ReadingPcs,
       WritingPcs, RestoringPcs
  <2> QED
    BY <2>1, <2>3, LocalStep DEF LoadHistory, IInv, InputsInv
<1> QED
  BY <1>1, <1>2

LEMMA EnterStep ==
    ASSUME IInv, NEW r \in Reviewers, Enter(r)
    PROVE  IInv'
<1> DEFINE next == IF run[r].decision = "approve" THEN "archive" ELSE "writeHistory"
           x == [run[r] EXCEPT !.pc = next, !.oldHistory = history,
                               !.oldApproved = approved[run[r].id]]
<1>1. run' = [run EXCEPT ![r] = x] /\ run'[r] = x
  BY DEF Enter, IInv
<1>2. history \in StoredHistory /\ (history # Torn => GoodHistory(history))
  BY DEF IInv, StoresInv, GoodHistory, StoredHistory
<1>3. run[r].id \in Packages
  BY DEF Enter, IInv, RunInv, RunOK
<1>4. approved[run[r].id] \in StoredRecord /\ IsCurrent(approved[run[r].id])
  BY <1>3 DEF IInv, StoresInv
<1>5. RunInv(r)'
  BY <1>1, <1>2, <1>4 DEF Enter, inputVars, IInv, RunInv, RunOK, RunState, ReadingPcs,
     WritingPcs, RestoringPcs
<1> QED
  BY <1>1, <1>5, LocalStep DEF Enter, IInv, InputsInv

LEMMA ChooseTargetStep ==
    ASSUME IInv, NEW r \in Reviewers, ChooseTarget(r)
    PROVE  IInv'
<1>1. run[r].id \in Packages /\ run[r].stamp \in Nat
  BY DEF ChooseTarget, IInv, RunInv, RunOK, RunState
<1>2. ArchiveTarget(archive, run[r].id, run[r].stamp) \in ArchiveName
  BY <1>1, ArchiveTargetIsFree DEF IInv, StoresInv
<1>3. CASE approved[run[r].id] = None
  <2> DEFINE x == [run[r] EXCEPT !.pc = "writeApproved"]
  <2>1. run' = [run EXCEPT ![r] = x] /\ run'[r] = x
    BY <1>3 DEF ChooseTarget, IInv
  <2>2. RunInv(r)'
    BY <2>1 DEF ChooseTarget, inputVars, IInv, RunInv, RunOK, RunState, ReadingPcs,
     WritingPcs, RestoringPcs
  <2> QED
    BY <2>1, <2>2, LocalStep DEF ChooseTarget, IInv, InputsInv
<1>4. CASE approved[run[r].id] # None
  <2> DEFINE x == [run[r] EXCEPT !.pc = "move",
                     !.target = ArchiveTarget(archive, run[r].id, run[r].stamp)]
  <2>1. run' = [run EXCEPT ![r] = x] /\ run'[r] = x
    BY <1>4 DEF ChooseTarget, IInv
  <2>2. RunInv(r)'
    BY <1>2, <2>1 DEF ChooseTarget, inputVars, IInv, RunInv, RunOK, RunState, ReadingPcs,
     WritingPcs, RestoringPcs
  <2> QED
    BY <2>1, <2>2, LocalStep DEF ChooseTarget, IInv, InputsInv
<1> QED
  BY <1>3, <1>4

------------------------------------------------------------------------------
(* The steps that write.                                                   *)

\* A step of r that writes stores, leaves r in order and the inputs alone.
LEMMA WritingStep ==
    ASSUME IInv, NEW r \in Reviewers, NEW x, run' = [run EXCEPT ![r] = x],
           RunInv(r)', StoresInv', UNCHANGED <<inputVars, decisions>>
    PROVE  IInv'
<1>1. InputsInv'
  BY DEF IInv, InputsInv, inputVars
<1>2. UNCHANGED <<packages, inbound>>
  BY DEF inputVars
<1> QED
  BY <1>1, <1>2, OthersUndisturbed DEF IInv

LEMMA MoveStep ==
    ASSUME IInv, NEW r \in Reviewers, Move(r)
    PROVE  IInv'
<1> DEFINE x == [run[r] EXCEPT !.pc = "writeApproved"]
           id == run[r].id
           target == run[r].target
<1>1. run' = [run EXCEPT ![r] = x] /\ run'[r] = x
  BY DEF Move, IInv
<1>2. RunInv(r)'
  BY <1>1 DEF Move, inputVars, IInv, RunInv, RunOK, RunState, ReadingPcs, WritingPcs, RestoringPcs
<1>3. id \in Packages /\ target \in ArchiveName
  BY DEF Move, IInv, RunInv, RunOK
<1>4. approved[id] \in Record \cup {Torn} /\ IsCurrent(approved[id])
  BY <1>3 DEF Move, IInv, StoresInv, StoredRecord
<1>5. /\ DOMAIN archive' = DOMAIN archive \cup {target}
      /\ \A y \in DOMAIN archive' :
            archive'[y] = IF y = target THEN approved[id] ELSE archive[y]
  BY DEF Move, WithFile
<1>6. IsFiniteSet(DOMAIN archive')
  BY <1>5, FS_AddElement DEF IInv, StoresInv
<1>7. /\ DOMAIN archive' \subseteq ArchiveName
      /\ \A y \in DOMAIN archive' : archive'[y] \in Record \cup {Torn} /\ IsCurrent(archive'[y])
  BY <1>3, <1>4, <1>5 DEF IInv, StoresInv
<1>8. /\ approved' \in [Packages -> StoredRecord]
      /\ \A p \in Packages : IsCurrent(approved'[p])
  BY <1>3 DEF Move, IInv, StoresInv, StoredRecord, IsCurrent
<1>9. StoresInv'
  BY <1>6, <1>7, <1>8 DEF Move, IInv, StoresInv, IsCurrent
<1> QED
  BY <1>1, <1>2, <1>9, WritingStep DEF Move

LEMMA WriteApprovedStep ==
    ASSUME IInv, NEW r \in Reviewers, WriteApproved(r)
    PROVE  IInv'
<1> DEFINE x == [run[r] EXCEPT !.pc = "installApproved"]
           record == MakeRecord(run[r].hist, run[r].id, run[r].out, run[r].pkg)
<1>1. run' = [run EXCEPT ![r] = x] /\ run'[r] = x
  BY DEF WriteApproved, IInv
<1>2. RunInv(r)'
  BY <1>1 DEF WriteApproved, inputVars, IInv, RunInv, RunOK, RunState, ReadingPcs, WritingPcs,
     RestoringPcs
<1>3. /\ run[r].id \in Packages /\ run[r].out \in Output /\ run[r].pkg \in PackageFile
      /\ GoodHistory(run[r].hist) /\ run[r].pkg.dataset = Current
  BY DEF WriteApproved, IInv, RunInv, RunOK, WritingPcs
<1>4. record \in Record /\ record.dataset = Current
  BY <1>3, MakeRecordType DEF MakeRecord
<1>5. /\ approvedTmp' \in [Packages -> StoredRecord]
      /\ \A p \in Packages : IsCurrent(approvedTmp'[p])
  BY <1>3, <1>4 DEF WriteApproved, IInv, StoresInv, StoredRecord, IsCurrent
<1>6. StoresInv'
  BY <1>5 DEF WriteApproved, IInv, StoresInv, IsCurrent
<1> QED
  BY <1>1, <1>2, <1>6, WritingStep DEF WriteApproved

LEMMA InstallApprovedStep ==
    ASSUME IInv, NEW r \in Reviewers, InstallApproved(r)
    PROVE  IInv'
<1> DEFINE x == [run[r] EXCEPT !.pc = "writeHistory"]
<1>1. run' = [run EXCEPT ![r] = x] /\ run'[r] = x
  BY DEF InstallApproved, IInv
<1>2. RunInv(r)'
  BY <1>1 DEF InstallApproved, inputVars, IInv, RunInv, RunOK, RunState, ReadingPcs, WritingPcs,
     RestoringPcs
<1>3. run[r].id \in Packages
  BY DEF InstallApproved, IInv, RunInv, RunOK
<1>4. /\ approved' \in [Packages -> StoredRecord] /\ approvedTmp' \in [Packages -> StoredRecord]
      /\ \A p \in Packages : IsCurrent(approved'[p]) /\ IsCurrent(approvedTmp'[p])
  BY <1>3 DEF InstallApproved, IInv, StoresInv, StoredRecord, IsCurrent
<1>5. StoresInv'
  BY <1>4 DEF InstallApproved, IInv, StoresInv, IsCurrent
<1> QED
  BY <1>1, <1>2, <1>5, WritingStep DEF InstallApproved

\* The entry a decision appends keeps the history it loaded well formed.
LEMMA NewEntryIsGood ==
    ASSUME IInv, NEW r \in Reviewers, run[r].pc \in {"writeHistory", "installHistory"}
    PROVE  NewEntry(r) \in Entry /\ GoodHistory(Append(run[r].hist, NewEntry(r)))
<1>1. /\ GoodHistory(run[r].hist) /\ run[r].id \in Packages /\ run[r].decision \in Decisions
      /\ run[r].out \in Output /\ run[r].stamp \in Nat
      /\ run[r].target \in ArchiveName \cup {None}
  BY DEF IInv, RunInv, RunOK, RunState
<1> QED
  BY <1>1, MakeEntryType, AppendKeepsGood DEF NewEntry

LEMMA WriteHistoryStep ==
    ASSUME IInv, NEW r \in Reviewers, WriteHistory(r)
    PROVE  IInv'
<1> DEFINE x == [run[r] EXCEPT !.pc = "installHistory"]
<1>1. run' = [run EXCEPT ![r] = x] /\ run'[r] = x
  BY DEF WriteHistory, IInv
<1>2. RunInv(r)'
  BY <1>1 DEF WriteHistory, inputVars, IInv, RunInv, RunOK, RunState, ReadingPcs, WritingPcs,
     RestoringPcs
<1>3. GoodHistory(historyTmp')
  BY NewEntryIsGood DEF WriteHistory
<1>4. StoresInv'
  BY <1>3 DEF WriteHistory, IInv, StoresInv, IsCurrent
<1> QED
  BY <1>1, <1>2, <1>4, WritingStep DEF WriteHistory

LEMMA InstallHistoryStep ==
    ASSUME IInv, NEW r \in Reviewers, InstallHistory(r)
    PROVE  IInv'
<1>1. run' = [run EXCEPT ![r] = IdleRun] /\ run'[r] = IdleRun
  BY DEF InstallHistory, IInv
<1>2. confirmed' \subseteq Entry
  BY NewEntryIsGood DEF InstallHistory, IInv, StoresInv
<1>3. history' # Torn => GoodHistory(history')
  BY DEF InstallHistory, IInv, StoresInv
<1>4. StoresInv'
  BY <1>2, <1>3 DEF InstallHistory, IInv, StoresInv, IsCurrent
<1> QED
  BY <1>1, <1>4, IdleRunInv, WritingStep DEF InstallHistory

------------------------------------------------------------------------------
(* Failure, rollback and crash.                                            *)

LEMMA TornTmpIsSafe ==
    ASSUME IInv, NEW r \in Reviewers, MayTearTmp(r)
    PROVE  /\ approvedTmp' \in [Packages -> StoredRecord]
           /\ \A p \in Packages : IsCurrent(approvedTmp'[p])
           /\ historyTmp' \notin {None, Torn} => GoodHistory(historyTmp')
<1>1. /\ approvedTmp \in [Packages -> StoredRecord]
      /\ \A p \in Packages : IsCurrent(approvedTmp[p])
      /\ historyTmp \notin {None, Torn} => GoodHistory(historyTmp)
  BY DEF IInv, StoresInv
<1>2. CASE run[r].pc = "writeApproved"
  BY <1>1, <1>2 DEF MayTearTmp, StoredRecord, IsCurrent
<1>3. CASE run[r].pc = "writeHistory"
  BY <1>1, <1>3 DEF MayTearTmp
<1>4. CASE run[r].pc \notin {"writeApproved", "writeHistory"}
  BY <1>1, <1>4 DEF MayTearTmp
<1> QED
  BY <1>2, <1>3, <1>4

LEMMA RaiseStep ==
    ASSUME IInv, NEW r \in Reviewers, Raise(r)
    PROVE  IInv'
<1> DEFINE x == [run[r] EXCEPT !.pc = "restoreHistory"]
<1>1. run' = [run EXCEPT ![r] = x] /\ run'[r] = x
  BY DEF Raise, IInv
<1>2. RunInv(r)'
  BY <1>1 DEF Raise, inputVars, IInv, RunInv, RunOK, RunState, ReadingPcs, WritingPcs, RestoringPcs
<1>3. StoresInv'
  BY TornTmpIsSafe DEF Raise, IInv, StoresInv, IsCurrent
<1> QED
  BY <1>1, <1>2, <1>3, WritingStep DEF Raise

LEMMA RestoreHistoryStep ==
    ASSUME IInv, NEW r \in Reviewers, RestoreHistory(r)
    PROVE  IInv'
<1> DEFINE x == [run[r] EXCEPT !.pc = "restoreApproved"]
<1>1. run' = [run EXCEPT ![r] = x] /\ run'[r] = x
  BY DEF RestoreHistory, IInv
<1>2. RunInv(r)'
  BY <1>1 DEF RestoreHistory, inputVars, IInv, RunInv, RunOK, RunState, ReadingPcs, WritingPcs,
     RestoringPcs
<1>3. history' # Torn => GoodHistory(history')
  BY DEF RestoreHistory, IInv, RunInv
<1>4. StoresInv'
  BY <1>3 DEF RestoreHistory, IInv, StoresInv, IsCurrent
<1> QED
  BY <1>1, <1>2, <1>4, WritingStep DEF RestoreHistory

LEMMA RestoreApprovedStep ==
    ASSUME IInv, NEW r \in Reviewers, RestoreApproved(r)
    PROVE  IInv'
<1> DEFINE x == [run[r] EXCEPT !.pc = "restoreArchive"]
<1>1. /\ run[r].id \in Packages /\ run[r].oldApproved \in StoredRecord
      /\ IsCurrent(run[r].oldApproved) /\ run[r].target \in ArchiveName \cup {None}
  BY DEF RestoreApproved, IInv, RunInv, RunOK, RunState
<1>2. /\ approved' \in [Packages -> StoredRecord]
      /\ \A p \in Packages : IsCurrent(approved'[p])
  BY <1>1 DEF RestoreApproved, IInv, StoresInv, IsCurrent
<1>3. StoresInv'
  BY <1>2 DEF RestoreApproved, IInv, StoresInv, IsCurrent
<1>4. CASE run[r].target = None
  <2>1. run' = [run EXCEPT ![r] = IdleRun] /\ run'[r] = IdleRun
    BY <1>4 DEF RestoreApproved, IInv
  <2> QED
    BY <1>3, <2>1, IdleRunInv, WritingStep DEF RestoreApproved
<1>5. CASE run[r].target # None
  <2>1. run' = [run EXCEPT ![r] = x] /\ run'[r] = x
    BY <1>5 DEF RestoreApproved, IInv
  <2>2. RunInv(r)'
    BY <1>1, <1>5, <2>1 DEF RestoreApproved, inputVars, IInv, RunInv, RunOK, RunState, ReadingPcs,
       WritingPcs, RestoringPcs
  <2> QED
    BY <1>3, <2>1, <2>2, WritingStep DEF RestoreApproved
<1> QED
  BY <1>4, <1>5

LEMMA RestoreArchiveStep ==
    ASSUME IInv, NEW r \in Reviewers, RestoreArchive(r)
    PROVE  IInv'
<1>1. run' = [run EXCEPT ![r] = IdleRun] /\ run'[r] = IdleRun
  BY DEF RestoreArchive, IInv
<1>2. /\ DOMAIN archive' = DOMAIN archive \ {run[r].target}
      /\ \A y \in DOMAIN archive' : archive'[y] = archive[y]
  BY DEF RestoreArchive, WithoutFile
<1>3. IsFiniteSet(DOMAIN archive')
  BY <1>2, FS_RemoveElement DEF IInv, StoresInv
<1>4. StoresInv'
  BY <1>2, <1>3 DEF RestoreArchive, IInv, StoresInv, IsCurrent
<1> QED
  BY <1>1, <1>4, IdleRunInv, WritingStep DEF RestoreArchive

LEMMA CrashStep ==
    ASSUME IInv, NEW r \in Reviewers, Crash(r)
    PROVE  IInv'
<1>1. run' = [run EXCEPT ![r] = IdleRun] /\ run'[r] = IdleRun
  BY DEF Crash, IInv
<1>2. StoresInv'
  BY TornTmpIsSafe DEF Crash, IInv, StoresInv, IsCurrent
<1> QED
  BY <1>1, <1>2, IdleRunInv, WritingStep DEF Crash

LEMMA TearRestoredStep ==
    ASSUME IInv, NEW r \in Reviewers, TearRestored(r)
    PROVE  IInv'
<1>1. run' = [run EXCEPT ![r] = IdleRun] /\ run'[r] = IdleRun
  BY DEF TearRestored, IInv
<1>2. CASE history' = Torn /\ UNCHANGED approved
  BY <1>1, <1>2, IdleRunInv, WritingStep DEF TearRestored, IInv, StoresInv, IsCurrent
<1>3. CASE approved' = [approved EXCEPT ![run[r].id] = Torn] /\ UNCHANGED history
  <2>1. /\ approved' \in [Packages -> StoredRecord]
        /\ \A p \in Packages : IsCurrent(approved'[p])
    BY <1>3 DEF IInv, StoresInv, StoredRecord, IsCurrent
  <2>2. StoresInv'
    BY <1>3, <2>1 DEF TearRestored, IInv, StoresInv, IsCurrent
  <2> QED
    BY <1>1, <2>2, IdleRunInv, WritingStep DEF TearRestored
<1> QED
  BY <1>2, <1>3 DEF TearRestored

------------------------------------------------------------------------------
(* The other writers.                                                      *)

\* A step that only changes inputs, and keeps the files of a package in place
\* once they exist, disturbs nothing.
LEMMA InputStep ==
    ASSUME IInv, InputsInv', UNCHANGED <<stores, run, confirmed>>,
           \A p \in Packages : /\ inbound[p] \in Output => inbound'[p] \in Output
                               /\ packages[p] \in PackageFile => packages'[p] \in PackageFile
    PROVE  IInv'
<1>1. StoresInv'
  BY DEF IInv, StoresInv, stores
<1>2. ASSUME NEW r \in Reviewers PROVE RunInv(r)'
  BY DEF IInv, RunInv, RunOK
<1> QED
  BY <1>1, <1>2 DEF IInv

LEMMA ChangeInputsStep ==
    ASSUME IInv, ChangeInputs
    PROVE  IInv'
<1>1. ASSUME NEW p \in Packages, NEW dataset \in Datasets, BuildPackage(p, dataset)
      PROVE  IInv'
  <2> DEFINE file == [version |-> built + 1, dataset |-> dataset,
                      acq |-> IF dataset = Current THEN acq ELSE 0, intact |-> TRUE]
  <2>1. built + 1 \in Nat /\ (dataset = Current => acq \in Nat)
    BY <1>1 DEF BuildPackage, IInv, InputsInv
  <2>2. file \in PackageFile
    BY <2>1 DEF PackageFile
  <2>3. packages' = [packages EXCEPT ![p] = file] /\ built' = built + 1
    BY <1>1 DEF BuildPackage
  <2> HIDE DEF file
  <2>4. InputsInv'
    BY <1>1, <2>1, <2>2, <2>3 DEF BuildPackage, IInv, InputsInv, MaybePackage
  <2> QED
    BY <1>1, <2>2, <2>3, <2>4, InputStep DEF BuildPackage, IInv, InputsInv
<1>2. ASSUME NEW p \in Packages, EditPackage(p)
      PROVE  IInv'
  <2>1. [packages[p] EXCEPT !.intact = FALSE] \in PackageFile
    BY <1>2 DEF EditPackage, IInv, InputsInv, MaybePackage, PackageFile
  <2>2. packages' = [packages EXCEPT ![p] = [packages[p] EXCEPT !.intact = FALSE]]
    BY <1>2 DEF EditPackage
  <2>3. InputsInv'
    BY <1>2, <2>1, <2>2 DEF EditPackage, IInv, InputsInv, MaybePackage
  <2> QED
    BY <1>2, <2>1, <2>2, <2>3, InputStep DEF EditPackage, IInv, InputsInv
<1>3. ASSUME NEW p \in Packages, NEW body \in Bodies, NEW v \in 1..MaxBuilds,
             SaveInbound(p, body, v)
      PROVE  IInv'
  <2>1. [body |-> body, binds |-> v] \in Output
    BY <1>3, DecisionAssumption DEF Output
  <2>2. InputsInv'
    BY <1>3, <2>1 DEF SaveInbound, IInv, InputsInv, MaybeOutput
  <2> QED
    BY <1>3, <2>1, <2>2, InputStep DEF SaveInbound, IInv, InputsInv
<1>4. CASE ChangeAcquisition
  <2>1. InputsInv'
    BY <1>4, DecisionAssumption DEF ChangeAcquisition, IInv, InputsInv
  <2> QED
    BY <1>4, <2>1, InputStep DEF ChangeAcquisition
<1>5. CASE Tick
  <2>1. InputsInv'
    BY <1>5 DEF Tick, IInv, InputsInv
  <2> QED
    BY <1>5, <2>1, InputStep DEF Tick
<1> QED
  BY <1>1, <1>2, <1>3, <1>4, <1>5 DEF ChangeInputs

LEMMA RebuildAnalysisStep ==
    ASSUME IInv, RebuildAnalysis
    PROVE  IInv'
<1>1. InputsInv'
  BY DEF RebuildAnalysis, inputVars, IInv, InputsInv
<1>2. StoresInv'
  BY EmptyHistoryIsGood DEF RebuildAnalysis, IInv, StoresInv, IsCurrent
<1>3. ASSUME NEW r \in Reviewers PROVE RunInv(r)'
  BY DEF RebuildAnalysis, inputVars, IInv, RunInv, RunOK
<1> QED
  BY <1>1, <1>2, <1>3 DEF RebuildAnalysis, IInv

LEMMA StutterStep == IInv /\ UNCHANGED vars => IInv'
<1> SUFFICES ASSUME IInv, UNCHANGED vars PROVE IInv'
  OBVIOUS
<1>1. InputsInv'
  BY DEF vars, inputVars, IInv, InputsInv
<1> QED
  BY <1>1, InputStep DEF vars, inputVars

LEMMA NextIInv == IInv /\ [Next]_vars => IInv'
<1> SUFFICES ASSUME IInv, [Next]_vars PROVE IInv'
  OBVIOUS
<1>1. ASSUME NEW r \in Reviewers, Decide(r) PROVE IInv'
  <2>1. CASE \E p \in Packages, d \in Decisions : Start(r, p, d)
    BY <2>1, StartStep
  <2>2. CASE ReadOutput(r) \/ ReadOutputAgain(r) \/ ReadPackageAgain(r)
    BY <2>2, ReadOutputStep, ReadOutputAgainStep, ReadPackageAgainStep
  <2>3. CASE Gate(r) \/ LoadHistory(r) \/ Enter(r) \/ ChooseTarget(r)
    BY <2>3, GateStep, LoadHistoryStep, EnterStep, ChooseTargetStep
  <2>4. CASE Move(r) \/ WriteApproved(r) \/ InstallApproved(r)
    BY <2>4, MoveStep, WriteApprovedStep, InstallApprovedStep
  <2>5. CASE WriteHistory(r) \/ InstallHistory(r)
    BY <2>5, WriteHistoryStep, InstallHistoryStep
  <2> QED
    BY <1>1, <2>1, <2>2, <2>3, <2>4, <2>5 DEF Decide
<1>2. ASSUME NEW r \in Reviewers, RollBack(r) PROVE IInv'
  BY <1>2, RaiseStep, RestoreHistoryStep, RestoreApprovedStep, RestoreArchiveStep DEF RollBack
<1>3. ASSUME NEW r \in Reviewers, Crash(r) \/ TearRestored(r) PROVE IInv'
  BY <1>3, CrashStep, TearRestoredStep
<1>4. CASE ChangeInputs
  BY <1>4, ChangeInputsStep
<1>5. CASE RebuildAnalysis
  BY <1>5, RebuildAnalysisStep
<1>6. CASE UNCHANGED vars
  BY <1>6, StutterStep
<1> QED
  BY <1>1, <1>2, <1>3, <1>4, <1>5, <1>6 DEF Next

LEMMA Invariance == Spec => []IInv
BY InitIInv, NextIInv, PTL DEF Spec

\* The files and the locals of every execution always hold values of their
\* kinds (scripts/review_decision.py), for any number of reviewers.
THEOREM TypeCorrect == Spec => []TypeOK
BY Invariance, IInvImplies, PTL

\* Identifiers in assessment_history.json are unique and the approvals of a
\* package form one chain of revisions, whatever the reviewers, crashes and
\* rebuilds interleave.
THEOREM HistoryStaysWellFormed == Spec => []HistoryWellFormed
BY Invariance, IInvImplies, PTL

\* Only records of current packages are ever installed or archived, even when
\* packages and replies change while a decision runs.
THEOREM OnlyCurrentApproved == Spec => []ApprovedIsCurrent
BY Invariance, IInvImplies, PTL

------------------------------------------------------------------------------
(* The invariant, in parts.  On inputs that stand still while a decision   *)
(* runs, every record is a sound reply.                                    *)

\* A record, where there is one, is a reply the content rules accept, bound to
\* the version of the package the record names.
Sound(file) ==
    file \notin {None, Torn} =>
        /\ file.assessment.binds = file.version
        /\ file.assessment.body \in SoundBodies

\* What the copies an execution holds have to do with the files they were read
\* from, which stand still until it ends.
GateInv(r) ==
    /\ run[r].pc # "idle" => run[r].pkg = packages[run[r].id]
    /\ run[r].pc \notin {"idle", "output"} /\ run[r].passed =>
            Acceptable(inbound[run[r].id], packages[run[r].id])
    /\ run[r].pc \notin {"idle", "output", "outputAgain"} => run[r].out = inbound[run[r].id]
    /\ run[r].pc \in {"load", "enter"} \cup WritingPcs /\ run[r].decision = "approve" =>
            Acceptable(run[r].out, run[r].pkg)
    /\ Sound(run[r].oldApproved)

SoundInv ==
    /\ \A r \in Reviewers : GateInv(r)
    /\ \A p \in Packages : Sound(approved[p]) /\ Sound(approvedTmp[p])

------------------------------------------------------------------------------
(* One reviewer at a time: how far the transaction has come, and what the  *)
(* rollback would restore.                                                 *)

NewRecord(r) == MakeRecord(run[r].hist, run[r].id, run[r].out, run[r].pkg)

\* The record the execution found when it entered the transaction, if there was
\* one, is in the archive.
Superseded(r) ==
    IF run[r].target = None THEN run[r].oldApproved = None
    ELSE /\ run[r].oldApproved # None
         /\ run[r].target \in DOMAIN archive
         /\ archive[run[r].target] = run[r].oldApproved

\* The stores as they were when r entered its transaction.
OldApproved(r) ==
    IF InTransaction(r) THEN [approved EXCEPT ![run[r].id] = run[r].oldApproved] ELSE approved
OldArchive(r) ==
    IF InTransaction(r) THEN WithoutFile(archive, run[r].target) ELSE archive

\* How far the transaction of r has come, step by step.
Progress(r) ==
    /\ run[r].pc \in {"archive", "move"} => approved[run[r].id] = run[r].oldApproved
    /\ run[r].pc = "archive" => run[r].target = None
    /\ run[r].pc = "move" => /\ run[r].oldApproved # None
                             /\ run[r].target \notin DOMAIN archive
    /\ run[r].pc \in {"writeApproved", "installApproved"} =>
            approved[run[r].id] = None /\ Superseded(r)
    /\ run[r].pc = "installApproved" => approvedTmp[run[r].id] = NewRecord(r)
    /\ run[r].pc \in {"writeHistory", "installHistory"} =>
            IF run[r].decision = "approve"
            THEN approved[run[r].id] = NewRecord(r) /\ Superseded(r)
            ELSE approved[run[r].id] = run[r].oldApproved /\ run[r].target = None
    /\ run[r].pc = "installHistory" => historyTmp = Append(run[r].hist, NewEntry(r))
    /\ run[r].pc = "restoreArchive" => approved[run[r].id] = run[r].oldApproved

\* The record found on entry is never in neither place, and a file that was in
\* the archive before is not touched.
Kept(r) ==
    InTransaction(r) =>
        /\ \/ approved[run[r].id] = run[r].oldApproved
           \/ Superseded(r)
        /\ run[r].target # None =>
                run[r].target = ArchiveTarget(OldArchive(r), run[r].id, run[r].stamp)

AloneInv(r) ==
    /\ history # Torn
    /\ run[r].oldApproved # Torn /\ \A p \in Packages : approved[p] # Torn
    /\ archive = [y \in DOMAIN archive |-> archive[y]]
    /\ ~InTransaction(r) => run[r].target = None
    /\ run[r].pc = "enter" \/ run[r].pc \in WritingPcs => run[r].hist = history
    /\ InTransaction(r) => run[r].oldHistory = history
    /\ Progress(r)
    /\ Kept(r)

\* Every approval that was reported has its reply in A or in Ar.
Holds(A, Ar, reported) ==
    \A e \in reported : e.action = "approved" =>
        \E file \in {A[e.subject]} \cup {Ar[x] : x \in DOMAIN Ar} :
            /\ file \notin {None, Torn}
            /\ file.revision = e.revision
            /\ file.assessment = e.content

ReportedInv(r) ==
    /\ DecisionsDurable
    /\ Holds(OldApproved(r), OldArchive(r), confirmed)

------------------------------------------------------------------------------
(* ... who is never killed: the committed stores tell one story.           *)

\* StoresMatchHistory, of any approved files A, archive Ar and history h.
Matches(A, Ar, h) ==
    /\ \A p \in Packages :
        LET approvals == ApprovalsOf(h, p)
            last == h[Maximum(approvals)]
        IN  IF approvals = {} THEN A[p] = None
            ELSE /\ A[p] \notin {None, Torn}
                 /\ A[p].revision = last.revision
                 /\ A[p].supersedes = last.supersedes
                 /\ A[p].assessment = last.content
    /\ \A i \in DOMAIN h :
        \/ h[i].supersedes = None /\ h[i].archived = None
        \/ /\ h[i].archived \in DOMAIN Ar
           /\ LET old == Ar[h[i].archived]
              IN  \E j \in 1..(i - 1) :
                    /\ h[j].id = h[i].supersedes
                    /\ old # Torn
                    /\ old.revision = h[j].revision
                    /\ old.supersedes = h[j].supersedes
                    /\ old.assessment = h[j].content

MatchInv(r) == Matches(OldApproved(r), OldArchive(r), history)

BoundsInv(r) ==
    /\ clock \in 0..MaxTime /\ run[r].stamp \in 0..MaxTime
    /\ \A p \in Packages : inbound[p] # None => inbound[p].binds \in 1..MaxBuilds

------------------------------------------------------------------------------
(* ... and the site, built between decisions.                              *)

SiteShape ==
    /\ site = [f \in {Payloads[i] : i \in DOMAIN Payloads} |-> site[f]]
    /\ builder = [pc |-> builder.pc, todo |-> builder.todo, shown |-> builder.shown,
                  next |-> builder.next]

\* The record is the one an approval in the history h installed.
Recorded(h, p, record) ==
    \E i \in ApprovalsOf(h, p) :
        /\ h[i].revision = record.revision
        /\ h[i].content = record.assessment

\* The records a payload or the builder shows are recorded, and none is newer
\* than the approved record of its package.
ShownInv(r, shown) ==
    \A p \in DOMAIN shown :
        /\ p \in Packages
        /\ shown[p] \in Record
        /\ Recorded(history, p, shown[p])
        /\ OldApproved(r)[p] # None
        /\ shown[p].revision <= OldApproved(r)[p].revision

\* While a build is under way, it has or will have what the Outlook shows now.
SiteInv(r) ==
    /\ SiteShape
    /\ ShownInv(r, Published)
    /\ ShownInv(r, builder.shown)
    /\ builder.pc = "load" =>
        \A p \in DOMAIN Published :
            \/ p \in builder.todo
            \/ p \in DOMAIN builder.shown /\ Published[p].revision <= builder.shown[p].revision

------------------------------------------------------------------------------
(* Inputs that stand still: every record is a sound reply.                 *)

\* A step of r that leaves the inputs alone disturbs nobody else.
LEMMA SoundStep ==
    ASSUME IInv, SoundInv, NEW r \in Reviewers, NEW x, run' = [run EXCEPT ![r] = x],
           GateInv(r)', UNCHANGED inputVars,
           \A p \in Packages : Sound(approved'[p]) /\ Sound(approvedTmp'[p])
    PROVE  SoundInv'
<1>1. ASSUME NEW s \in Reviewers, s # r PROVE GateInv(s)'
  <2>1. run'[s] = run[s]
    BY <1>1 DEF IInv
  <2>2. UNCHANGED <<packages, inbound>>
    BY DEF inputVars
  <2> QED
    BY <2>1, <2>2 DEF SoundInv, GateInv
<1> QED
  BY <1>1 DEF SoundInv

\* ... and when the execution ends, nothing is asked of it.
LEMMA SoundEnd ==
    ASSUME IInv, SoundInv, NEW r \in Reviewers, run' = [run EXCEPT ![r] = IdleRun],
           UNCHANGED inputVars,
           \A p \in Packages : Sound(approved'[p]) /\ Sound(approvedTmp'[p])
    PROVE  SoundInv'
<1>1. run'[r] = IdleRun
  BY DEF IInv
<1>2. GateInv(r)'
  BY <1>1 DEF GateInv, IdleRun, WritingPcs, Sound
<1> QED
  BY <1>2, SoundStep

\* The steps before the transaction.
LEMMA SoundReads ==
    ASSUME IInv, SoundInv, NEW r \in Reviewers,
           \/ \E p \in Packages, d \in Decisions : Start(r, p, d)
           \/ ReadOutput(r) \/ ReadOutputAgain(r) \/ ReadPackageAgain(r)
           \/ Gate(r) \/ LoadHistory(r) \/ Enter(r) \/ ChooseTarget(r)
    PROVE  SoundInv'
<1>1. run[r] \in RunState /\ RunOK(r) /\ GateInv(r) /\ DOMAIN run = Reviewers
  BY DEF IInv, RunInv, SoundInv
<1>2. UNCHANGED <<packages, inbound>> /\ UNCHANGED inputVars /\ UNCHANGED stores
  BY DEF Start, ReadOutput, ReadOutputAgain, ReadPackageAgain, Gate, LoadHistory, Enter,
         ChooseTarget, inputVars
<1>3. \A p \in Packages : Sound(approved'[p]) /\ Sound(approvedTmp'[p])
  BY <1>2 DEF SoundInv, stores
<1>4. ASSUME NEW p \in Packages, NEW d \in Decisions, Start(r, p, d) PROVE SoundInv'
  <2> DEFINE x == [IdleRun EXCEPT !.pc = "output", !.id = p, !.decision = d,
                                  !.pkg = packages[p]]
  <2>1. run' = [run EXCEPT ![r] = x] /\ run'[r] = x
    BY <1>1, <1>4 DEF Start
  <2>2. x.pc = "output" /\ x.id = p /\ x.pkg = packages[p] /\ x.oldApproved = None
    BY DEF IdleRun
  <2> HIDE DEF x
  <2>3. GateInv(r)'
    BY <1>2, <2>1, <2>2 DEF GateInv, WritingPcs, Sound
  <2> QED
    BY <1>2, <1>3, <2>1, <2>3, SoundStep
<1>5. CASE ReadOutput(r)
  <2> DEFINE x == [run[r] EXCEPT !.pc = "outputAgain",
                                 !.passed = Acceptable(inbound[run[r].id], run[r].pkg)]
  <2>1. run' = [run EXCEPT ![r] = x] /\ run'[r] = x
    BY <1>1, <1>5 DEF ReadOutput
  <2>2. GateInv(r)'
    BY <1>1, <1>2, <1>5, <2>1 DEF ReadOutput, RunState, GateInv, WritingPcs
  <2> QED
    BY <1>2, <1>3, <2>1, <2>2, SoundStep
<1>6. CASE ReadOutputAgain(r)
  <2> DEFINE x == [run[r] EXCEPT !.pc = "packageAgain", !.out = inbound[run[r].id]]
  <2>1. run' = [run EXCEPT ![r] = x] /\ run'[r] = x
    BY <1>1, <1>6 DEF ReadOutputAgain
  <2>2. GateInv(r)'
    BY <1>1, <1>2, <1>6, <2>1 DEF ReadOutputAgain, RunState, GateInv, WritingPcs
  <2> QED
    BY <1>2, <1>3, <2>1, <2>2, SoundStep
<1>7. CASE ReadPackageAgain(r)
  <2> DEFINE x == [run[r] EXCEPT !.pc = "gate", !.pkg = packages[run[r].id]]
  <2>1. run' = [run EXCEPT ![r] = x] /\ run'[r] = x
    BY <1>1, <1>7 DEF ReadPackageAgain
  <2>2. GateInv(r)'
    BY <1>1, <1>2, <1>7, <2>1 DEF ReadPackageAgain, RunState, GateInv, WritingPcs
  <2> QED
    BY <1>2, <1>3, <2>1, <2>2, SoundStep
<1>8. CASE Gate(r)
  <2>1. CASE run' = [run EXCEPT ![r] = IdleRun]
    BY <1>2, <1>3, <2>1, SoundEnd
  <2>2. CASE /\ run' = [run EXCEPT ![r].pc = "load"]
             /\ \/ run[r].decision = "reject"
                \/ run[r].passed /\ Approvable(run[r].pkg, acq)
    <3> DEFINE x == [run[r] EXCEPT !.pc = "load"]
    <3>1. run' = [run EXCEPT ![r] = x] /\ run'[r] = x
      BY <1>1, <2>2
    <3>2. run[r].decision = "approve" => Acceptable(run[r].out, run[r].pkg)
      BY <1>1, <1>8, <2>2 DEF Gate, GateInv
    <3>3. GateInv(r)'
      BY <1>1, <1>2, <1>8, <3>1, <3>2 DEF Gate, RunState, GateInv, WritingPcs
    <3> QED
      BY <1>2, <1>3, <3>1, <3>3, SoundStep
  <2> QED
    BY <1>8, <2>1, <2>2 DEF Gate
<1>9. CASE LoadHistory(r)
  <2>1. CASE history = Torn
    BY <1>2, <1>3, <1>9, <2>1, SoundEnd DEF LoadHistory
  <2>2. CASE history # Torn
    <3> DEFINE x == [run[r] EXCEPT !.pc = "enter", !.stamp = clock, !.hist = history]
    <3>1. run' = [run EXCEPT ![r] = x] /\ run'[r] = x
      BY <1>1, <1>9, <2>2 DEF LoadHistory
    <3>2. GateInv(r)'
      BY <1>1, <1>2, <1>9, <3>1 DEF LoadHistory, RunState, GateInv, WritingPcs
    <3> QED
      BY <1>2, <1>3, <3>1, <3>2, SoundStep
  <2> QED
    BY <2>1, <2>2
<1>10. CASE Enter(r)
  <2> DEFINE next == IF run[r].decision = "approve" THEN "archive" ELSE "writeHistory"
             x == [run[r] EXCEPT !.pc = next, !.oldHistory = history,
                                 !.oldApproved = approved[run[r].id]]
  <2>1. run' = [run EXCEPT ![r] = x] /\ run'[r] = x
    BY <1>1, <1>10 DEF Enter
  <2>2. run[r].id \in Packages
    BY <1>1, <1>10 DEF Enter, RunOK
  <2>3. Sound(approved[run[r].id])
    BY <2>2 DEF SoundInv
  <2>4. GateInv(r)'
    BY <1>1, <1>2, <1>10, <2>1, <2>3 DEF Enter, RunState, GateInv, WritingPcs
  <2> QED
    BY <1>2, <1>3, <2>1, <2>4, SoundStep
<1>11. CASE ChooseTarget(r)
  <2>1. CASE approved[run[r].id] = None
    <3> DEFINE x == [run[r] EXCEPT !.pc = "writeApproved"]
    <3>1. run' = [run EXCEPT ![r] = x] /\ run'[r] = x
      BY <1>1, <1>11, <2>1 DEF ChooseTarget
    <3>2. GateInv(r)'
      BY <1>1, <1>2, <1>11, <3>1 DEF ChooseTarget, RunState, GateInv, WritingPcs
    <3> QED
      BY <1>2, <1>3, <3>1, <3>2, SoundStep
  <2>2. CASE approved[run[r].id] # None
    <3> DEFINE x == [run[r] EXCEPT !.pc = "move",
                       !.target = ArchiveTarget(archive, run[r].id, run[r].stamp)]
    <3>1. run' = [run EXCEPT ![r] = x] /\ run'[r] = x
      BY <1>1, <1>11, <2>2 DEF ChooseTarget
    <3>2. GateInv(r)'
      BY <1>1, <1>2, <1>11, <3>1 DEF ChooseTarget, RunState, GateInv, WritingPcs
    <3> QED
      BY <1>2, <1>3, <3>1, <3>2, SoundStep
  <2> QED
    BY <2>1, <2>2
<1> QED
  BY <1>4, <1>5, <1>6, <1>7, <1>8, <1>9, <1>10, <1>11

\* The steps of the transaction.
LEMMA SoundWrites ==
    ASSUME IInv, SoundInv, NEW r \in Reviewers,
           Move(r) \/ WriteApproved(r) \/ InstallApproved(r) \/ WriteHistory(r) \/ InstallHistory(r)
    PROVE  SoundInv'
<1>1. run[r] \in RunState /\ RunOK(r) /\ GateInv(r) /\ DOMAIN run = Reviewers
  BY DEF IInv, RunInv, SoundInv
<1>2. UNCHANGED <<packages, inbound>> /\ UNCHANGED inputVars
  BY DEF Move, WriteApproved, InstallApproved, WriteHistory, InstallHistory, inputVars
<1>3. run[r].id \in Packages
  BY <1>1 DEF Move, WriteApproved, InstallApproved, WriteHistory, InstallHistory, RunOK
<1>4. /\ approved \in [Packages -> StoredRecord] /\ approvedTmp \in [Packages -> StoredRecord]
      /\ \A p \in Packages : Sound(approved[p]) /\ Sound(approvedTmp[p])
  BY DEF IInv, StoresInv, SoundInv
<1>5. Sound(None)
  BY DEF Sound
<1>6. CASE Move(r)
  <2> DEFINE x == [run[r] EXCEPT !.pc = "writeApproved"]
  <2>1. run' = [run EXCEPT ![r] = x] /\ run'[r] = x
    BY <1>1, <1>6 DEF Move
  <2>2. GateInv(r)'
    BY <1>1, <1>2, <1>6, <2>1 DEF Move, RunState, GateInv, WritingPcs
  <2>3. \A p \in Packages : Sound(approved'[p]) /\ Sound(approvedTmp'[p])
    BY <1>3, <1>4, <1>5, <1>6 DEF Move
  <2> QED
    BY <1>2, <2>1, <2>2, <2>3, SoundStep
<1>7. CASE WriteApproved(r)
  <2> DEFINE x == [run[r] EXCEPT !.pc = "installApproved"]
  <2>1. run' = [run EXCEPT ![r] = x] /\ run'[r] = x
    BY <1>1, <1>7 DEF WriteApproved
  <2>2. GateInv(r)'
    BY <1>1, <1>2, <1>7, <2>1 DEF WriteApproved, RunState, GateInv, WritingPcs
  <2>3. Acceptable(run[r].out, run[r].pkg)
    BY <1>1, <1>7 DEF WriteApproved, GateInv, WritingPcs, IInv, RunInv
  <2>4. Sound(NewRecord(r))
    BY <2>3 DEF Sound, NewRecord, MakeRecord, Acceptable, BoundTo
  <2>5. \A p \in Packages : Sound(approved'[p]) /\ Sound(approvedTmp'[p])
    BY <1>3, <1>4, <1>7, <2>4 DEF WriteApproved, NewRecord
  <2> QED
    BY <1>2, <2>1, <2>2, <2>5, SoundStep
<1>8. CASE InstallApproved(r)
  <2> DEFINE x == [run[r] EXCEPT !.pc = "writeHistory"]
  <2>1. run' = [run EXCEPT ![r] = x] /\ run'[r] = x
    BY <1>1, <1>8 DEF InstallApproved
  <2>2. GateInv(r)'
    BY <1>1, <1>2, <1>8, <2>1 DEF InstallApproved, RunState, GateInv, WritingPcs
  <2>3. \A p \in Packages : Sound(approved'[p]) /\ Sound(approvedTmp'[p])
    BY <1>3, <1>4, <1>5, <1>8 DEF InstallApproved
  <2> QED
    BY <1>2, <2>1, <2>2, <2>3, SoundStep
<1>9. CASE WriteHistory(r)
  <2> DEFINE x == [run[r] EXCEPT !.pc = "installHistory"]
  <2>1. run' = [run EXCEPT ![r] = x] /\ run'[r] = x
    BY <1>1, <1>9 DEF WriteHistory
  <2>2. GateInv(r)'
    BY <1>1, <1>2, <1>9, <2>1 DEF WriteHistory, RunState, GateInv, WritingPcs
  <2> QED
    BY <1>2, <1>4, <1>9, <2>1, <2>2, SoundStep DEF WriteHistory
<1>10. CASE InstallHistory(r)
  BY <1>2, <1>4, <1>10, SoundEnd DEF InstallHistory
<1> QED
  BY <1>6, <1>7, <1>8, <1>9, <1>10

\* The steps of a rollback, and of a process that is killed.
LEMMA SoundFailures ==
    ASSUME IInv, SoundInv, NEW r \in Reviewers, RollBack(r) \/ Crash(r) \/ TearRestored(r)
    PROVE  SoundInv'
<1>1. run[r] \in RunState /\ RunOK(r) /\ GateInv(r) /\ DOMAIN run = Reviewers
  BY DEF IInv, RunInv, SoundInv
<1>2. UNCHANGED <<packages, inbound>> /\ UNCHANGED inputVars
  BY DEF RollBack, Raise, RestoreHistory, RestoreApproved, RestoreArchive, Crash, TearRestored,
         inputVars
<1>3. /\ approved \in [Packages -> StoredRecord] /\ approvedTmp \in [Packages -> StoredRecord]
      /\ \A p \in Packages : Sound(approved[p]) /\ Sound(approvedTmp[p])
  BY DEF IInv, StoresInv, SoundInv
<1>4. Sound(Torn)
  BY DEF Sound
<1>5. ASSUME MayTearTmp(r), UNCHANGED approved
      PROVE  \A p \in Packages : Sound(approved'[p]) /\ Sound(approvedTmp'[p])
  <2>1. approvedTmp' \in {approvedTmp, [approvedTmp EXCEPT ![run[r].id] = Torn]}
    BY <1>5 DEF MayTearTmp
  <2> QED
    BY <1>3, <1>4, <1>5, <2>1
<1>6. CASE Raise(r)
  <2> DEFINE x == [run[r] EXCEPT !.pc = "restoreHistory"]
  <2>1. run' = [run EXCEPT ![r] = x] /\ run'[r] = x
    BY <1>1, <1>6 DEF Raise
  <2>2. GateInv(r)'
    BY <1>1, <1>2, <1>6, <2>1 DEF Raise, RunState, GateInv, WritingPcs
  <2> QED
    BY <1>2, <1>5, <1>6, <2>1, <2>2, SoundStep DEF Raise
<1>7. CASE RestoreHistory(r)
  <2> DEFINE x == [run[r] EXCEPT !.pc = "restoreApproved"]
  <2>1. run' = [run EXCEPT ![r] = x] /\ run'[r] = x
    BY <1>1, <1>7 DEF RestoreHistory
  <2>2. GateInv(r)'
    BY <1>1, <1>2, <1>7, <2>1 DEF RestoreHistory, RunState, GateInv, WritingPcs
  <2> QED
    BY <1>2, <1>3, <1>7, <2>1, <2>2, SoundStep DEF RestoreHistory
<1>8. CASE RestoreApproved(r)
  <2>1. \A p \in Packages : Sound(approved'[p]) /\ Sound(approvedTmp'[p])
    BY <1>1, <1>3, <1>8 DEF RestoreApproved, GateInv
  <2>2. CASE run[r].target = None
    BY <1>2, <1>8, <2>1, <2>2, SoundEnd DEF RestoreApproved
  <2>3. CASE run[r].target # None
    <3> DEFINE x == [run[r] EXCEPT !.pc = "restoreArchive"]
    <3>1. run' = [run EXCEPT ![r] = x] /\ run'[r] = x
      BY <1>1, <1>8, <2>3 DEF RestoreApproved
    <3>2. GateInv(r)'
      BY <1>1, <1>2, <1>8, <3>1 DEF RestoreApproved, RunState, GateInv, WritingPcs
    <3> QED
      BY <1>2, <2>1, <3>1, <3>2, SoundStep
  <2> QED
    BY <2>2, <2>3
<1>9. CASE RestoreArchive(r)
  BY <1>2, <1>3, <1>9, SoundEnd DEF RestoreArchive
<1>10. CASE Crash(r)
  BY <1>2, <1>5, <1>10, SoundEnd DEF Crash
<1>11. CASE TearRestored(r)
  <2>1. \A p \in Packages : Sound(approved'[p]) /\ Sound(approvedTmp'[p])
    BY <1>3, <1>4, <1>11 DEF TearRestored
  <2> QED
    BY <1>2, <1>11, <2>1, SoundEnd DEF TearRestored
<1> QED
  BY <1>6, <1>7, <1>8, <1>9, <1>10, <1>11 DEF RollBack

\* The inputs change only while nobody decides.
LEMMA SoundInputs ==
    ASSUME InputsSettle, IInv, SoundInv, ChangeInputs \/ RebuildAnalysis \/ UNCHANGED vars
    PROVE  SoundInv'
<1>1. UNCHANGED <<run, approved, approvedTmp>>
  BY DEF ChangeInputs, BuildPackage, EditPackage, SaveInbound, ChangeAcquisition, Tick,
         RebuildAnalysis, stores, vars
<1>2. UNCHANGED <<packages, inbound>> \/ AllIdle
  BY DEF ChangeInputs, BuildPackage, EditPackage, SaveInbound, ChangeAcquisition, Tick,
         InputsMayChange, RebuildAnalysis, inputVars, vars
<1>3. ASSUME NEW r \in Reviewers PROVE GateInv(r)'
  <2>1. GateInv(r)
    BY DEF SoundInv
  <2>2. CASE UNCHANGED <<packages, inbound>>
    BY <1>1, <2>1, <2>2 DEF GateInv
  <2>3. CASE run[r].pc = "idle"
    BY <1>1, <2>1, <2>3 DEF GateInv, WritingPcs
  <2> QED
    BY <1>2, <2>2, <2>3 DEF AllIdle
<1> QED
  BY <1>1, <1>3 DEF SoundInv

LEMMA InitSound == Init => SoundInv
BY DEF Init, SoundInv, GateInv, IdleRun, WritingPcs, Sound

LEMMA NextSound ==
    ASSUME InputsSettle, IInv, SoundInv, [Next]_vars
    PROVE  SoundInv'
<1>1. ASSUME NEW r \in Reviewers, Decide(r) PROVE SoundInv'
  BY <1>1, SoundReads, SoundWrites DEF Decide
<1>2. ASSUME NEW r \in Reviewers, RollBack(r) \/ Crash(r) \/ TearRestored(r) PROVE SoundInv'
  BY <1>2, SoundFailures
<1> QED
  BY <1>1, <1>2, SoundInputs DEF Next

LEMMA SoundAlways == ASSUME InputsSettle PROVE Spec => []SoundInv
<1>1. IInv /\ SoundInv /\ [Next]_vars => SoundInv'
  BY NextSound
<1> QED
  BY <1>1, InitSound, Invariance, PTL DEF Spec

------------------------------------------------------------------------------
(* The builder beside the decisions.                                       *)

\* The builder only reads what the decisions write.
LEMMA BuilderOnlyReads == DashboardSpec => Spec
<1>1. DashboardInit => Init
  BY DEF DashboardInit
<1>2. [DashboardNext]_allVars => [Next]_vars
  BY DEF DashboardNext, BuildSite, ListApproved, LoadRecord, LoadRaises, WritePayload,
         WriteFails, allVars
<1> QED
  BY <1>1, <1>2, PTL DEF DashboardSpec, Spec

\* Every record shown passes the checks of the decision.
Checked(shown) ==
    \A p \in DOMAIN shown : /\ shown[p].assessment.binds = shown[p].version
                            /\ shown[p].assessment.body \in SoundBodies

CheckedInv ==
    /\ SiteShape
    /\ Checked(Published)
    /\ Checked(builder.shown)

LEMMA OutlookIsAPayload == Outlook \in {Payloads[i] : i \in DOMAIN Payloads}
BY DashboardAssumption

LEMMA InitChecked == DashboardInit => CheckedInv
BY OutlookIsAPayload
   DEF DashboardInit, CheckedInv, SiteShape, Checked, Published, IdleBuilder, NoRecords

LEMMA BuildChecked ==
    ASSUME SoundInv, CheckedInv, BuildSite
    PROVE  CheckedInv'
<1> USE DEF CheckedInv, SiteShape
<1>1. Checked(NoRecords)
  BY DEF Checked, NoRecords
<1>2. CASE ListApproved
  BY <1>1, <1>2 DEF ListApproved, IdleBuilder, Published
<1>3. ASSUME NEW p \in Packages, LoadRecord(p) PROVE CheckedInv'
  <2>1. Sound(approved[p]) /\ approved[p] \notin {None, Torn}
    BY <1>3 DEF LoadRecord, SoundInv
  <2>2. Checked(WithFile(builder.shown, p, approved[p]))
    BY <2>1 DEF Checked, Sound, WithFile
  <2> QED
    BY <1>3, <2>2 DEF LoadRecord, Published
<1>4. ASSUME NEW p \in Packages, LoadRaises(p) PROVE CheckedInv'
  BY <1>1, <1>4 DEF LoadRaises, IdleBuilder, Published
<1>5. CASE WritePayload
  <2> DEFINE f == Payloads[builder.next]
             new == [build |-> siteBuilds,
                     shown |-> IF f = Outlook THEN builder.shown ELSE NoRecords]
  <2>1. site' = [site EXCEPT ![f] = new] /\ Outlook \in DOMAIN site
    BY <1>5, OutlookIsAPayload DEF WritePayload
  <2>2. site'[Outlook] = site[Outlook] \/ (site'[Outlook] = new /\ f = Outlook)
    BY <2>1
  <2>3. new.shown = IF f = Outlook THEN builder.shown ELSE NoRecords
    OBVIOUS
  <2> HIDE DEF new
  <2>4. Checked(Published')
    BY <1>1, <2>2, <2>3 DEF Published
  <2>5. Checked(builder'.shown) /\ builder' = [pc |-> builder'.pc, todo |-> builder'.todo,
                                   shown |-> builder'.shown, next |-> builder'.next]
    BY <1>1, <1>5 DEF WritePayload, IdleBuilder
  <2>6. site' = [g \in {Payloads[i] : i \in DOMAIN Payloads} |-> site'[g]]
    BY <2>1
  <2> QED
    BY <2>4, <2>5, <2>6 DEF Published, Checked
<1>6. CASE WriteFails
  <2> DEFINE f == Payloads[builder.next]
  <2>1. site' = site \/ site' = [site EXCEPT ![f] = Torn]
    BY <1>6 DEF WriteFails
  <2>2. site'[Outlook] = site[Outlook] \/ site'[Outlook] = Torn
    BY <2>1, OutlookIsAPayload
  <2>3. Checked(Published')
    BY <1>1, <2>2 DEF Published
  <2>4. builder' = IdleBuilder
    BY <1>6 DEF WriteFails
  <2> QED
    BY <1>1, <2>1, <2>3, <2>4 DEF Published, Checked, IdleBuilder
<1> QED
  BY <1>2, <1>3, <1>4, <1>5, <1>6 DEF BuildSite

\* The Outlook only ever shows replies the content rules accept, bound to the
\* version of the package the record names: through crashes, rollbacks, torn
\* files and overlapping builds, for any number of reviewers, as long as the
\* files a decision reads stand still while it runs
\* (review_decision.py:284-330, build_dashboard.py:255-312).
THEOREM PublishedStaysReviewed ==
    ASSUME InputsSettle
    PROVE  DashboardSpec => []PublishedIsReviewed
<1>1. SoundInv /\ CheckedInv /\ [DashboardNext]_allVars => CheckedInv'
  <2> SUFFICES ASSUME SoundInv, CheckedInv, [DashboardNext]_allVars PROVE CheckedInv'
    OBVIOUS
  <2>1. CASE BuildSite
    BY <2>1, BuildChecked
  <2>2. CASE UNCHANGED siteVars
    BY <2>2 DEF siteVars, CheckedInv, SiteShape, Published, Checked
  <2> QED
    BY <2>1, <2>2 DEF DashboardNext, allVars
<1>2. CheckedInv => PublishedIsReviewed
  BY DEF CheckedInv, Checked, PublishedIsReviewed
<1> QED
  BY <1>1, <1>2, InitChecked, SoundAlways, BuilderOnlyReads, PTL DEF DashboardSpec

------------------------------------------------------------------------------
(* One reviewer: the transaction.                                          *)

\* The stores of before the transaction are still what r would roll back to.
Quiet(r) ==
    /\ OldApproved(r)' = OldApproved(r)
    /\ OldArchive(r)' = OldArchive(r)
    /\ history' = history

\* A name that is not in the archive can be added and taken away again.
LEMMA FreeNameComesAndGoes ==
    ASSUME NEW Ar, Ar = [y \in DOMAIN Ar |-> Ar[y]], NEW name, name \notin DOMAIN Ar, NEW file
    PROVE  /\ WithoutFile(Ar, name) = Ar
           /\ WithoutFile(WithFile(Ar, name, file), name) = Ar
<1>1. DOMAIN Ar \ {name} = DOMAIN Ar /\ (DOMAIN Ar \cup {name}) \ {name} = DOMAIN Ar
  OBVIOUS
<1>2. WithoutFile(Ar, name) = Ar
  BY <1>1 DEF WithoutFile
<1>3. /\ DOMAIN WithFile(Ar, name, file) = DOMAIN Ar \cup {name}
      /\ \A y \in DOMAIN Ar : WithFile(Ar, name, file)[y] = Ar[y]
  BY DEF WithFile
<1>4. WithoutFile(WithFile(Ar, name, file), name) = [y \in DOMAIN Ar |-> Ar[y]]
  BY <1>1, <1>3 DEF WithoutFile
<1> QED
  BY <1>2, <1>4

\* What the steps below use of an execution and of the stores.
LEMMA AloneFacts ==
    ASSUME IInv, NEW r \in Reviewers, AloneInv(r)
    PROVE  /\ DOMAIN run = Reviewers /\ run[r] \in RunState /\ RunOK(r)
           /\ approved \in [Packages -> StoredRecord]
           /\ approvedTmp \in [Packages -> StoredRecord]
           /\ WithoutFile(archive, None) = archive
           /\ None \notin DOMAIN archive
<1>1. /\ DOMAIN run = Reviewers /\ run[r] \in RunState /\ RunOK(r)
      /\ approved \in [Packages -> StoredRecord]
      /\ approvedTmp \in [Packages -> StoredRecord]
      /\ DOMAIN archive \subseteq ArchiveName
  BY DEF IInv, RunInv, StoresInv
<1>2. None \notin DOMAIN archive
  BY <1>1, StandInsAssumption
<1>3. WithoutFile(archive, None) = archive
  BY <1>2, FreeNameComesAndGoes DEF AloneInv
<1> QED
  BY <1>1, <1>2, <1>3

\* Outside a transaction there is nothing to keep track of.
LEMMA AloneOutside ==
    ASSUME NEW r \in Reviewers, AloneInv(r), ~InTransaction(r),
           run'[r].pc \in {"idle"} \cup ReadingPcs,
           run'[r].target = None, run'[r].oldApproved # Torn,
           run'[r].pc = "enter" => run'[r].hist = history,
           UNCHANGED stores
    PROVE  AloneInv(r)' /\ Quiet(r)
<1>1. UNCHANGED <<approved, archive, history>>
  BY DEF stores
<1>2. ~InTransaction(r)' /\ run'[r].pc \notin WritingPcs
  BY DEF InTransaction, ReadingPcs, WritingPcs, RestoringPcs
<1>3. Progress(r)' /\ Kept(r)'
  BY <1>2 DEF Progress, Kept, InTransaction, WritingPcs, RestoringPcs
<1>4. Quiet(r)
  BY <1>1, <1>2 DEF Quiet, OldApproved, OldArchive
<1> QED
  BY <1>1, <1>2, <1>3, <1>4 DEF AloneInv

LEMMA AloneReads ==
    ASSUME IInv, NEW r \in Reviewers, AloneInv(r),
           \/ \E p \in Packages, d \in Decisions : Start(r, p, d)
           \/ ReadOutput(r) \/ ReadOutputAgain(r) \/ ReadPackageAgain(r)
           \/ Gate(r) \/ LoadHistory(r)
    PROVE  AloneInv(r)' /\ Quiet(r)
<1>1. DOMAIN run = Reviewers /\ run[r] \in RunState
  BY AloneFacts
<1>2. UNCHANGED stores
  BY DEF Start, ReadOutput, ReadOutputAgain, ReadPackageAgain, Gate, LoadHistory
<1>3. ~InTransaction(r) /\ run[r].target = None
  BY DEF Start, ReadOutput, ReadOutputAgain, ReadPackageAgain, Gate, LoadHistory, AloneInv,
         InTransaction, WritingPcs, RestoringPcs
<1>4. run[r].oldApproved # Torn /\ history # Torn
  BY DEF AloneInv
<1>5. /\ IdleRun.pc = "idle" /\ IdleRun.target = None /\ IdleRun.oldApproved = None
  BY DEF IdleRun
<1>6. ASSUME NEW p \in Packages, NEW d \in Decisions, Start(r, p, d)
      PROVE  /\ run'[r].pc = "output"
             /\ run'[r].target = None /\ run'[r].oldApproved # Torn
  <2> DEFINE x == [IdleRun EXCEPT !.pc = "output", !.id = p, !.decision = d,
                                  !.pkg = packages[p]]
  <2>1. run'[r] = x
    BY <1>1, <1>6 DEF Start
  <2>2. x.pc = "output" /\ x.target = None /\ x.oldApproved = None
    BY DEF IdleRun
  <2> HIDE DEF x
  <2> QED
    BY <2>1, <2>2, StandInsAssumption
<1>7. CASE ReadOutput(r) \/ ReadOutputAgain(r) \/ ReadPackageAgain(r)
  <2>1. /\ run'[r].pc \in {"outputAgain", "packageAgain", "gate"}
        /\ run'[r].target = None /\ run'[r].oldApproved # Torn
    BY <1>1, <1>3, <1>4, <1>7 DEF ReadOutput, ReadOutputAgain, ReadPackageAgain, RunState
  <2> QED
    BY <1>2, <1>3, <2>1, AloneOutside DEF ReadingPcs
<1>8. CASE Gate(r)
  <2>1. /\ run'[r].pc \in {"load", "idle"}
        /\ run'[r].target = None /\ run'[r].oldApproved # Torn
    BY <1>1, <1>3, <1>4, <1>5, <1>8, StandInsAssumption DEF Gate, RunState
  <2> QED
    BY <1>2, <1>3, <2>1, AloneOutside DEF ReadingPcs
<1>9. CASE LoadHistory(r)
  <2>1. /\ run'[r].pc = "enter" /\ run'[r].hist = history
        /\ run'[r].target = None /\ run'[r].oldApproved # Torn
    BY <1>1, <1>3, <1>4, <1>9 DEF LoadHistory, RunState
  <2> QED
    BY <1>2, <1>3, <2>1, AloneOutside DEF ReadingPcs
<1> QED
  BY <1>2, <1>3, <1>6, <1>7, <1>8, <1>9, AloneOutside DEF ReadingPcs

LEMMA AloneEnters ==
    ASSUME IInv, NEW r \in Reviewers, AloneInv(r), Enter(r)
    PROVE  AloneInv(r)' /\ Quiet(r)
<1>1. /\ DOMAIN run = Reviewers /\ run[r] \in RunState /\ RunOK(r)
      /\ approved \in [Packages -> StoredRecord] /\ WithoutFile(archive, None) = archive
  BY AloneFacts
<1>2. ~InTransaction(r) /\ run[r].target = None /\ run[r].hist = history
  BY DEF Enter, AloneInv, InTransaction, WritingPcs, RestoringPcs
<1>3. /\ run'[r].pc \in {"archive", "writeHistory"}
      /\ run'[r].pc = "writeHistory" => run[r].decision # "approve"
      /\ run'[r].id = run[r].id /\ run'[r].target = None /\ run'[r].hist = history
      /\ run'[r].oldHistory = history /\ run'[r].oldApproved = approved[run[r].id]
      /\ run'[r].decision = run[r].decision
  BY <1>1, <1>2 DEF Enter, RunState
<1>4. run[r].id \in Packages
  BY <1>1 DEF Enter, RunOK
<1>5. UNCHANGED <<approved, archive, history>>
  BY DEF Enter, stores
<1>6. InTransaction(r)'
  BY <1>3 DEF InTransaction, WritingPcs
<1>7. OldApproved(r)' = OldApproved(r)
  BY <1>1, <1>2, <1>3, <1>4, <1>5, <1>6 DEF OldApproved
<1>8. OldArchive(r)' = OldArchive(r)
  BY <1>1, <1>2, <1>3, <1>5, <1>6 DEF OldArchive
<1>9. Progress(r)'
  BY <1>3, <1>5 DEF Progress
<1>10. Kept(r)'
  BY <1>3, <1>5 DEF Kept
<1> QED
  BY <1>3, <1>4, <1>5, <1>6, <1>7, <1>8, <1>9, <1>10 DEF AloneInv, Quiet

LEMMA AloneChooses ==
    ASSUME IInv, NEW r \in Reviewers, AloneInv(r), ChooseTarget(r)
    PROVE  AloneInv(r)' /\ Quiet(r)
<1> DEFINE free == ArchiveTarget(archive, run[r].id, run[r].stamp)
<1>1. /\ DOMAIN run = Reviewers /\ run[r] \in RunState /\ RunOK(r)
      /\ approved \in [Packages -> StoredRecord] /\ WithoutFile(archive, None) = archive
  BY AloneFacts
<1>2. /\ InTransaction(r) /\ run[r].target = None /\ run[r].id \in Packages
      /\ approved[run[r].id] = run[r].oldApproved /\ run[r].hist = history
      /\ run[r].oldHistory = history /\ run[r].oldApproved # Torn
  BY <1>1 DEF ChooseTarget, AloneInv, InTransaction, WritingPcs, Progress, RunOK
<1>3. UNCHANGED <<approved, archive, history>>
  BY DEF ChooseTarget, stores
<1>4. free \in ArchiveName /\ free \notin DOMAIN archive /\ free # None
  BY <1>1, <1>2, ArchiveTargetIsFree, StandInsAssumption DEF IInv, StoresInv, RunState
<1> HIDE DEF free
<1>5. /\ run'[r].id = run[r].id /\ run'[r].hist = history /\ run'[r].oldHistory = history
      /\ run'[r].oldApproved = run[r].oldApproved /\ run'[r].stamp = run[r].stamp
      /\ IF approved[run[r].id] = None
         THEN run'[r].pc = "writeApproved" /\ run'[r].target = None
         ELSE run'[r].pc = "move" /\ run'[r].target = free
  BY <1>1, <1>2 DEF ChooseTarget, RunState, free
<1>6. InTransaction(r)'
  BY <1>5 DEF InTransaction, WritingPcs
<1>7. WithoutFile(archive, free) = archive
  BY <1>4, FreeNameComesAndGoes DEF AloneInv
<1>8. OldApproved(r)' = OldApproved(r)
  BY <1>2, <1>3, <1>5, <1>6 DEF OldApproved
<1>9. OldArchive(r) = archive /\ OldArchive(r)' = archive
  BY <1>1, <1>2, <1>3, <1>5, <1>6, <1>7 DEF OldArchive
<1>10. Progress(r)'
  BY <1>2, <1>3, <1>4, <1>5 DEF Progress, Superseded
<1>11. Kept(r)'
  BY <1>2, <1>3, <1>5, <1>9 DEF Kept, Superseded, free
<1> QED
  BY <1>2, <1>3, <1>5, <1>6, <1>8, <1>9, <1>10, <1>11 DEF AloneInv, Quiet

LEMMA AloneMoves ==
    ASSUME IInv, NEW r \in Reviewers, AloneInv(r), Move(r)
    PROVE  AloneInv(r)' /\ Quiet(r)
<1>1. /\ DOMAIN run = Reviewers /\ run[r] \in RunState /\ RunOK(r)
      /\ approved \in [Packages -> StoredRecord]
  BY AloneFacts
<1>2. /\ InTransaction(r) /\ run[r].target \in ArchiveName /\ run[r].id \in Packages
      /\ approved[run[r].id] = run[r].oldApproved /\ run[r].hist = history
      /\ run[r].oldHistory = history /\ run[r].oldApproved \notin {None, Torn}
      /\ run[r].target \notin DOMAIN archive /\ run[r].target # None
  BY <1>1, StandInsAssumption
     DEF Move, AloneInv, InTransaction, WritingPcs, Progress, RunOK
<1>3. /\ run'[r].id = run[r].id /\ run'[r].hist = history /\ run'[r].oldHistory = history
      /\ run'[r].oldApproved = run[r].oldApproved /\ run'[r].stamp = run[r].stamp
      /\ run'[r].target = run[r].target /\ run'[r].pc = "writeApproved"
  BY <1>1, <1>2 DEF Move, RunState
<1>4. /\ approved' = [approved EXCEPT ![run[r].id] = None]
      /\ archive' = WithFile(archive, run[r].target, run[r].oldApproved)
      /\ history' = history
  BY <1>2 DEF Move
<1>5. InTransaction(r)'
  BY <1>3 DEF InTransaction, WritingPcs
<1>6. OldApproved(r)' = OldApproved(r)
  BY <1>1, <1>2, <1>3, <1>4, <1>5 DEF OldApproved
<1>7. OldArchive(r) = archive /\ OldArchive(r)' = archive
  BY <1>2, <1>3, <1>4, <1>5, FreeNameComesAndGoes DEF OldArchive, AloneInv
<1>8. Superseded(r)'
  BY <1>2, <1>3, <1>4 DEF Superseded, WithFile
<1>9. Progress(r)'
  BY <1>1, <1>2, <1>3, <1>4, <1>8 DEF Progress
<1>10. Kept(r)'
  BY <1>2, <1>3, <1>7, <1>8 DEF Kept, AloneInv
<1>11. archive' = [y \in DOMAIN archive' |-> archive'[y]]
  BY <1>4 DEF WithFile
<1>12. \A p \in Packages : approved'[p] # Torn
  BY <1>1, <1>4, StandInsAssumption DEF AloneInv
<1> QED
  BY <1>2, <1>3, <1>4, <1>5, <1>6, <1>7, <1>9, <1>10, <1>11, <1>12 DEF AloneInv, Quiet

LEMMA AloneWritesApproved ==
    ASSUME IInv, NEW r \in Reviewers, AloneInv(r), WriteApproved(r)
    PROVE  AloneInv(r)' /\ Quiet(r)
<1>1. /\ DOMAIN run = Reviewers /\ run[r] \in RunState /\ RunOK(r)
      /\ approvedTmp \in [Packages -> StoredRecord]
  BY AloneFacts
<1>2. /\ InTransaction(r) /\ run[r].id \in Packages
      /\ approved[run[r].id] = None /\ Superseded(r)
  BY <1>1 DEF WriteApproved, AloneInv, InTransaction, WritingPcs, Progress, RunOK
<1>3. /\ run' = [run EXCEPT ![r].pc = "installApproved"]
      /\ run'[r] = [run[r] EXCEPT !.pc = "installApproved"]
  BY <1>1 DEF WriteApproved
<1>4. UNCHANGED <<approved, archive, history>> /\ approvedTmp'[run[r].id] = NewRecord(r)
  BY <1>1, <1>2 DEF WriteApproved, NewRecord
<1>5. NewRecord(r)' = NewRecord(r) /\ Superseded(r)' /\ InTransaction(r)'
  BY <1>1, <1>2, <1>3, <1>4 DEF RunState, NewRecord, Superseded, InTransaction, WritingPcs
<1>6. OldApproved(r)' = OldApproved(r) /\ OldArchive(r)' = OldArchive(r)
  BY <1>1, <1>2, <1>3, <1>4, <1>5 DEF RunState, OldApproved, OldArchive
<1>7. Progress(r)'
  BY <1>1, <1>2, <1>3, <1>4, <1>5 DEF RunState, Progress
<1>8. Kept(r)'
  BY <1>1, <1>2, <1>3, <1>5, <1>6 DEF RunState, Kept, AloneInv
<1> QED
  BY <1>1, <1>2, <1>3, <1>4, <1>5, <1>6, <1>7, <1>8
     DEF RunState, WriteApproved, WritingPcs, AloneInv, Quiet

LEMMA AloneInstallsApproved ==
    ASSUME IInv, NEW r \in Reviewers, AloneInv(r), InstallApproved(r)
    PROVE  AloneInv(r)' /\ Quiet(r)
<1>1. /\ DOMAIN run = Reviewers /\ run[r] \in RunState /\ RunOK(r)
      /\ approved \in [Packages -> StoredRecord]
  BY AloneFacts
<1>2. /\ InTransaction(r) /\ run[r].id \in Packages /\ run[r].decision = "approve"
      /\ approvedTmp[run[r].id] = NewRecord(r) /\ Superseded(r)
  BY <1>1 DEF InstallApproved, AloneInv, InTransaction, WritingPcs, Progress, RunOK, IInv, RunInv
<1>3. NewRecord(r) # Torn
  BY <1>1, <1>2, MakeRecordType, StandInsAssumption
     DEF IInv, RunInv, RunOK, NewRecord, InstallApproved
<1>4. /\ run' = [run EXCEPT ![r].pc = "writeHistory"]
      /\ run'[r] = [run[r] EXCEPT !.pc = "writeHistory"]
  BY <1>1 DEF InstallApproved
<1>5. /\ UNCHANGED <<archive, history>>
      /\ approved' = [approved EXCEPT ![run[r].id] = NewRecord(r)]
  BY <1>1, <1>2 DEF InstallApproved
<1>6. NewRecord(r)' = NewRecord(r) /\ Superseded(r)' /\ InTransaction(r)'
  BY <1>1, <1>2, <1>4, <1>5 DEF RunState, NewRecord, Superseded, InTransaction, WritingPcs
<1>7. OldApproved(r)' = OldApproved(r) /\ OldArchive(r)' = OldArchive(r)
  BY <1>1, <1>2, <1>4, <1>5, <1>6 DEF RunState, OldApproved, OldArchive
<1>8. Progress(r)'
  BY <1>1, <1>2, <1>4, <1>5, <1>6 DEF RunState, Progress
<1>9. Kept(r)'
  BY <1>1, <1>2, <1>4, <1>6, <1>7 DEF RunState, Kept, AloneInv
<1>10. \A p \in Packages : approved'[p] # Torn
  BY <1>1, <1>3, <1>5 DEF AloneInv
<1> QED
  BY <1>1, <1>2, <1>4, <1>5, <1>6, <1>7, <1>8, <1>9, <1>10
     DEF RunState, InstallApproved, WritingPcs, AloneInv, Quiet

LEMMA AloneWritesHistory ==
    ASSUME IInv, NEW r \in Reviewers, AloneInv(r), WriteHistory(r)
    PROVE  AloneInv(r)' /\ Quiet(r)
<1>1. DOMAIN run = Reviewers /\ run[r] \in RunState
  BY AloneFacts
<1>2. InTransaction(r)
  BY DEF WriteHistory, InTransaction, WritingPcs
<1>3. /\ run' = [run EXCEPT ![r].pc = "installHistory"]
      /\ run'[r] = [run[r] EXCEPT !.pc = "installHistory"]
  BY <1>1 DEF WriteHistory
<1>4. /\ UNCHANGED <<approved, archive, history>>
      /\ historyTmp' = Append(run[r].hist, NewEntry(r))
  BY DEF WriteHistory
<1>5. /\ NewRecord(r)' = NewRecord(r) /\ NewEntry(r)' = NewEntry(r)
      /\ Superseded(r)' = Superseded(r) /\ InTransaction(r)'
  BY <1>1, <1>3, <1>4 DEF RunState, NewRecord, NewEntry, Superseded, InTransaction, WritingPcs
<1>6. OldApproved(r)' = OldApproved(r) /\ OldArchive(r)' = OldArchive(r)
  BY <1>1, <1>2, <1>3, <1>4, <1>5 DEF RunState, OldApproved, OldArchive
<1>7. Progress(r)'
  BY <1>1, <1>3, <1>4, <1>5 DEF RunState, Progress, AloneInv, WriteHistory
<1>8. Kept(r)'
  BY <1>1, <1>2, <1>3, <1>4, <1>5, <1>6 DEF RunState, Kept, AloneInv
<1> QED
  BY <1>1, <1>2, <1>3, <1>4, <1>5, <1>6, <1>7, <1>8
     DEF RunState, WriteHistory, WritingPcs, AloneInv, Quiet

\* The last step commits: the stores are what the decision made of them.
LEMMA AloneInstallsHistory ==
    ASSUME IInv, NEW r \in Reviewers, AloneInv(r), InstallHistory(r)
    PROVE  /\ AloneInv(r)'
           /\ OldApproved(r)' = approved /\ OldArchive(r)' = archive
           /\ history' = Append(history, NewEntry(r))
<1>1. DOMAIN run = Reviewers /\ run[r] \in RunState /\ RunOK(r)
  BY AloneFacts
<1>2. run[r].hist = history /\ historyTmp = Append(history, NewEntry(r))
  BY DEF InstallHistory, AloneInv, WritingPcs, Progress
<1>3. NewEntry(r) \in Entry
  BY <1>1, MakeEntryType DEF IInv, RunInv, RunOK, RunState, NewEntry, InstallHistory
<1>4. Append(history, NewEntry(r)) \in Seq(Entry)
  BY <1>1, <1>2, <1>3 DEF RunState
<1>5. run'[r] = IdleRun /\ UNCHANGED <<approved, archive>> /\ history' # Torn
      /\ history' = Append(history, NewEntry(r))
  BY <1>1, <1>2, <1>4, StandInsAssumption DEF InstallHistory
<1>6. ~InTransaction(r)'
  BY <1>5 DEF InTransaction, IdleRun, WritingPcs, RestoringPcs
<1> QED
  BY <1>5, <1>6, StandInsAssumption
     DEF AloneInv, OldApproved, OldArchive, IdleRun, WritingPcs, Progress, Kept

LEMMA AloneRollsBack ==
    ASSUME IInv, NEW r \in Reviewers, AloneInv(r), RollBack(r)
    PROVE  AloneInv(r)' /\ Quiet(r)
<1>1. /\ DOMAIN run = Reviewers /\ run[r] \in RunState /\ RunOK(r)
      /\ approved \in [Packages -> StoredRecord] /\ WithoutFile(archive, None) = archive
  BY AloneFacts
<1>2. /\ InTransaction(r) /\ run[r].id \in Packages /\ run[r].oldHistory = history
      /\ run[r].oldApproved # Torn /\ Kept(r)
  BY <1>1 DEF RollBack, Raise, RestoreHistory, RestoreApproved, RestoreArchive, AloneInv,
     InTransaction, WritingPcs, RestoringPcs, RunOK
<1>3. CASE Raise(r) \/ RestoreHistory(r)
  <2> DEFINE pc == IF Raise(r) THEN "restoreHistory" ELSE "restoreApproved"
  <2>1. UNCHANGED <<approved, archive, history>>
    BY <1>2, <1>3 DEF Raise, RestoreHistory
  <2>2. run'[r] = [run[r] EXCEPT !.pc = pc] /\ pc \in {"restoreHistory", "restoreApproved"}
    BY <1>1, <1>3 DEF Raise, RestoreHistory, WritingPcs
  <2> HIDE DEF pc
  <2>3. Superseded(r)' = Superseded(r) /\ InTransaction(r)'
    BY <1>1, <2>1, <2>2 DEF RunState, Superseded, InTransaction, RestoringPcs
  <2>4. OldApproved(r)' = OldApproved(r) /\ OldArchive(r)' = OldArchive(r)
    BY <1>1, <1>2, <2>1, <2>2, <2>3 DEF RunState, OldApproved, OldArchive
  <2>5. Progress(r)'
    BY <1>1, <2>2 DEF RunState, Progress
  <2>6. Kept(r)'
    BY <1>1, <1>2, <2>1, <2>2, <2>3, <2>4 DEF RunState, Kept
  <2> QED
    BY <1>1, <1>2, <2>1, <2>2, <2>3, <2>4, <2>5, <2>6 DEF RunState, WritingPcs, AloneInv, Quiet
<1>4. CASE RestoreApproved(r)
  <2>1. /\ UNCHANGED <<archive, history>>
        /\ approved' = [approved EXCEPT ![run[r].id] = run[r].oldApproved]
    BY <1>4 DEF RestoreApproved
  <2>2. \A p \in Packages : approved'[p] # Torn
    BY <1>1, <1>2, <2>1 DEF AloneInv
  <2>3. CASE run[r].target = None
    <3>1. run'[r] = IdleRun
      BY <1>1, <1>4, <2>3 DEF RestoreApproved
    <3>2. ~InTransaction(r)' /\ Progress(r)' /\ Kept(r)'
      BY <3>1 DEF InTransaction, IdleRun, WritingPcs, RestoringPcs, Progress, Kept
    <3>3. Quiet(r)
      BY <1>1, <1>2, <2>1, <2>3, <3>2 DEF Quiet, OldApproved, OldArchive
    <3> QED
      BY <2>1, <2>2, <3>1, <3>2, <3>3, StandInsAssumption DEF AloneInv, IdleRun, WritingPcs
  <2>4. CASE run[r].target # None
    <3>1. run'[r] = [run[r] EXCEPT !.pc = "restoreArchive"]
      BY <1>1, <1>4, <2>4 DEF RestoreApproved
    <3>2. approved'[run[r].id] = run[r].oldApproved /\ InTransaction(r)'
      BY <1>1, <1>2, <2>1, <3>1 DEF RunState, InTransaction, RestoringPcs
    <3>3. OldApproved(r)' = OldApproved(r) /\ OldArchive(r)' = OldArchive(r)
      BY <1>1, <1>2, <2>1, <3>1, <3>2 DEF RunState, OldApproved, OldArchive
    <3>4. Progress(r)' /\ Kept(r)'
      BY <1>1, <1>2, <3>1, <3>2, <3>3 DEF RunState, Progress, Kept
    <3> QED
      BY <1>1, <1>2, <2>1, <2>2, <3>1, <3>2, <3>3, <3>4 DEF RunState, WritingPcs, AloneInv, Quiet
  <2> QED
    BY <2>3, <2>4
<1>5. CASE RestoreArchive(r)
  <2>1. run'[r] = IdleRun /\ UNCHANGED <<approved, history>>
        /\ archive' = WithoutFile(archive, run[r].target)
    BY <1>1, <1>5 DEF RestoreArchive
  <2>2. approved[run[r].id] = run[r].oldApproved
    BY <1>5 DEF RestoreArchive, AloneInv, Progress
  <2>3. ~InTransaction(r)' /\ Progress(r)' /\ Kept(r)'
    BY <2>1 DEF InTransaction, IdleRun, WritingPcs, RestoringPcs, Progress, Kept
  <2>4. Quiet(r)
    BY <1>1, <1>2, <2>1, <2>2, <2>3 DEF Quiet, OldApproved, OldArchive
  <2>5. archive' = [y \in DOMAIN archive' |-> archive'[y]]
    BY <2>1 DEF WithoutFile
  <2> QED
    BY <2>1, <2>3, <2>4, <2>5, StandInsAssumption DEF AloneInv, IdleRun, WritingPcs
<1> QED
  BY <1>3, <1>4, <1>5 DEF RollBack

\* A killed process leaves the stores as they are.
LEMMA AloneCrashes ==
    ASSUME IInv, NEW r \in Reviewers, AloneInv(r), Crash(r)
    PROVE  /\ AloneInv(r)'
           /\ OldApproved(r)' = approved /\ OldArchive(r)' = archive /\ history' = history
<1>1. run'[r] = IdleRun /\ UNCHANGED <<approved, archive, history>>
  BY AloneFacts DEF Crash
<1>2. ~InTransaction(r)' /\ Progress(r)' /\ Kept(r)'
  BY <1>1 DEF InTransaction, IdleRun, WritingPcs, RestoringPcs, Progress, Kept
<1> QED
  BY <1>1, <1>2, StandInsAssumption DEF AloneInv, OldApproved, OldArchive, IdleRun, WritingPcs

\* The other writers do not touch the stores.
LEMMA AloneInputs ==
    ASSUME ~AnalysisRebuilds, NEW r \in Reviewers, AloneInv(r),
           ChangeInputs \/ RebuildAnalysis \/ UNCHANGED vars
    PROVE  AloneInv(r)' /\ Quiet(r)
<1>1. UNCHANGED <<stores, run>> /\ UNCHANGED <<approved, approvedTmp, archive, history, historyTmp>>
  BY DEF ChangeInputs, BuildPackage, EditPackage, SaveInbound, ChangeAcquisition, Tick,
         RebuildAnalysis, stores, vars
<1>2. OldApproved(r)' = OldApproved(r) /\ OldArchive(r)' = OldArchive(r)
      /\ InTransaction(r)' = InTransaction(r) /\ Superseded(r)' = Superseded(r)
      /\ NewRecord(r)' = NewRecord(r) /\ NewEntry(r)' = NewEntry(r)
  BY <1>1 DEF OldApproved, OldArchive, InTransaction, Superseded, NewRecord, NewEntry
<1>3. Progress(r)' /\ Kept(r)'
  BY <1>1, <1>2 DEF AloneInv, Progress, Kept
<1> QED
  BY <1>1, <1>2, <1>3 DEF AloneInv, Quiet

LEMMA EmptyHistoryIsThere == << >> # Torn
BY EmptyHistoryIsGood, StandInsAssumption DEF GoodHistory

LEMMA InitAlone == ASSUME NEW r \in Reviewers PROVE Init => AloneInv(r)
<1> SUFFICES ASSUME Init PROVE AloneInv(r)
  OBVIOUS
<1>1. history # Torn /\ None # Torn
  BY EmptyHistoryIsThere, StandInsAssumption DEF Init
<1>2. archive = [y \in DOMAIN archive |-> archive[y]]
  BY DEF Init
<1>3. run[r] = IdleRun
  BY DEF Init
<1> QED
  BY <1>1, <1>2, <1>3
     DEF Init, AloneInv, IdleRun, InTransaction, WritingPcs, RestoringPcs, Progress, Kept

\* Every step leaves the stores of before the transaction as they were, unless
\* it commits or the process is killed.
LEMMA NextAlone ==
    ASSUME NEW r, Reviewers = {r}, ~RestoresTear, ~AnalysisRebuilds,
           IInv, AloneInv(r), [Next]_vars
    PROVE  AloneInv(r)' /\ (Quiet(r) \/ InstallHistory(r) \/ Crash(r))
<1>1. r \in Reviewers
  OBVIOUS
<1>2. CASE Decide(r)
  BY <1>1, <1>2, AloneReads, AloneEnters, AloneChooses, AloneMoves, AloneWritesApproved,
     AloneInstallsApproved, AloneWritesHistory, AloneInstallsHistory DEF Decide
<1>3. CASE RollBack(r)
  BY <1>1, <1>3, AloneRollsBack
<1>4. CASE Crash(r)
  BY <1>1, <1>4, AloneCrashes
<1>5. CASE TearRestored(r)
  BY <1>5 DEF TearRestored
<1>6. CASE ChangeInputs \/ RebuildAnalysis \/ UNCHANGED vars
  BY <1>1, <1>6, AloneInputs
<1> QED
  BY <1>2, <1>3, <1>4, <1>5, <1>6 DEF Next

LEMMA AloneAlways ==
    ASSUME NEW r, Reviewers = {r}, ~RestoresTear, ~AnalysisRebuilds
    PROVE  Spec => []AloneInv(r)
<1>1. IInv /\ AloneInv(r) /\ [Next]_vars => AloneInv(r)'
  BY NextAlone
<1>2. Init => AloneInv(r)
  BY InitAlone
<1> QED
  BY <1>1, <1>2, Invariance, PTL DEF Spec

\* A file can be taken away and put back.
LEMMA FileGoesAndComes ==
    ASSUME NEW Ar, Ar = [y \in DOMAIN Ar |-> Ar[y]], NEW name \in DOMAIN Ar
    PROVE  /\ DOMAIN WithoutFile(Ar, name) = DOMAIN Ar \ {name}
           /\ \A y \in DOMAIN Ar \ {name} : WithoutFile(Ar, name)[y] = Ar[y]
           /\ WithFile(WithoutFile(Ar, name), name, Ar[name]) = Ar
<1>1. /\ DOMAIN WithoutFile(Ar, name) = DOMAIN Ar \ {name}
      /\ \A y \in DOMAIN Ar \ {name} : WithoutFile(Ar, name)[y] = Ar[y]
  BY DEF WithoutFile
<1>2. (DOMAIN Ar \ {name}) \cup {name} = DOMAIN Ar
  OBVIOUS
<1>3. WithFile(WithoutFile(Ar, name), name, Ar[name]) = [y \in DOMAIN Ar |-> Ar[y]]
  BY <1>1, <1>2 DEF WithFile
<1> QED
  BY <1>1, <1>3

\* Seen from the stores of before the transaction, the commit is the decision
\* in one step.
LEMMA CommitIsAtomic ==
    ASSUME IInv, NEW r \in Reviewers, AloneInv(r), InstallHistory(r)
    PROVE  /\ run[r].id \in Packages /\ run[r].out \in Output /\ run[r].pkg \in PackageFile
           /\ run[r].stamp \in Nat /\ run[r].target \in ArchiveName \cup {None}
           /\ run[r].decision \in Decisions /\ run[r].hist = history
           /\ run[r].decision = "approve" =>
                /\ approved = [OldApproved(r) EXCEPT ![run[r].id] = NewRecord(r)]
                /\ run[r].target = IF OldApproved(r)[run[r].id] = None THEN None
                                   ELSE ArchiveTarget(OldArchive(r), run[r].id, run[r].stamp)
                /\ archive = IF run[r].target = None THEN OldArchive(r)
                             ELSE WithFile(OldArchive(r), run[r].target,
                                           OldApproved(r)[run[r].id])
           /\ run[r].decision # "approve" =>
                /\ approved = OldApproved(r) /\ archive = OldArchive(r)
                /\ run[r].target = None
<1>1. /\ DOMAIN run = Reviewers /\ run[r] \in RunState /\ RunOK(r)
      /\ approved \in [Packages -> StoredRecord] /\ WithoutFile(archive, None) = archive
  BY AloneFacts
<1>2. /\ InTransaction(r) /\ run[r].id \in Packages /\ run[r].out \in Output
      /\ run[r].pkg \in PackageFile /\ run[r].hist = history /\ Kept(r)
      /\ archive = [y \in DOMAIN archive |-> archive[y]]
  BY <1>1 DEF InstallHistory, AloneInv, InTransaction, WritingPcs, RunOK
<1>3. /\ OldApproved(r) = [approved EXCEPT ![run[r].id] = run[r].oldApproved]
      /\ OldArchive(r) = WithoutFile(archive, run[r].target)
  BY <1>2 DEF OldApproved, OldArchive
<1>4. OldApproved(r)[run[r].id] = run[r].oldApproved
  BY <1>1, <1>2, <1>3
<1>5. ASSUME run[r].decision = "approve"
      PROVE  /\ approved[run[r].id] = NewRecord(r) /\ Superseded(r)
  BY <1>5 DEF InstallHistory, AloneInv, Progress
<1>6. ASSUME run[r].decision # "approve"
      PROVE  approved[run[r].id] = run[r].oldApproved /\ run[r].target = None
  BY <1>6 DEF InstallHistory, AloneInv, Progress
<1>7. ASSUME run[r].decision = "approve"
      PROVE  /\ approved = [OldApproved(r) EXCEPT ![run[r].id] = NewRecord(r)]
             /\ run[r].target = IF OldApproved(r)[run[r].id] = None THEN None
                                ELSE ArchiveTarget(OldArchive(r), run[r].id, run[r].stamp)
             /\ archive = IF run[r].target = None THEN OldArchive(r)
                          ELSE WithFile(OldArchive(r), run[r].target,
                                        OldApproved(r)[run[r].id])
  <2>1. approved = [OldApproved(r) EXCEPT ![run[r].id] = NewRecord(r)]
    BY <1>1, <1>2, <1>3, <1>5, <1>7
  <2>2. run[r].target = IF OldApproved(r)[run[r].id] = None THEN None
                        ELSE ArchiveTarget(OldArchive(r), run[r].id, run[r].stamp)
    BY <1>2, <1>4, <1>5, <1>7 DEF Kept, Superseded
  <2>3. CASE run[r].target = None
    BY <1>1, <1>3, <2>1, <2>2, <2>3
  <2>4. CASE run[r].target # None
    <3>1. run[r].target \in DOMAIN archive /\ archive[run[r].target] = run[r].oldApproved
      BY <1>5, <1>7, <2>4 DEF Superseded
    <3>2. WithFile(WithoutFile(archive, run[r].target), run[r].target,
                   archive[run[r].target]) = archive
      BY <1>2, <3>1, FileGoesAndComes
    <3>3. WithFile(OldArchive(r), run[r].target, run[r].oldApproved) = archive
      BY <1>3, <3>1, <3>2
    <3> QED
      BY <1>4, <2>1, <2>2, <2>4, <3>3
  <2> QED
    BY <2>3, <2>4
<1>8. ASSUME run[r].decision # "approve"
      PROVE  approved = OldApproved(r) /\ archive = OldArchive(r) /\ run[r].target = None
  BY <1>1, <1>2, <1>3, <1>6, <1>8
<1> QED
  BY <1>1, <1>2, <1>7, <1>8 DEF RunState, RunOK, InstallHistory

------------------------------------------------------------------------------
(* One reviewer: what was reported stands.                                 *)

\* A reply that is in the stores of before the transaction is in the stores.
LEMMA HoldsMeanwhile ==
    ASSUME IInv, NEW r \in Reviewers, AloneInv(r),
           Holds(OldApproved(r), OldArchive(r), confirmed)
    PROVE  Holds(approved, archive, confirmed)
<1>1. /\ approved \in [Packages -> StoredRecord] /\ run[r] \in RunState /\ RunOK(r)
      /\ confirmed \subseteq Entry
  BY AloneFacts DEF IInv, StoresInv
<1>2. CASE ~InTransaction(r)
  BY <1>2 DEF OldApproved, OldArchive
<1>3. CASE InTransaction(r)
  <2> SUFFICES ASSUME NEW e \in confirmed, e.action = "approved"
               PROVE  \E file \in {approved[e.subject]} \cup {archive[x] : x \in DOMAIN archive} :
                          /\ file \notin {None, Torn}
                          /\ file.revision = e.revision
                          /\ file.assessment = e.content
    BY DEF Holds
  <2>1. PICK file \in {OldApproved(r)[e.subject]}
                      \cup {OldArchive(r)[x] : x \in DOMAIN OldArchive(r)} :
            /\ file \notin {None, Torn}
            /\ file.revision = e.revision
            /\ file.assessment = e.content
    BY DEF Holds
  <2>2. CASE file \in {OldArchive(r)[x] : x \in DOMAIN OldArchive(r)}
    BY <1>3, <2>1, <2>2 DEF OldArchive, WithoutFile
  <2>3. CASE file = OldApproved(r)[e.subject]
    <3>1. e.subject \in Packages /\ run[r].id \in Packages
      BY <1>1, <1>3 DEF Entry, RunOK, InTransaction, WritingPcs, RestoringPcs
    <3>2. CASE e.subject # run[r].id \/ approved[run[r].id] = run[r].oldApproved
      BY <1>1, <1>3, <2>1, <2>3, <3>1, <3>2 DEF OldApproved
    <3>3. CASE e.subject = run[r].id /\ Superseded(r)
      <4>1. file = run[r].oldApproved
        BY <1>1, <1>3, <2>3, <3>1, <3>3 DEF OldApproved
      <4>2. file \in {archive[x] : x \in DOMAIN archive}
        BY <2>1, <3>3, <4>1 DEF Superseded
      <4> QED
        BY <2>1, <4>2
    <3> QED
      BY <1>3, <3>2, <3>3 DEF AloneInv, Kept
  <2> QED
    BY <2>1, <2>2, <2>3
<1> QED
  BY <1>2, <1>3

LEMMA NextReported ==
    ASSUME NEW r, Reviewers = {r}, ~RestoresTear, ~AnalysisRebuilds,
           IInv, AloneInv(r), ReportedInv(r), [Next]_vars
    PROVE  ReportedInv(r)'
<1>1. r \in Reviewers
  OBVIOUS
<1>2. confirmed' = confirmed \/ InstallHistory(r)
  BY DEF Next, Decide, Start, ReadOutput, ReadOutputAgain, ReadPackageAgain, Gate, LoadHistory,
         Enter, ChooseTarget, Move, WriteApproved, InstallApproved, WriteHistory, RollBack, Raise,
         RestoreHistory, RestoreApproved, RestoreArchive, Crash, TearRestored, ChangeInputs,
         BuildPackage, EditPackage, SaveInbound, ChangeAcquisition, Tick, RebuildAnalysis, vars
<1>3. CASE Quiet(r) /\ confirmed' = confirmed
  BY <1>3 DEF Quiet, ReportedInv, DecisionsDurable
<1>4. CASE Crash(r)
  <2>1. OldApproved(r)' = approved /\ OldArchive(r)' = archive /\ history' = history
    BY <1>1, <1>4, AloneCrashes
  <2>2. Holds(approved, archive, confirmed) /\ confirmed' = confirmed
    BY <1>1, <1>4, HoldsMeanwhile DEF ReportedInv, Crash
  <2> QED
    BY <2>1, <2>2 DEF ReportedInv, DecisionsDurable
<1>5. CASE InstallHistory(r)
  <2> DEFINE new == NewEntry(r)
  <2>1. /\ OldApproved(r)' = approved /\ OldArchive(r)' = archive /\ AloneInv(r)'
        /\ history' = Append(history, new) /\ confirmed' = confirmed \cup {new}
    BY <1>1, <1>5, AloneInstallsHistory DEF InstallHistory
  <2>2. Holds(approved, archive, confirmed)
    BY <1>1, HoldsMeanwhile DEF ReportedInv
  <2>3. ASSUME new.action = "approved"
        PROVE  /\ approved[new.subject] \notin {None, Torn}
               /\ approved[new.subject].revision = new.revision
               /\ approved[new.subject].assessment = new.content
    <3>1. new.subject = run[r].id /\ run[r].decision = "approve" /\ new.content = run[r].out
      BY <2>3 DEF NewEntry, MakeEntry
    <3>2. new.revision = NextRevision(run[r].hist, run[r].id)
      BY <3>1 DEF NewEntry, MakeEntry
    <3>3. approved[run[r].id] = NewRecord(r)
      BY <1>5, <3>1 DEF InstallHistory, AloneInv, Progress
    <3>4. NewRecord(r).revision = new.revision /\ NewRecord(r).assessment = new.content
      BY <3>1, <3>2 DEF NewRecord, MakeRecord
    <3>5. NewRecord(r) \in Record
      BY <1>1, <1>5, MakeRecordType DEF IInv, RunInv, RunOK, NewRecord, InstallHistory
    <3> QED
      BY <3>1, <3>3, <3>4, <3>5, StandInsAssumption
  <2> HIDE DEF new
  <2>4. Holds(approved, archive, confirmed')
    BY <2>1, <2>2, <2>3 DEF Holds
  <2>5. DecisionsDurable'
    <3>1. history \in Seq(Entry)
      BY DEF AloneInv, IInv, StoresInv, GoodHistory
    <3>2. new \in Entry
      BY <1>1, <1>5, MakeEntryType
         DEF IInv, RunInv, RunOK, RunState, NewEntry, InstallHistory, new
    <3>3. \A e \in confirmed : \E i \in DOMAIN history : history[i] = e
      BY DEF ReportedInv, DecisionsDurable
    <3>4. /\ \A i \in DOMAIN history : i \in DOMAIN history' /\ history'[i] = history[i]
          /\ Len(history) + 1 \in DOMAIN history' /\ history'[Len(history) + 1] = new
      BY <2>1, <3>1, <3>2
    <3>5. \A e \in confirmed' : \E i \in DOMAIN history' : history'[i] = e
      BY <2>1, <3>3, <3>4
    <3> QED
      BY <2>1, <3>5 DEF DecisionsDurable, AloneInv
  <2> QED
    BY <2>1, <2>4, <2>5 DEF ReportedInv
<1> QED
  BY <1>2, <1>3, <1>4, <1>5, NextAlone DEF Crash

\* What a reviewer was told stands: the entry is in the history and the reply is
\* approved or archived, whatever later decisions were killed, rolled back or
\* failed at (FileTransaction, review_decision.py:63-118), with one reviewer at
\* a time and no rebuild of the history by the analysis.
THEOREM ReportedStaysStanding ==
    ASSUME NEW r, Reviewers = {r}, ~RestoresTear, ~AnalysisRebuilds
    PROVE  Spec => []ReportedStands
<1>1. IInv /\ AloneInv(r) /\ ReportedInv(r) /\ [Next]_vars => ReportedInv(r)'
  BY NextReported
<1>2. Init => ReportedInv(r)
  BY EmptyHistoryIsThere DEF Init, ReportedInv, DecisionsDurable, Holds
<1>3. IInv /\ AloneInv(r) /\ ReportedInv(r) => ReportedStands
  BY HoldsMeanwhile DEF ReportedInv, ReportedStands, NothingLost, Holds
<1> QED
  BY <1>1, <1>2, <1>3, Invariance, AloneAlways, PTL DEF Spec

------------------------------------------------------------------------------
(* One reviewer who is never killed: the three stores tell one story.      *)

\* Where the entries and the approvals of a longer history come from.
LEMMA AppendedApprovals ==
    ASSUME NEW h \in Seq(Entry), NEW e \in Entry
    PROVE  /\ DOMAIN Append(h, e) = DOMAIN h \cup {Len(h) + 1}
           /\ Len(h) + 1 \notin DOMAIN h /\ Append(h, e)[Len(h) + 1] = e
           /\ \A i \in DOMAIN h : Append(h, e)[i] = h[i]
           /\ \A p : ApprovalsOf(Append(h, e), p) =
                        ApprovalsOf(h, p) \cup
                        (IF e.subject = p /\ e.action = "approved" THEN {Len(h) + 1} ELSE {})
<1> DEFINE g == Append(h, e)
           n == Len(h) + 1
<1>1. /\ DOMAIN g = DOMAIN h \cup {n} /\ n \notin DOMAIN h /\ g[n] = e
      /\ \A i \in DOMAIN h : g[i] = h[i]
  OBVIOUS
<1> HIDE DEF g, n
<1>2. \A p : ApprovalsOf(g, p) = ApprovalsOf(h, p) \cup
                (IF e.subject = p /\ e.action = "approved" THEN {n} ELSE {})
  BY <1>1 DEF ApprovalsOf
<1> QED
  BY <1>1, <1>2 DEF g, n

\* A rejection changes no file and adds an entry that names none.
LEMMA RejectMatches ==
    ASSUME NEW A, NEW Ar, NEW h \in Seq(Entry), Matches(A, Ar, h),
           NEW e \in Entry, e.action # "approved", e.supersedes = None, e.archived = None
    PROVE  Matches(A, Ar, Append(h, e))
<1> DEFINE g == Append(h, e)
           n == Len(h) + 1
<1>1. /\ DOMAIN g = DOMAIN h \cup {n} /\ n \notin DOMAIN h /\ g[n] = e
      /\ \A i \in DOMAIN h : g[i] = h[i]
      /\ \A p : ApprovalsOf(g, p) = ApprovalsOf(h, p)
  <2>1. /\ DOMAIN g = DOMAIN h \cup {n} /\ n \notin DOMAIN h /\ g[n] = e
        /\ \A i \in DOMAIN h : g[i] = h[i]
        /\ \A p : ApprovalsOf(g, p) =
              ApprovalsOf(h, p) \cup (IF e.subject = p /\ e.action = "approved" THEN {n} ELSE {})
    BY AppendedApprovals
  <2> HIDE DEF g, n
  <2>2. \A p : ApprovalsOf(g, p) = ApprovalsOf(h, p)
    BY <2>1
  <2> QED
    BY <2>1, <2>2
<1>2. \A p : ApprovalsOf(h, p) \in SUBSET DOMAIN h
  BY DEF ApprovalsOf
<1>3. DOMAIN h \subseteq Nat /\ \A i \in DOMAIN h : 1..(i - 1) \subseteq DOMAIN h
  OBVIOUS
<1> HIDE DEF g, n
<1>4. ASSUME NEW p \in Packages
      PROVE  LET approvals == ApprovalsOf(g, p)
                 last == g[Maximum(approvals)]
             IN  IF approvals = {} THEN A[p] = None
                 ELSE /\ A[p] \notin {None, Torn}
                      /\ A[p].revision = last.revision
                      /\ A[p].supersedes = last.supersedes
                      /\ A[p].assessment = last.content
  <2>1. CASE ApprovalsOf(h, p) = {}
    BY <1>1, <2>1 DEF Matches
  <2>2. CASE ApprovalsOf(h, p) # {}
    <3>1. Maximum(ApprovalsOf(h, p)) \in ApprovalsOf(h, p)
      <4>1. ApprovalsOf(h, p) \in SUBSET Nat /\ Len(h) \in Nat
            /\ \A i \in ApprovalsOf(h, p) : i <= Len(h)
        BY DEF ApprovalsOf
      <4> QED
        BY <2>2, <4>1, MaximumIsGreatest
    <3>2. g[Maximum(ApprovalsOf(h, p))] = h[Maximum(ApprovalsOf(h, p))]
      BY <1>1, <1>2, <3>1
    <3> QED
      BY <1>1, <2>2, <3>2 DEF Matches
  <2> QED
    BY <2>1, <2>2
<1>5. ASSUME NEW i \in DOMAIN g
      PROVE  \/ g[i].supersedes = None /\ g[i].archived = None
             \/ /\ g[i].archived \in DOMAIN Ar
                /\ LET old == Ar[g[i].archived]
                   IN  \E j \in 1..(i - 1) :
                         /\ g[j].id = g[i].supersedes
                         /\ old # Torn
                         /\ old.revision = g[j].revision
                         /\ old.supersedes = g[j].supersedes
                         /\ old.assessment = g[j].content
  <2>1. CASE i = n
    BY <1>1, <2>1
  <2>2. CASE i \in DOMAIN h
    <3>1. g[i] = h[i] /\ \A j \in 1..(i - 1) : g[j] = h[j]
      BY <1>1, <1>3, <2>2
    <3> QED
      BY <2>2, <3>1 DEF Matches
  <2> QED
    BY <1>1, <2>1, <2>2
<1> QED
  BY <1>4, <1>5 DEF Matches, g

\* An approval installs the record its entry describes, and archives under a
\* new name the record it supersedes.
LEMMA ApproveMatches ==
    ASSUME NEW A \in [Packages -> StoredRecord], NEW Ar, NEW h, GoodHistory(h),
           Matches(A, Ar, h), IsFiniteSet(DOMAIN Ar),
           NEW p \in Packages, NEW out \in Output, NEW pkg \in PackageFile, NEW t \in Nat,
           NEW target, target = IF A[p] = None THEN None ELSE ArchiveTarget(Ar, p, t)
    PROVE  Matches([A EXCEPT ![p] = MakeRecord(h, p, out, pkg)],
                   IF target = None THEN Ar ELSE WithFile(Ar, target, A[p]),
                   Append(h, MakeEntry(h, p, "approve", out, t, target)))
<1> DEFINE e == MakeEntry(h, p, "approve", out, t, target)
           record == MakeRecord(h, p, out, pkg)
           g == Append(h, e)
           n == Len(h) + 1
           B == [A EXCEPT ![p] = record]
           Br == IF target = None THEN Ar ELSE WithFile(Ar, target, A[p])
           Last == Maximum(ApprovalsOf(h, p))
<1>1. h \in Seq(Entry)
  BY DEF GoodHistory
<1>2. A[p] # None => /\ target = ArchiveTarget(Ar, p, t)
                     /\ target \in ArchiveName /\ target \notin DOMAIN Ar /\ target # None
  BY ArchiveTargetIsFree, StandInsAssumption
<1>3. target \in ArchiveName \cup {None} /\ (A[p] = None => target = None)
  BY <1>2
<1>4. e \in Entry
  BY <1>3, MakeEntryType DEF Decisions
<1>5. /\ e.subject = p /\ e.action = "approved" /\ e.revision = NextRevision(h, p)
      /\ e.content = out /\ e.supersedes = LatestApprovalId(h, p) /\ e.archived = target
  BY DEF MakeEntry
<1>6. /\ record \in Record /\ record.revision = e.revision
      /\ record.supersedes = e.supersedes /\ record.assessment = e.content
  BY <1>5, MakeRecordType DEF MakeRecord
<1> HIDE DEF e, record
<1>7. /\ DOMAIN g = DOMAIN h \cup {n} /\ n \notin DOMAIN h /\ g[n] = e
      /\ \A i \in DOMAIN h : g[i] = h[i]
      /\ \A q : ApprovalsOf(g, q) = ApprovalsOf(h, q) \cup (IF q = p THEN {n} ELSE {})
  <2>1. /\ DOMAIN g = DOMAIN h \cup {n} /\ n \notin DOMAIN h /\ g[n] = e
        /\ \A i \in DOMAIN h : g[i] = h[i]
        /\ \A q : ApprovalsOf(g, q) =
              ApprovalsOf(h, q) \cup (IF e.subject = q /\ e.action = "approved" THEN {n} ELSE {})
    BY <1>1, <1>4, AppendedApprovals
  <2> HIDE DEF g, n
  <2>2. \A q : ApprovalsOf(g, q) = ApprovalsOf(h, q) \cup (IF q = p THEN {n} ELSE {})
    BY <1>5, <2>1
  <2> QED
    BY <2>1, <2>2
<1>8. /\ n \in Nat /\ DOMAIN h = 1..(n - 1)
      /\ \A q : ApprovalsOf(h, q) \in SUBSET DOMAIN h
  BY <1>1 DEF ApprovalsOf
<1> HIDE DEF g, n
<1>9. \A q \in Packages : ApprovalsOf(h, q) # {} =>
          Maximum(ApprovalsOf(h, q)) \in ApprovalsOf(h, q)
  BY LastApproval
<1>10. Maximum(ApprovalsOf(g, p)) = n
  <2>1. ApprovalsOf(g, p) \in SUBSET Nat /\ n \in ApprovalsOf(g, p)
        /\ \A i \in ApprovalsOf(g, p) : i <= n
    BY <1>7, <1>8
  <2>2. /\ Maximum(ApprovalsOf(g, p)) \in ApprovalsOf(g, p)
        /\ \A i \in ApprovalsOf(g, p) : i <= Maximum(ApprovalsOf(g, p))
    BY <1>8, <2>1, MaximumIsGreatest
  <2> DEFINE m == Maximum(ApprovalsOf(g, p))
  <2>3. m \in Nat /\ m <= n /\ n <= m
    BY <2>1, <2>2
  <2> HIDE DEF m
  <2>4. m = n
    BY <1>8, <2>3
  <2> QED
    BY <2>4 DEF m
<1>11. \A q \in Packages : B[q] = IF q = p THEN record ELSE A[q]
  OBVIOUS
<1>12. ASSUME NEW q \in Packages
       PROVE  LET approvals == ApprovalsOf(g, q)
                  last == g[Maximum(approvals)]
              IN  IF approvals = {} THEN B[q] = None
                  ELSE /\ B[q] \notin {None, Torn}
                       /\ B[q].revision = last.revision
                       /\ B[q].supersedes = last.supersedes
                       /\ B[q].assessment = last.content
  <2>1. CASE q = p
    <3>1. ApprovalsOf(g, q) # {} /\ g[Maximum(ApprovalsOf(g, q))] = e
      BY <1>7, <1>10, <2>1
    <3>2. B[q] = record /\ record \notin {None, Torn}
      BY <1>6, <1>11, <2>1, StandInsAssumption
    <3> QED
      BY <1>6, <3>1, <3>2
  <2>2. CASE q # p
    <3>1. ApprovalsOf(g, q) = ApprovalsOf(h, q) /\ B[q] = A[q]
      BY <1>7, <1>11, <2>2
    <3>2. ApprovalsOf(h, q) # {} =>
              g[Maximum(ApprovalsOf(h, q))] = h[Maximum(ApprovalsOf(h, q))]
      BY <1>7, <1>8, <1>9
    <3> QED
      BY <3>1, <3>2 DEF Matches
  <2> QED
    BY <2>1, <2>2
<1>13. /\ \A y \in DOMAIN Ar : y \in DOMAIN Br /\ Br[y] = Ar[y]
       /\ A[p] # None => target \in DOMAIN Br /\ Br[target] = A[p]
  BY <1>2, <1>3 DEF WithFile
<1> HIDE DEF B, Br
<1>14. ASSUME NEW i \in DOMAIN g
       PROVE  \/ g[i].supersedes = None /\ g[i].archived = None
              \/ /\ g[i].archived \in DOMAIN Br
                 /\ LET old == Br[g[i].archived]
                    IN  \E j \in 1..(i - 1) :
                          /\ g[j].id = g[i].supersedes
                          /\ old # Torn
                          /\ old.revision = g[j].revision
                          /\ old.supersedes = g[j].supersedes
                          /\ old.assessment = g[j].content
  <2>1. CASE i \in DOMAIN h
    <3>1. g[i] = h[i] /\ \A j \in 1..(i - 1) : g[j] = h[j]
      BY <1>7, <1>8, <2>1
    <3> QED
      BY <1>13, <2>1, <3>1 DEF Matches
  <2>2. CASE i = n /\ A[p] = None
    <3>1. ApprovalsOf(h, p) = {}
      BY <2>2 DEF Matches
    <3> QED
      BY <1>3, <1>5, <1>7, <2>2, <3>1, FirstApproval
  <2>3. CASE i = n /\ A[p] # None
    <3>1. ApprovalsOf(h, p) # {}
      BY <2>3 DEF Matches
    <3>2. /\ Last \in ApprovalsOf(h, p) /\ e.supersedes = h[Last].id
      BY <1>5, <3>1, LastApproval
    <3>3. /\ A[p] # Torn /\ A[p].revision = h[Last].revision
          /\ A[p].supersedes = h[Last].supersedes /\ A[p].assessment = h[Last].content
      BY <3>1 DEF Matches
    <3>4. Last \in 1..(i - 1) /\ g[Last] = h[Last]
      BY <1>7, <1>8, <2>3, <3>2
    <3> HIDE DEF Last
    <3> QED
      BY <1>5, <1>7, <1>13, <2>3, <3>2, <3>3, <3>4
  <2> QED
    BY <1>7, <2>1, <2>2, <2>3
<1> QED
  BY <1>12, <1>14 DEF Matches, B, Br, g, e, record

LEMMA NextMatch ==
    ASSUME NEW r, Reviewers = {r}, ~CanCrash, ~RestoresTear, ~AnalysisRebuilds,
           IInv, AloneInv(r), MatchInv(r), [Next]_vars
    PROVE  MatchInv(r)'
<1>1. r \in Reviewers /\ GoodHistory(history)
  BY DEF AloneInv, IInv, StoresInv
<1>2. CASE Quiet(r)
  BY <1>2 DEF Quiet, MatchInv
<1>3. CASE InstallHistory(r)
  <2>1. /\ OldApproved(r)' = approved /\ OldArchive(r)' = archive
        /\ history' = Append(history, NewEntry(r))
    BY <1>1, <1>3, AloneInstallsHistory
  <2>2. /\ run[r].id \in Packages /\ run[r].out \in Output /\ run[r].pkg \in PackageFile
        /\ run[r].stamp \in Nat /\ run[r].target \in ArchiveName \cup {None}
        /\ run[r].decision \in Decisions /\ run[r].hist = history
    BY <1>1, <1>3, CommitIsAtomic
  <2>3. NewEntry(r) \in Entry
    BY <1>1, <2>2, MakeEntryType DEF NewEntry
  <2>4. CASE run[r].decision # "approve"
    <3>1. approved = OldApproved(r) /\ archive = OldArchive(r) /\ run[r].target = None
      BY <1>1, <1>3, <2>4, CommitIsAtomic
    <3>2. /\ NewEntry(r).action # "approved" /\ NewEntry(r).supersedes = None
          /\ NewEntry(r).archived = None
      BY <2>4, <3>1 DEF NewEntry, MakeEntry
    <3> QED
      BY <1>1, <2>1, <2>3, <3>1, <3>2, RejectMatches DEF MatchInv, GoodHistory
  <2>5. CASE run[r].decision = "approve"
    <3>1. /\ approved = [OldApproved(r) EXCEPT ![run[r].id] =
                            MakeRecord(history, run[r].id, run[r].out, run[r].pkg)]
          /\ run[r].target = IF OldApproved(r)[run[r].id] = None THEN None
                             ELSE ArchiveTarget(OldArchive(r), run[r].id, run[r].stamp)
          /\ archive = IF run[r].target = None THEN OldArchive(r)
                       ELSE WithFile(OldArchive(r), run[r].target,
                                     OldApproved(r)[run[r].id])
          /\ NewEntry(r) = MakeEntry(history, run[r].id, "approve", run[r].out,
                                     run[r].stamp, run[r].target)
      BY <1>1, <1>3, <2>2, <2>5, CommitIsAtomic DEF NewRecord, NewEntry
    <3>2. OldApproved(r) \in [Packages -> StoredRecord]
      BY <1>1, <2>2, AloneFacts DEF OldApproved, RunState
    <3>3. IsFiniteSet(DOMAIN OldArchive(r))
      BY FS_Subset DEF OldArchive, WithoutFile, IInv, StoresInv
    <3> DEFINE A == OldApproved(r)
               Ar == OldArchive(r)
               p == run[r].id
               out == run[r].out
               pkg == run[r].pkg
               t == run[r].stamp
               target == run[r].target
    <3>4. /\ p \in Packages /\ out \in Output /\ pkg \in PackageFile /\ t \in Nat
          /\ target = IF A[p] = None THEN None ELSE ArchiveTarget(Ar, p, t)
          /\ A \in [Packages -> StoredRecord] /\ IsFiniteSet(DOMAIN Ar)
          /\ Matches(A, Ar, history)
      BY <2>2, <3>1, <3>2, <3>3 DEF MatchInv
    <3> HIDE DEF A, Ar, p, out, pkg, t, target
    <3>5. Matches([A EXCEPT ![p] = MakeRecord(history, p, out, pkg)],
                  IF target = None THEN Ar ELSE WithFile(Ar, target, A[p]),
                  Append(history, MakeEntry(history, p, "approve", out, t, target)))
      BY <1>1, <3>4, ApproveMatches
    <3>6. Matches(approved, archive, history')
      BY <2>1, <3>1, <3>5 DEF A, Ar, p, out, pkg, t, target
    <3> QED
      BY <2>1, <3>6 DEF MatchInv
  <2> QED
    BY <2>4, <2>5
<1> QED
  BY <1>2, <1>3, NextAlone DEF Crash

LEMMA MatchAlways ==
    ASSUME NEW r, Reviewers = {r}, ~CanCrash, ~RestoresTear, ~AnalysisRebuilds
    PROVE  Spec => []MatchInv(r)
<1>1. IInv /\ AloneInv(r) /\ MatchInv(r) /\ [Next]_vars => MatchInv(r)'
  BY NextMatch
<1>2. Init => MatchInv(r)
  BY DEF Init, MatchInv, Matches, OldApproved, OldArchive, InTransaction, IdleRun, WritingPcs,
     RestoringPcs, ApprovalsOf
<1> QED
  BY <1>1, <1>2, Invariance, AloneAlways, PTL DEF Spec

\* Between decisions the approved record of a package is the one its last
\* approval installed, and the archive file an approval names still holds the
\* record it superseded, for one reviewer whose writes may fail and be rolled
\* back any number of times, and inputs that may change at any moment
\* (review_decision.py:139-204 and 336-368).
THEOREM StoresKeepMatching ==
    ASSUME NEW r, Reviewers = {r}, ~CanCrash, ~RestoresTear, ~AnalysisRebuilds
    PROVE  Spec => []StoresMatchHistory
<1>1. AloneInv(r) /\ MatchInv(r) => StoresMatchHistory
  <2> SUFFICES ASSUME AloneInv(r), MatchInv(r), AllIdle PROVE Matches(approved, archive, history)
    BY DEF StoresMatchHistory, ApprovedMatchesHistory, ArchiveMatchesHistory, Matches
  <2>1. ~InTransaction(r)
    BY DEF AllIdle, InTransaction, WritingPcs, RestoringPcs
  <2> QED
    BY <2>1 DEF MatchInv, OldApproved, OldArchive
<1> QED
  BY <1>1, AloneAlways, MatchAlways, PTL

------------------------------------------------------------------------------
(* One reviewer who is never killed, on inputs that stand still while a    *)
(* decision runs: the script implements the atomic ledger.                 *)

LEMMA InitBounds == ASSUME NEW r \in Reviewers PROVE Init => BoundsInv(r)
BY DecisionAssumption DEF Init, BoundsInv, IdleRun

LEMMA NextBounds ==
    ASSUME NEW r, Reviewers = {r}, IInv, BoundsInv(r), [Next]_vars
    PROVE  BoundsInv(r)'
<1>1. r \in Reviewers /\ DOMAIN run = Reviewers /\ run[r] \in RunState
  BY DEF IInv, RunInv
<1>2. MaxTime \in Nat /\ clock \in 0..MaxTime /\ run[r].stamp \in 0..MaxTime
      /\ \A p \in Packages : inbound[p] # None => inbound[p].binds \in 1..MaxBuilds
  BY DecisionAssumption DEF BoundsInv
<1>3. IdleRun.stamp = 0 /\ 0 \in 0..MaxTime
  BY <1>2 DEF IdleRun
<1>4. ASSUME UNCHANGED inputVars, run'[r].stamp \in {0, clock, run[r].stamp}
      PROVE  BoundsInv(r)'
  BY <1>2, <1>3, <1>4 DEF inputVars, BoundsInv
<1>5. CASE Decide(r)
  <2>1. UNCHANGED inputVars
    BY <1>5 DEF Decide, Start, ReadOutput, ReadOutputAgain, ReadPackageAgain, Gate, LoadHistory,
       Enter, ChooseTarget, Move, WriteApproved, InstallApproved, WriteHistory, InstallHistory
  <2>2. CASE \E p \in Packages, d \in Decisions : Start(r, p, d)
    <3>1. PICK p \in Packages, d \in Decisions : Start(r, p, d)
      BY <2>2
    <3> DEFINE x == [IdleRun EXCEPT !.pc = "output", !.id = p, !.decision = d,
                                    !.pkg = packages[p]]
    <3>2. run'[r] = x
      BY <1>1, <3>1 DEF Start
    <3>3. x.stamp = 0
      BY DEF IdleRun
    <3> HIDE DEF x
    <3> QED
      BY <1>4, <2>1, <3>2, <3>3
  <2>3. CASE ReadOutput(r) \/ ReadOutputAgain(r) \/ ReadPackageAgain(r) \/ Gate(r)
    BY <1>1, <1>3, <1>4, <2>1, <2>3
       DEF RunState, ReadOutput, ReadOutputAgain, ReadPackageAgain, Gate
  <2>4. CASE LoadHistory(r) \/ Enter(r) \/ ChooseTarget(r)
    BY <1>1, <1>3, <1>4, <2>1, <2>4 DEF RunState, LoadHistory, Enter, ChooseTarget
  <2>5. CASE \/ Move(r) \/ WriteApproved(r) \/ InstallApproved(r)
             \/ WriteHistory(r) \/ InstallHistory(r)
    BY <1>1, <1>3, <1>4, <2>1, <2>5
       DEF RunState, Move, WriteApproved, InstallApproved, WriteHistory, InstallHistory
  <2> QED
    BY <1>5, <2>2, <2>3, <2>4, <2>5 DEF Decide
<1>6. CASE RollBack(r) \/ Crash(r) \/ TearRestored(r)
  <2>1. UNCHANGED inputVars
    BY <1>6 DEF RollBack, Raise, RestoreHistory, RestoreApproved, RestoreArchive, Crash,
       TearRestored
  <2> QED
    BY <1>1, <1>3, <1>4, <1>6, <2>1
       DEF RunState, RollBack, Raise, RestoreHistory, RestoreApproved, RestoreArchive, Crash,
           TearRestored
<1>7. ASSUME NEW p \in Packages, NEW body \in Bodies, NEW v \in 1..MaxBuilds,
             SaveInbound(p, body, v)
      PROVE  BoundsInv(r)'
  <2>1. inbound' = [inbound EXCEPT ![p] = [body |-> body, binds |-> v]]
        /\ UNCHANGED <<clock, run>>
    BY <1>7 DEF SaveInbound
  <2>2. \A q \in Packages : inbound'[q] # None => inbound'[q].binds \in 1..MaxBuilds
    BY <1>2, <2>1 DEF IInv, InputsInv
  <2> QED
    BY <1>2, <2>1, <2>2 DEF BoundsInv
<1>8. CASE Tick
  <2>1. clock' \in 0..MaxTime
    BY <1>2, <1>8 DEF Tick
  <2> QED
    BY <1>2, <1>8, <2>1 DEF Tick, BoundsInv
<1>9. CASE \/ \E p \in Packages, dataset \in Datasets : BuildPackage(p, dataset)
           \/ \E p \in Packages : EditPackage(p)
           \/ ChangeAcquisition \/ RebuildAnalysis \/ UNCHANGED vars
  <2>1. UNCHANGED <<inbound, clock, run>>
    BY <1>9 DEF BuildPackage, EditPackage, ChangeAcquisition, RebuildAnalysis, inputVars, vars
  <2> QED
    BY <1>2, <2>1 DEF BoundsInv
<1> QED
  BY <1>5, <1>6, <1>7, <1>8, <1>9 DEF Next, ChangeInputs

LEMMA BoundsAlways ==
    ASSUME NEW r, Reviewers = {r}
    PROVE  Spec => []BoundsInv(r)
<1>1. IInv /\ BoundsInv(r) /\ [Next]_vars => BoundsInv(r)'
  BY NextBounds
<1>2. Init => BoundsInv(r)
  BY InitBounds
<1> QED
  BY <1>1, <1>2, Invariance, PTL DEF Spec

\* The refinement mapping reads the stores of before the transaction.
MapsToBefore(r) ==
    /\ (IF Open = {} THEN approved
        ELSE [approved EXCEPT ![TheRun.id] = TheRun.oldApproved]) = OldApproved(r)
    /\ (IF Open = {} THEN archive ELSE WithoutFile(archive, TheRun.target)) = OldArchive(r)
    /\ (IF Open = {} THEN history ELSE TheRun.oldHistory) = history

LEMMA MappingIsBefore ==
    ASSUME NEW r, Reviewers = {r}
    PROVE  AloneInv(r) => MapsToBefore(r)
<1>1. CASE InTransaction(r)
  <2>1. Open # {}
    BY <1>1 DEF Open
  <2>2. TheRun = run[r]
    <3>1. (CHOOSE s \in Reviewers : InTransaction(s)) = r
      BY <1>1
    <3> QED
      BY <3>1 DEF TheRun
  <2> QED
    BY <1>1, <2>1, <2>2 DEF MapsToBefore, OldApproved, OldArchive, AloneInv
<1>2. CASE ~InTransaction(r)
  <2>1. Open = {}
    BY <1>2 DEF Open
  <2> QED
    BY <1>2, <2>1 DEF MapsToBefore, OldApproved, OldArchive
<1> QED
  BY <1>1, <1>2

LEMMA MappingIsBeforeNext ==
    ASSUME NEW r, Reviewers = {r}
    PROVE  AloneInv(r)' => MapsToBefore(r)'
<1>1. AloneInv(r) => MapsToBefore(r)
  BY MappingIsBefore
<1> QED
  BY <1>1, PTL

\* The ledger computes with the same helpers.
LEMMA LedgerHelpers ==
    /\ Ledger!Current = Current
    /\ \A Ar, p, t : Ledger!ArchiveTarget(Ar, p, t) = ArchiveTarget(Ar, p, t)
    /\ \A Ar, name, file : Ledger!WithFile(Ar, name, file) = WithFile(Ar, name, file)
    /\ \A out, pkg : Ledger!Acceptable(out, pkg) = Acceptable(out, pkg)
    /\ \A pkg, a : Ledger!Approvable(pkg, a) = Approvable(pkg, a)
    /\ \A h, p, out, pkg : Ledger!MakeRecord(h, p, out, pkg) = MakeRecord(h, p, out, pkg)
    /\ \A h, p, d, out, t, archived :
          Ledger!MakeEntry(h, p, d, out, t, archived) = MakeEntry(h, p, d, out, t, archived)
<1>1. \A S : Ledger!Maximum(S) = Maximum(S) /\ Ledger!Minimum(S) = Minimum(S)
  BY DEF Ledger!Maximum, Maximum, Ledger!Minimum, Minimum
<1>2. \A h, p : Ledger!ApprovalsOf(h, p) = ApprovalsOf(h, p)
  BY DEF Ledger!ApprovalsOf, ApprovalsOf
<1>3. \A h, p : /\ Ledger!NextRevision(h, p) = NextRevision(h, p)
               /\ Ledger!LatestApprovalId(h, p) = LatestApprovalId(h, p)
  BY <1>1, <1>2 DEF Ledger!NextRevision, NextRevision, Ledger!LatestApprovalId, LatestApprovalId
<1>4. \A h, day, prefix : Ledger!UniqueHistoryId(h, day, prefix) = UniqueHistoryId(h, day, prefix)
  BY <1>1 DEF Ledger!UniqueHistoryId, UniqueHistoryId
<1>5. ASSUME NEW Ar, NEW p, NEW t
      PROVE  Ledger!ArchiveTarget(Ar, p, t) = ArchiveTarget(Ar, p, t)
  <2> DEFINE name(n) == [pkg |-> p, stamp |-> t, n |-> n]
             Free == {n \in 1..(Cardinality(DOMAIN Ar) + 1) : name(n) \notin DOMAIN Ar}
  <2>0. Ledger!Cardinality(DOMAIN Ar) = Cardinality(DOMAIN Ar)
    BY Zenon DEF Ledger!Cardinality, Cardinality
  <2>1. Ledger!ArchiveTarget(Ar, p, t) = name(Ledger!Minimum(Free))
    BY <2>0 DEF Ledger!ArchiveTarget
  <2>2. ArchiveTarget(Ar, p, t) = name(Minimum(Free))
    BY DEF ArchiveTarget
  <2> HIDE DEF name, Free
  <2> QED
    BY <1>1, <2>1, <2>2
<1>6. /\ Ledger!Current = Current
      /\ \A Ar, name, file : Ledger!WithFile(Ar, name, file) = WithFile(Ar, name, file)
  BY DEF Ledger!Current, Current, Ledger!WithFile, WithFile
<1>7. /\ \A out, pkg : Ledger!Acceptable(out, pkg) = Acceptable(out, pkg)
      /\ \A pkg, a : Ledger!Approvable(pkg, a) = Approvable(pkg, a)
  BY <1>6 DEF Ledger!Acceptable, Acceptable, Ledger!PackageSound, PackageSound, Ledger!BoundTo,
     BoundTo, Ledger!Approvable, Approvable, Ledger!AcquisitionCurrent, AcquisitionCurrent
<1>8. \A h, p, out, pkg : Ledger!MakeRecord(h, p, out, pkg) = MakeRecord(h, p, out, pkg)
  BY <1>3 DEF Ledger!MakeRecord, MakeRecord
<1>9. \A h, p, d, out, t, archived :
          Ledger!MakeEntry(h, p, d, out, t, archived) = MakeEntry(h, p, d, out, t, archived)
  BY <1>3, <1>4 DEF Ledger!MakeEntry, MakeEntry
<1> QED
  BY <1>5, <1>6, <1>7, <1>8, <1>9

\* A decision of the ledger, from the stores A, Ar and h to the stores B, Br and g.
Decision(A, Ar, h, B, Br, g, p, t, body, v) ==
    LET out == [body |-> body, binds |-> v]
        pkg == [version |-> v, dataset |-> Current, acq |-> 0, intact |-> TRUE]
        target == IF A[p] = None THEN None ELSE ArchiveTarget(Ar, p, t)
    IN  \/ /\ Acceptable(out, pkg)
           /\ Approvable(pkg, pkg.acq)
           /\ B = [A EXCEPT ![p] = MakeRecord(h, p, out, pkg)]
           /\ Br = IF target = None THEN Ar ELSE WithFile(Ar, target, A[p])
           /\ g = Append(h, MakeEntry(h, p, "approve", out, t, target))
        \/ /\ g = Append(h, MakeEntry(h, p, "reject", out, t, None))
           /\ B = A
           /\ Br = Ar

Decided(A, Ar, h, B, Br, g) ==
    \E p \in Packages, t \in 0..MaxTime, body \in Bodies, v \in 1..MaxBuilds :
        Decision(A, Ar, h, B, Br, g, p, t, body, v)

\* A commit is an atomic decision of the ledger.
LEMMA CommitsToLedger ==
    ASSUME NEW r, Reviewers = {r}, IInv, AloneInv(r), SoundInv, BoundsInv(r), InstallHistory(r)
    PROVE  Decided(OldApproved(r), OldArchive(r), history,
                   OldApproved(r)', OldArchive(r)', history')
<1> DEFINE p == run[r].id
           t == run[r].stamp
           body == run[r].out.body
           v == run[r].out.binds
           out == [body |-> body, binds |-> v]
           pkg == [version |-> v, dataset |-> Current, acq |-> 0, intact |-> TRUE]
           target == IF OldApproved(r)[p] = None THEN None
                     ELSE ArchiveTarget(OldArchive(r), p, t)
<1>1. /\ OldApproved(r)' = approved /\ OldArchive(r)' = archive
      /\ history' = Append(history, NewEntry(r))
  BY AloneInstallsHistory
<1>2. /\ p \in Packages /\ run[r].out \in Output /\ run[r].pkg \in PackageFile
      /\ run[r].decision \in Decisions /\ run[r].hist = history
  BY CommitIsAtomic
<1>3. GateInv(r) /\ RunInv(r) /\ run[r].pc = "installHistory" /\ run[r].pc \in WritingPcs
  BY DEF SoundInv, IInv, InstallHistory, WritingPcs
<1>4. run[r].out = inbound[p] /\ inbound[p] \in Output
  BY <1>3 DEF GateInv, RunInv, RunOK
<1>5. v \in 1..MaxBuilds /\ t \in 0..MaxTime /\ body \in Bodies
  <2>1. inbound[p] # None
    BY <1>4, StandInsAssumption
  <2> QED
    BY <1>2, <1>4, <2>1 DEF BoundsInv, Output
<1>6. run[r].out = out
  BY <1>2 DEF Output
<1>7. CASE run[r].decision # "approve"
  <2>1. approved = OldApproved(r) /\ archive = OldArchive(r) /\ run[r].target = None
        /\ run[r].decision = "reject"
    BY <1>2, <1>7, CommitIsAtomic DEF Decisions
  <2>2. NewEntry(r) = MakeEntry(history, p, "reject", out, t, None)
    BY <1>2, <1>6, <2>1 DEF NewEntry
  <2> HIDE DEF p, t, body, v
  <2> QED
    BY <1>1, <1>2, <1>5, <2>1, <2>2 DEF Decided, Decision
<1>8. CASE run[r].decision = "approve"
  <2>1. /\ Acceptable(run[r].out, run[r].pkg) /\ run[r].pkg.dataset = Current
    BY <1>3, <1>8 DEF GateInv, RunInv
  <2>2. v = run[r].pkg.version /\ body \in SoundBodies
    BY <2>1 DEF Acceptable, BoundTo
  <2>3. Acceptable(out, pkg) /\ Approvable(pkg, pkg.acq)
    BY <2>2 DEF Acceptable, BoundTo, PackageSound, Approvable, AcquisitionCurrent
  <2>4. NewRecord(r) = MakeRecord(history, p, out, pkg)
    BY <1>2, <1>6, <2>1, <2>2 DEF NewRecord, MakeRecord
  <2>5. /\ approved = [OldApproved(r) EXCEPT ![p] = NewRecord(r)]
        /\ run[r].target = target
        /\ archive = IF run[r].target = None THEN OldArchive(r)
                     ELSE WithFile(OldArchive(r), run[r].target, OldApproved(r)[p])
    BY <1>8, CommitIsAtomic
  <2>6. NewEntry(r) = MakeEntry(history, p, "approve", out, t, target)
    BY <1>2, <1>6, <1>8, <2>5 DEF NewEntry
  <2> HIDE DEF p, t, body, v
  <2> QED
    BY <1>1, <1>2, <1>5, <2>3, <2>4, <2>5, <2>6 DEF Decided, Decision
<1> QED
  BY <1>7, <1>8

LEMMA NextImplements ==
    ASSUME NEW r, Reviewers = {r}, ~CanCrash, ~RestoresTear, ~AnalysisRebuilds,
           IInv, AloneInv(r), SoundInv, BoundsInv(r), [Next]_vars
    PROVE  [Ledger!LedgerNext]_(Ledger!ledgerVars)
<1> DEFINE A == IF Open = {} THEN approved
                ELSE [approved EXCEPT ![TheRun.id] = TheRun.oldApproved]
           Ar == IF Open = {} THEN archive ELSE WithoutFile(archive, TheRun.target)
           h == IF Open = {} THEN history ELSE TheRun.oldHistory
<1>1. /\ A = OldApproved(r) /\ Ar = OldArchive(r) /\ h = history
  BY MappingIsBefore DEF MapsToBefore
<1>2. AloneInv(r)' => A' = OldApproved(r)' /\ Ar' = OldArchive(r)' /\ h' = history'
  BY MappingIsBeforeNext DEF MapsToBefore
<1>3. AloneInv(r)' /\ (Quiet(r) \/ InstallHistory(r))
  BY NextAlone DEF Crash
<1>4. CASE Quiet(r)
  <2>1. A' = A /\ Ar' = Ar /\ h' = h
    BY <1>1, <1>2, <1>3, <1>4 DEF Quiet
  <2> QED
    BY <2>1 DEF Ledger!ledgerVars
<1>5. CASE InstallHistory(r)
  <2>1. A' = OldApproved(r)' /\ Ar' = OldArchive(r)' /\ h' = history'
    BY <1>2, <1>3
  <2> HIDE DEF A, Ar, h
  <2>2. Decided(A, Ar, h, A', Ar', h')
    BY <1>1, <1>5, <2>1, CommitsToLedger
  <2>3. PICK p \in Packages, t \in 0..MaxTime, body \in Bodies, v \in 1..MaxBuilds :
           Decision(A, Ar, h, A', Ar', h', p, t, body, v)
    BY <2>2 DEF Decided
  <2> DEFINE out == [body |-> body, binds |-> v]
             pkg == [version |-> v, dataset |-> Current, acq |-> 0, intact |-> TRUE]
  <2>4. Ledger!ApproveAtomically(p, out, pkg, t) \/ Ledger!RejectAtomically(p, out, t)
    BY <2>3, LedgerHelpers
       DEF Decision, Ledger!ApproveAtomically, Ledger!RejectAtomically, A, Ar, h
  <2>5. Ledger!LedgerNext
    BY <2>4, LedgerHelpers DEF Ledger!LedgerNext
  <2> QED
    BY <2>5
<1> QED
  BY <1>3, <1>4, <1>5

LEMMA InitImplements ==
    ASSUME NEW r, Reviewers = {r}
    PROVE  Init => Ledger!LedgerInit
<1> SUFFICES ASSUME Init PROVE Ledger!LedgerInit
  OBVIOUS
<1>1. AloneInv(r)
  BY InitAlone
<1>2. MapsToBefore(r)
  BY <1>1, MappingIsBefore
<1>3. OldApproved(r) = approved /\ OldArchive(r) = archive
  BY DEF Init, OldApproved, OldArchive, InTransaction, IdleRun, WritingPcs, RestoringPcs
<1> QED
  BY <1>2, <1>3 DEF Init, MapsToBefore, Ledger!LedgerInit

\* Nobody can tell the script from the atomic ledger: a decision happens when
\* its history is installed, for the reply and the package the gates accepted,
\* and a decision that fails on the way has never happened
\* (review_decision.py:63-118 and 284-383).
THEOREM ImplementsTheLedger ==
    ASSUME NEW r, Reviewers = {r}, ~CanCrash, ~RestoresTear, ~AnalysisRebuilds, InputsSettle
    PROVE  Spec => ImplementsLedger
<1>1. Init => Ledger!LedgerInit
  BY InitImplements
<1>2. IInv /\ AloneInv(r) /\ SoundInv /\ BoundsInv(r) /\ [Next]_vars
         => [Ledger!LedgerNext]_(Ledger!ledgerVars)
  BY NextImplements
<1> QED
  BY <1>1, <1>2, Invariance, AloneAlways, SoundAlways, BoundsAlways, PTL
     DEF Spec, ImplementsLedger, Ledger!LedgerSpec

------------------------------------------------------------------------------
(* ... and the site built between decisions shows what was decided.        *)

\* The approved record of a package is only replaced by a later one, and what
\* is recorded stays recorded.
LEMMA OnlyLater ==
    ASSUME NEW r, Reviewers = {r}, ~CanCrash, ~RestoresTear, ~AnalysisRebuilds,
           IInv, AloneInv(r), MatchInv(r), [Next]_vars
    PROVE  /\ \A p \in Packages : OldApproved(r)[p] # None =>
                /\ OldApproved(r)'[p] # None
                /\ OldApproved(r)[p].revision \in Nat /\ OldApproved(r)'[p].revision \in Nat
                /\ OldApproved(r)[p].revision <= OldApproved(r)'[p].revision
           /\ \A p, record : Recorded(history, p, record) => Recorded(history', p, record)
<1>1. r \in Reviewers /\ GoodHistory(history) /\ history \in Seq(Entry)
  BY DEF AloneInv, IInv, StoresInv, GoodHistory
<1>2. OldApproved(r) \in [Packages -> StoredRecord]
  BY <1>1, AloneFacts DEF OldApproved, RunState
<1>3. ASSUME NEW p \in Packages, OldApproved(r)[p] # None
      PROVE  /\ OldApproved(r)[p] \in Record /\ OldApproved(r)[p].revision \in Nat
             /\ NextRevision(history, p) = OldApproved(r)[p].revision + 1
  <2>1. /\ ApprovalsOf(history, p) # {} /\ OldApproved(r)[p] # Torn
        /\ OldApproved(r)[p].revision = history[Maximum(ApprovalsOf(history, p))].revision
    BY <1>3 DEF MatchInv, Matches
  <2>2. NextRevision(history, p) = history[Maximum(ApprovalsOf(history, p))].revision + 1
    BY <1>1, <2>1, LastApproval
  <2>3. OldApproved(r)[p] \in Record
    BY <1>2, <1>3, <2>1 DEF StoredRecord
  <2> QED
    BY <2>1, <2>2, <2>3 DEF Record
<1>4. CASE Quiet(r)
  <2>1. \A p \in Packages : OldApproved(r)[p] # None =>
                /\ OldApproved(r)[p].revision \in Nat
                /\ OldApproved(r)[p].revision <= OldApproved(r)[p].revision
    BY <1>3
  <2> QED
    BY <1>4, <2>1 DEF Quiet
<1>5. CASE InstallHistory(r)
  <2> DEFINE e == NewEntry(r)
  <2>1. /\ OldApproved(r)' = approved /\ history' = Append(history, e)
    BY <1>1, <1>5, AloneInstallsHistory
  <2>2. /\ run[r].id \in Packages /\ run[r].out \in Output /\ run[r].pkg \in PackageFile
        /\ run[r].stamp \in Nat /\ run[r].target \in ArchiveName \cup {None}
        /\ run[r].decision \in Decisions /\ run[r].hist = history
    BY <1>1, <1>5, CommitIsAtomic
  <2>3. e \in Entry
    BY <1>1, <2>2, MakeEntryType DEF NewEntry
  <2>4. ASSUME NEW p, NEW record, Recorded(history, p, record)
        PROVE  Recorded(history', p, record)
    <3> HIDE DEF e
    <3>1. /\ \A i \in DOMAIN history : history'[i] = history[i]
          /\ ApprovalsOf(history, p) \subseteq ApprovalsOf(history', p)
      BY <1>1, <2>1, <2>3, AppendedApprovals
    <3> QED
      BY <2>4, <3>1 DEF Recorded, ApprovalsOf
  <2>5. CASE run[r].decision # "approve"
    <3>1. OldApproved(r)' = OldApproved(r)
      BY <1>1, <1>5, <2>1, <2>5, CommitIsAtomic
    <3>2. \A p \in Packages : OldApproved(r)[p] # None =>
                /\ OldApproved(r)[p].revision \in Nat
                /\ OldApproved(r)[p].revision <= OldApproved(r)[p].revision
      BY <1>3
    <3> QED
      BY <2>4, <3>1, <3>2
  <2>6. CASE run[r].decision = "approve"
    <3>1. OldApproved(r)' = [OldApproved(r) EXCEPT ![run[r].id] = NewRecord(r)]
      BY <1>1, <1>5, <2>1, <2>6, CommitIsAtomic
    <3>2. NewRecord(r) # None /\ NewRecord(r).revision = NextRevision(history, run[r].id)
      BY <1>1, <2>2, MakeRecordType, StandInsAssumption DEF NewRecord, MakeRecord
    <3>3. ASSUME NEW p \in Packages, OldApproved(r)[p] # None
          PROVE  /\ OldApproved(r)'[p] # None
                 /\ OldApproved(r)[p].revision \in Nat /\ OldApproved(r)'[p].revision \in Nat
                 /\ OldApproved(r)[p].revision <= OldApproved(r)'[p].revision
      <4>1. CASE p = run[r].id
        <5>1. OldApproved(r)'[p] = NewRecord(r)
          BY <1>2, <2>2, <3>1, <4>1
        <5> QED
          BY <1>3, <3>2, <3>3, <4>1, <5>1
      <4>2. CASE p # run[r].id
        <5>1. OldApproved(r)'[p] = OldApproved(r)[p]
          BY <1>2, <2>2, <3>1, <4>2
        <5> QED
          BY <1>3, <3>3, <5>1
      <4> QED
        BY <4>1, <4>2
    <3> QED
      BY <2>4, <3>3
  <2> QED
    BY <2>5, <2>6
<1> QED
  BY <1>4, <1>5, NextAlone DEF Crash

\* What is shown stays in order while decisions go on.
LEMMA ShownStays ==
    ASSUME NEW r, Reviewers = {r}, ~CanCrash, ~RestoresTear, ~AnalysisRebuilds,
           IInv, AloneInv(r), MatchInv(r), [Next]_vars, NEW shown, ShownInv(r, shown)
    PROVE  \A p \in DOMAIN shown :
              /\ p \in Packages
              /\ shown[p] \in Record
              /\ Recorded(history', p, shown[p])
              /\ OldApproved(r)'[p] # None
              /\ shown[p].revision <= OldApproved(r)'[p].revision
<1> SUFFICES ASSUME NEW p \in DOMAIN shown
             PROVE  /\ p \in Packages
                    /\ shown[p] \in Record
                    /\ Recorded(history', p, shown[p])
                    /\ OldApproved(r)'[p] # None
                    /\ shown[p].revision <= OldApproved(r)'[p].revision
  OBVIOUS
<1>1. /\ p \in Packages /\ shown[p] \in Record /\ Recorded(history, p, shown[p])
      /\ OldApproved(r)[p] # None /\ shown[p].revision <= OldApproved(r)[p].revision
  BY DEF ShownInv
<1>2. /\ Recorded(history', p, shown[p]) /\ OldApproved(r)'[p] # None
      /\ OldApproved(r)[p].revision \in Nat /\ OldApproved(r)'[p].revision \in Nat
      /\ OldApproved(r)[p].revision <= OldApproved(r)'[p].revision
  BY <1>1, OnlyLater
<1>3. shown[p].revision \in Nat
  BY <1>1 DEF Record
<1> QED
  BY <1>1, <1>2, <1>3

LEMMA InitSite == ASSUME NEW r PROVE DashboardInit => SiteInv(r)
BY OutlookIsAPayload
   DEF DashboardInit, SiteInv, SiteShape, ShownInv, Published, IdleBuilder, NoRecords

\* A record that is loaded between decisions is one the Outlook may show.
LEMMA LoadedInOrder ==
    ASSUME NEW r, Reviewers = {r}, BuildsSettle, IInv, AloneInv(r), MatchInv(r),
           NEW p \in Packages, LoadRecord(p)
    PROVE  /\ approved[p] \in Record /\ OldApproved(r)[p] = approved[p]
           /\ approved[p].revision \in Nat /\ Publishable(approved[p])
           /\ Recorded(history, p, approved[p])
<1>1. ~InTransaction(r)
  BY DEF LoadRecord, MayRun, AllIdle, InTransaction, WritingPcs, RestoringPcs
<1>2. OldApproved(r) = approved
  BY <1>1 DEF OldApproved
<1>3. approved[p] \in Record /\ IsCurrent(approved[p]) /\ approved[p] \notin {None, Torn}
  BY DEF LoadRecord, IInv, StoresInv, StoredRecord
<1>4. /\ ApprovalsOf(history, p) # {}
      /\ approved[p].revision = history[Maximum(ApprovalsOf(history, p))].revision
      /\ approved[p].assessment = history[Maximum(ApprovalsOf(history, p))].content
  BY <1>2, <1>3 DEF MatchInv, Matches
<1>5. Maximum(ApprovalsOf(history, p)) \in ApprovalsOf(history, p)
  BY <1>4, LastApproval DEF AloneInv, IInv, StoresInv
<1>6. Recorded(history, p, approved[p])
  BY <1>4, <1>5 DEF Recorded
<1> QED
  BY <1>2, <1>3, <1>6 DEF Record, IsCurrent, Publishable

LEMMA BuildKeepsSite ==
    ASSUME NEW r, Reviewers = {r}, BuildsSettle, IInv, AloneInv(r), MatchInv(r),
           SiteInv(r), BuildSite
    PROVE  SiteInv(r)'
<1>1. UNCHANGED vars
  BY DEF BuildSite, ListApproved, LoadRecord, LoadRaises, WritePayload, WriteFails
<1>2. history' = history /\ OldApproved(r)' = OldApproved(r)
  BY <1>1 DEF vars, stores, OldApproved, InTransaction
<1>3. ASSUME NEW shown, ShownInv(r, shown)
      PROVE  \A p \in DOMAIN shown :
                /\ p \in Packages
                /\ shown[p] \in Record
                /\ Recorded(history', p, shown[p])
                /\ OldApproved(r)'[p] # None
                /\ shown[p].revision <= OldApproved(r)'[p].revision
  BY <1>2, <1>3 DEF ShownInv
<1>4. ShownInv(r, NoRecords)
  BY DEF ShownInv, NoRecords
<1>5. SiteShape /\ ShownInv(r, Published) /\ ShownInv(r, builder.shown)
  BY DEF SiteInv
<1>6. CASE ListApproved
  <2>1. /\ builder'.pc = "load" /\ builder'.shown = NoRecords
        /\ builder'.todo = {p \in Packages : approved[p] # None}
        /\ site' = site /\ Published' = Published
        /\ SiteShape'
    BY <1>5, <1>6 DEF ListApproved, IdleBuilder, Published, SiteShape
  <2>2. ~InTransaction(r)
    BY <1>6 DEF ListApproved, MayRun, AllIdle, InTransaction, WritingPcs, RestoringPcs
  <2>3. \A p \in DOMAIN Published : p \in builder'.todo
    BY <1>5, <2>1, <2>2 DEF ShownInv, OldApproved
  <2>4. ShownInv(r, Published)' /\ ShownInv(r, builder.shown)'
    BY <1>3, <1>4, <1>5, <2>1 DEF ShownInv
  <2> QED
    BY <2>1, <2>3, <2>4 DEF SiteInv
<1>7. ASSUME NEW p \in Packages, LoadRecord(p) PROVE SiteInv(r)'
  <2> DEFINE new == WithFile(builder.shown, p, approved[p])
  <2>1. /\ approved[p] \in Record /\ OldApproved(r)[p] = approved[p]
        /\ approved[p].revision \in Nat /\ Publishable(approved[p])
        /\ Recorded(history, p, approved[p])
    BY <1>7, LoadedInOrder
  <2>2. /\ builder'.pc = builder.pc /\ builder'.shown = new
        /\ builder'.todo = builder.todo \ {p} /\ builder.pc = "load"
        /\ site' = site /\ Published' = Published
        /\ SiteShape'
    BY <1>5, <1>7, <2>1 DEF LoadRecord, Published, SiteShape
  <2>3. /\ DOMAIN new = DOMAIN builder.shown \cup {p} /\ new[p] = approved[p]
        /\ \A q \in DOMAIN builder.shown : q # p => new[q] = builder.shown[q]
    BY DEF WithFile
  <2> HIDE DEF new
  <2>4. approved[p] # None
    BY <2>1, StandInsAssumption
  <2>5. ShownInv(r, new)
    BY <1>5, <2>1, <2>3, <2>4 DEF ShownInv
  <2>6. ASSUME NEW q \in DOMAIN Published
        PROVE  \/ q \in builder'.todo
               \/ q \in DOMAIN new /\ Published[q].revision <= new[q].revision
    <3>1. CASE q = p
      BY <1>5, <2>1, <2>3, <3>1 DEF ShownInv
    <3>2. CASE q # p
      BY <2>2, <2>3, <3>2 DEF SiteInv
    <3> QED
      BY <3>1, <3>2
  <2>7. ShownInv(r, Published)' /\ ShownInv(r, builder.shown)'
    BY <1>3, <1>5, <2>2, <2>5 DEF ShownInv
  <2> QED
    BY <2>2, <2>6, <2>7 DEF SiteInv
<1>8. ASSUME NEW p \in Packages, LoadRaises(p) PROVE SiteInv(r)'
  <2>1. /\ builder'.pc = "idle" /\ builder'.shown = NoRecords
        /\ site' = site /\ Published' = Published
        /\ SiteShape'
    BY <1>5, <1>8 DEF LoadRaises, IdleBuilder, Published, SiteShape
  <2>2. ShownInv(r, Published)' /\ ShownInv(r, builder.shown)'
    BY <1>3, <1>4, <1>5, <2>1 DEF ShownInv
  <2> QED
    BY <2>1, <2>2 DEF SiteInv
<1>9. CASE WritePayload
  <2> DEFINE f == Payloads[builder.next]
             new == [build |-> siteBuilds,
                     shown |-> IF f = Outlook THEN builder.shown ELSE NoRecords]
  <2>1. site' = [site EXCEPT ![f] = new] /\ Outlook \in DOMAIN site
    BY <1>5, <1>9, OutlookIsAPayload DEF WritePayload, SiteShape
  <2>2. new.shown = IF f = Outlook THEN builder.shown ELSE NoRecords
    OBVIOUS
  <2> HIDE DEF new
  <2>3. SiteShape'
    BY <1>5, <1>9, <2>1 DEF WritePayload, IdleBuilder, SiteShape
  <2>4. Published' \in {Published, NoRecords}
        \/ (Published' = builder.shown /\ f = Outlook)
    BY <2>1, <2>2 DEF Published
  <2>5. ShownInv(r, Published)'
    BY <1>3, <1>4, <1>5, <2>4 DEF ShownInv
  <2>6. CASE builder.next = Len(Payloads)
    <3>1. builder'.pc = "idle" /\ builder'.shown = NoRecords
      BY <1>9, <2>6 DEF WritePayload, IdleBuilder
    <3>2. ShownInv(r, builder.shown)'
      BY <1>3, <1>4, <3>1 DEF ShownInv
    <3> QED
      BY <2>3, <2>5, <3>1, <3>2 DEF SiteInv
  <2>7. CASE builder.next # Len(Payloads)
    <3>1. /\ builder'.pc = "load" /\ builder'.shown = builder.shown
          /\ builder'.todo = {} /\ builder.todo = {} /\ builder.pc = "load"
      BY <1>5, <1>9, <2>7 DEF WritePayload, SiteShape
    <3>2. ShownInv(r, builder.shown)'
      BY <1>3, <1>5, <3>1 DEF ShownInv
    <3>3. \A p \in DOMAIN builder.shown : builder.shown[p].revision <= builder.shown[p].revision
      BY <1>5 DEF ShownInv, Record
    <3>4. \A p \in DOMAIN Published' : /\ p \in DOMAIN builder'.shown
                                       /\ Published'[p].revision <= builder'.shown[p].revision
      <4>1. CASE Published' = Published
        BY <3>1, <4>1 DEF SiteInv
      <4>2. CASE Published' = NoRecords
        BY <4>2 DEF NoRecords
      <4>3. CASE Published' = builder.shown
        BY <3>1, <3>3, <4>3
      <4> QED
        BY <2>4, <4>1, <4>2, <4>3
    <3> QED
      BY <2>3, <2>5, <3>2, <3>4 DEF SiteInv
  <2> QED
    BY <2>6, <2>7
<1>10. CASE WriteFails
  <2> DEFINE f == Payloads[builder.next]
  <2>1. builder' = IdleBuilder /\ (site' = site \/ site' = [site EXCEPT ![f] = Torn])
    BY <1>10 DEF WriteFails
  <2>2. builder'.pc = "idle" /\ builder'.shown = NoRecords /\ SiteShape'
    BY <1>5, <2>1 DEF IdleBuilder, SiteShape
  <2>3. Outlook \in DOMAIN site
    BY <1>5, OutlookIsAPayload DEF SiteShape
  <2>4. Published' \in {Published, NoRecords}
    BY <2>1, <2>3 DEF Published
  <2>5. ShownInv(r, Published)' /\ ShownInv(r, builder.shown)'
    BY <1>3, <1>4, <1>5, <2>2, <2>4 DEF ShownInv
  <2> QED
    BY <2>2, <2>5 DEF SiteInv
<1> QED
  BY <1>6, <1>7, <1>8, <1>9, <1>10 DEF BuildSite

LEMMA NextSite ==
    ASSUME NEW r, Reviewers = {r}, ~CanCrash, ~RestoresTear, ~AnalysisRebuilds, BuildsSettle,
           IInv, AloneInv(r), MatchInv(r), SiteInv(r), [DashboardNext]_allVars
    PROVE  SiteInv(r)'
<1>1. CASE BuildSite
  BY <1>1, BuildKeepsSite
<1>2. CASE [Next]_vars /\ UNCHANGED siteVars
  <2>1. site' = site /\ builder' = builder /\ Published' = Published
    BY <1>2 DEF siteVars, Published
  <2>2. ShownInv(r, Published)' /\ ShownInv(r, builder.shown)'
    BY <1>2, <2>1, ShownStays DEF SiteInv, ShownInv
  <2> QED
    BY <2>1, <2>2 DEF SiteInv, SiteShape
<1> QED
  BY <1>1, <1>2 DEF DashboardNext, allVars

LEMMA SiteAlways ==
    ASSUME NEW r, Reviewers = {r}, ~CanCrash, ~RestoresTear, ~AnalysisRebuilds, BuildsSettle
    PROVE  DashboardSpec => []SiteInv(r)
<1>1. IInv /\ AloneInv(r) /\ MatchInv(r) /\ SiteInv(r) /\ [DashboardNext]_allVars => SiteInv(r)'
  BY NextSite
<1>2. DashboardInit => SiteInv(r)
  BY InitSite
<1>3. Spec => []AloneInv(r) /\ []MatchInv(r)
  BY AloneAlways, MatchAlways
<1> QED
  BY <1>1, <1>2, <1>3, Invariance, BuilderOnlyReads, PTL DEF DashboardSpec

\* Every record the Outlook shows was approved by an entry of the history: a
\* site built between decisions publishes no reply whose approval was undone or
\* never recorded (build_dashboard.py:255-312 beside review_decision.py:63-118).
THEOREM PublishedStaysRecorded ==
    ASSUME NEW r, Reviewers = {r}, ~CanCrash, ~RestoresTear, ~AnalysisRebuilds, BuildsSettle
    PROVE  DashboardSpec => []PublishedIsRecorded
<1>1. SiteInv(r) => PublishedIsRecorded
  BY DEF SiteInv, ShownInv, Recorded, PublishedIsRecorded
<1> QED
  BY <1>1, SiteAlways, PTL

\* A package the Outlook shows is shown until a later revision replaces it: no
\* rejection, rolled-back decision or failed build withdraws it or brings an
\* earlier revision back (build_dashboard.py:255-312 and 1724-1741).
THEOREM OutlookOnlyAdvances ==
    ASSUME NEW r, Reviewers = {r}, ~CanCrash, ~RestoresTear, ~AnalysisRebuilds, BuildsSettle
    PROVE  DashboardSpec => OutlookNeverRegresses
<1> DEFINE Advances == site'[Outlook] # Torn =>
               \A p \in DOMAIN Published :
                   /\ p \in DOMAIN Published'
                   /\ Published'[p].revision >= Published[p].revision
<1>1. ASSUME SiteInv(r), [DashboardNext]_allVars PROVE [Advances]_allVars
  <2>1. SUFFICES ASSUME site'[Outlook] # Torn, NEW p \in DOMAIN Published
                 PROVE  /\ p \in DOMAIN Published'
                        /\ Published'[p].revision >= Published[p].revision
    OBVIOUS
  <2>2. Published[p].revision \in Nat
    BY <1>1 DEF SiteInv, ShownInv, Record
  <2>3. CASE Published' = Published
    BY <2>2, <2>3
  <2>4. Outlook \in DOMAIN site
    BY <1>1, OutlookIsAPayload DEF SiteInv, SiteShape
  <2>5. CASE WritePayload
    <3> DEFINE f == Payloads[builder.next]
               new == [build |-> siteBuilds,
                       shown |-> IF f = Outlook THEN builder.shown ELSE NoRecords]
    <3>1. site' = [site EXCEPT ![f] = new] /\ builder.pc = "load" /\ builder.todo = {}
      BY <2>5 DEF WritePayload
    <3>2. new.shown = IF f = Outlook THEN builder.shown ELSE NoRecords
      OBVIOUS
    <3> HIDE DEF new
    <3>3. CASE f = Outlook
      <4>1. Published' = builder.shown
        BY <2>1, <2>4, <3>1, <3>2, <3>3 DEF Published
      <4>2. p \in DOMAIN builder.shown /\ Published[p].revision <= builder.shown[p].revision
        BY <1>1, <3>1 DEF SiteInv
      <4>3. builder.shown[p].revision \in Nat
        BY <1>1, <4>2 DEF SiteInv, ShownInv, Record
      <4> QED
        BY <2>2, <4>1, <4>2, <4>3
    <3>4. CASE f # Outlook
      BY <2>3, <2>4, <3>1, <3>4 DEF Published
    <3> QED
      BY <3>3, <3>4
  <2>6. CASE WriteFails
    <3> DEFINE f == Payloads[builder.next]
    <3>1. site' = site \/ site' = [site EXCEPT ![f] = Torn]
      BY <2>6 DEF WriteFails
    <3>2. site'[Outlook] = site[Outlook]
      BY <2>1, <2>4, <3>1
    <3> QED
      BY <2>3, <3>2 DEF Published
  <2>7. CASE site' = site
    BY <2>3, <2>7 DEF Published
  <2> QED
    BY <1>1, <2>5, <2>6, <2>7
       DEF DashboardNext, BuildSite, ListApproved, LoadRecord, LoadRaises, siteVars, allVars
<1> QED
  BY <1>1, SiteAlways, PTL DEF DashboardSpec, OutlookNeverRegresses
=============================================================================
