---------------------------- MODULE ReviewRecords ----------------------------
(***************************************************************************)
(* The records the human-review workflow keeps on disk, and the pure       *)
(* helpers of scripts/review_decision.py that compute the next one: the    *)
(* revision number, the history identifier, the archive file name, the     *)
(* history entry and the approved record.                                  *)
(*                                                                         *)
(* A SHA-256 is represented by the value it digests (digests are taken to  *)
(* be injective); only the six-digit prefix that enters a history ID can   *)
(* collide.                                                                *)
(***************************************************************************)
EXTENDS Integers, Sequences, FiniteSets

CONSTANTS
    Packages,       \* package identifiers, PKG-YYYYMMDD-NNN
    Bodies,         \* the texts an AI reply may carry
    SoundBodies,    \* the replies no content rule of validate_output rejects
    SecondsPerDay,  \* clock ticks that share one HIST-YYYYMMDD date
    None,           \* a missing file, or a JSON null
    Torn            \* the bytes a failed write leaves behind

ASSUME RecordsAssumption ==
    /\ SoundBodies \subseteq Bodies
    /\ SecondsPerDay \in Nat \ {0}

Current == "current_publication"
Datasets == {Current, "technical_demo"}

\* data/review/packages/<id>.json.  version stands for package_sha256, acq for
\* acquisition_summary.acquisition_state_sha256; intact says that the contents
\* still hash to the recorded package_sha256.
PackageFile == [version : Nat, dataset : Datasets, acq : Nat, intact : BOOLEAN]

\* data/review/inbound/<id>.json.  binds stands for the five binding fields.
Output == [body : Bodies, binds : Nat]

HistoryId == [day : Nat, prefix : Bodies, n : Nat \ {0}]
ArchiveName == [pkg : Packages, stamp : Nat, n : Nat \ {0}]
Decisions == {"approve", "reject"}

\* An entry of data/assessments/assessment_history.json.
Entry == [id : HistoryId, subject : Packages, action : {"approved", "rejected"},
          revision : Nat, content : Output,
          supersedes : HistoryId \cup {None}, archived : ArchiveName \cup {None}]

\* data/assessments/approved/<id>.json.  version and dataset are
\* input_package_sha256 and input_dataset.
Record == [revision : Nat, supersedes : HistoryId \cup {None},
           version : Nat, dataset : Datasets, assessment : Output]

\* A missing or a torn file is neither a record nor a history, a missing one is
\* not a reply, and null is not a file name.
ASSUME StandInsAssumption ==
    /\ None # Torn /\ None \notin Output /\ None \notin ArchiveName
    /\ \A x \in {None, Torn} : x \notin Record /\ x \notin Seq(Entry)

------------------------------------------------------------------------------
\* package_provenance_problems finds nothing: the contents still hash to the
\* recorded package_sha256.
PackageSound(pkg) == pkg.intact

\* Fault: the binding fields are not compared.
BoundToAny(out, pkg) == TRUE

\* binding_problems finds nothing: the reply answers this version of the package.
BoundTo(out, pkg) == out.binds = pkg.version

\* validate_output finds nothing.  The rules that look only inside the reply
\* are the membership of its body in SoundBodies.
Acceptable(out, pkg) ==
    /\ PackageSound(pkg)
    /\ BoundTo(out, pkg)
    /\ out.body \in SoundBodies

\* acquisition_currency_problems finds nothing, against the acquisition state
\* acq (None when the loader raises ValueError).
AcquisitionCurrent(pkg, acq) == pkg.acq = acq

\* approval_provenance_problems finds nothing.
Approvable(pkg, acq) ==
    /\ pkg.dataset = Current
    /\ PackageSound(pkg)
    /\ AcquisitionCurrent(pkg, acq)

Maximum(S) == CHOOSE m \in S : \A x \in S : x <= m
Minimum(S) == CHOOSE m \in S : \A x \in S : m <= x

ApprovalsOf(history, p) ==
    {i \in DOMAIN history : history[i].subject = p /\ history[i].action = "approved"}

\* Fault: one less than the number of approvals.
NextRevisionOffByOne(history, p) == Cardinality(ApprovalsOf(history, p)) - 1

NextRevision(history, p) ==
    IF ApprovalsOf(history, p) = {} THEN 0
    ELSE Maximum({history[i].revision : i \in ApprovalsOf(history, p)}) + 1

LatestApprovalId(history, p) ==
    IF ApprovalsOf(history, p) = {} THEN None
    ELSE history[Maximum(ApprovalsOf(history, p))].id

\* Fault: the base ID, taken or not.
UniqueHistoryIdBase(history, day, prefix) == [day |-> day, prefix |-> prefix, n |-> 1]

\* The base ID when it is free, otherwise the first free suffix 2, 3, ...
\* Among Len(history) + 1 candidates one is free.
UniqueHistoryId(history, day, prefix) ==
    LET id(n) == [day |-> day, prefix |-> prefix, n |-> n]
        taken == {history[i].id : i \in DOMAIN history}
    IN  id(Minimum({n \in 1..(Len(history) + 1) : id(n) \notin taken}))

\* Fault: the name without suffix, taken or not.
ArchiveTargetBase(archive, p, stamp) == [pkg |-> p, stamp |-> stamp, n |-> 1]

\* The name without suffix when it is free, otherwise the first free suffix.
ArchiveTarget(archive, p, stamp) ==
    LET name(n) == [pkg |-> p, stamp |-> stamp, n |-> n]
    IN  name(Minimum({n \in 1..(Cardinality(DOMAIN archive) + 1) :
                        name(n) \notin DOMAIN archive}))

\* The history entry main() appends for this decision.
MakeEntry(history, p, decision, out, stamp, archived) ==
    LET approve == decision = "approve"
    IN  [id |-> UniqueHistoryId(history, stamp \div SecondsPerDay, out.body),
         subject |-> p,
         action |-> IF approve THEN "approved" ELSE "rejected",
         revision |-> IF approve THEN NextRevision(history, p) ELSE 0,
         content |-> out,
         supersedes |-> IF approve THEN LatestApprovalId(history, p) ELSE None,
         archived |-> archived]

\* The approved record main() installs.
MakeRecord(history, p, out, pkg) ==
    [revision |-> NextRevision(history, p),
     supersedes |-> LatestApprovalId(history, p),
     version |-> pkg.version,
     dataset |-> pkg.dataset,
     assessment |-> out]

\* The archive with one more file, or one overwritten, or one removed.
WithFile(archive, name, file) ==
    [x \in DOMAIN archive \cup {name} |-> IF x = name THEN file ELSE archive[x]]
WithoutFile(archive, name) == [x \in DOMAIN archive \ {name} |-> archive[x]]

------------------------------------------------------------------------------
\* What the helpers above are there to keep true of a history.

UniqueIds(h) == \A i, j \in DOMAIN h : h[i].id = h[j].id => i = j

\* Entry i, an approval of p, continues the chain of the approvals before it.
Continues(h, p, i) ==
    LET before == {j \in ApprovalsOf(h, p) : j < i}
    IN  IF before = {} THEN h[i].revision = 0 /\ h[i].supersedes = None
        ELSE LET last == Maximum(before)
             IN  /\ h[i].revision = h[last].revision + 1
                 /\ h[i].supersedes = h[last].id

WellFormed(h) ==
    /\ UniqueIds(h)
    /\ \A p \in Packages : \A i \in ApprovalsOf(h, p) : Continues(h, p, i)
=============================================================================
