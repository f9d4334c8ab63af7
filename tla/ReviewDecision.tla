---------------------------- MODULE ReviewDecision ----------------------------
(***************************************************************************)
(* scripts/review_decision.py, one file-system read or write per step: the *)
(* gates, the FileTransaction around the archive move and the two atomic   *)
(* writes, its rollback, and what a killed process leaves behind.  Around  *)
(* it, the programs and people that write the files it reads: the package  *)
(* builder, the reviewer saving a reply, the acquisition record and the    *)
(* analysis build, which rewrites the same history file.                   *)
(***************************************************************************)
EXTENDS ReviewRecords

CONSTANTS
    Reviewers,        \* concurrent executions of the script
    CanCrash,         \* a process may be killed
    RestoresTear,     \* a restoring write of the rollback may be cut short
    InputsSettle,     \* the files a decision reads change only between decisions
    AnalysisRebuilds, \* scripts/build_analysis.py is run as well
    MaxDecisions,     \* bound: executions of the script
    MaxBuilds,        \* bound: package builds
    MaxAcq,           \* bound: distinct acquisition states
    MaxTime           \* bound: seconds on the clock

ASSUME DecisionAssumption ==
    /\ {CanCrash, RestoresTear, InputsSettle, AnalysisRebuilds} \subseteq BOOLEAN
    /\ {MaxDecisions, MaxBuilds, MaxAcq, MaxTime} \subseteq Nat

VARIABLES
    packages,     \* data/review/packages, id -> PackageFile or None
    inbound,      \* data/review/inbound, id -> Output or None
    acq,          \* the acquisition state on disk, None when it cannot be loaded
    clock,        \* the wall clock, in seconds
    approved,     \* data/assessments/approved, id -> Record, Torn or None
    approvedTmp,  \* its temporary files .<id>.json.tmp
    archive,      \* data/assessments/archive, name -> Record or Torn
    history,      \* assessment_history.json, its review entries, or Torn
    historyTmp,   \* its temporary file
    run,          \* per reviewer, the local state of the execution
    built,        \* packages built so far
    decisions,    \* executions started so far
    confirmed     \* history: entries whose execution reported success

inputVars == <<packages, inbound, acq, clock, built>>
stores == <<approved, approvedTmp, archive, history, historyTmp>>
vars == <<inputVars, stores, run, decisions, confirmed>>

IdleRun == [pc |-> "idle", id |-> None, decision |-> None, passed |-> FALSE,
            pkg |-> None, out |-> None, stamp |-> 0, hist |-> << >>,
            oldHistory |-> << >>, oldApproved |-> None, target |-> None]

ReadingPcs == {"output", "outputAgain", "packageAgain", "gate", "load", "enter"}
WritingPcs == {"archive", "move", "writeApproved", "installApproved",
               "writeHistory", "installHistory"}
RestoringPcs == {"restoreHistory", "restoreApproved", "restoreArchive"}

InTransaction(r) == run[r].pc \in WritingPcs \cup RestoringPcs
AllIdle == \A r \in Reviewers : run[r].pc = "idle"

Init ==
    /\ packages = [p \in Packages |-> None]
    /\ inbound = [p \in Packages |-> None]
    /\ acq = 0
    /\ clock = 0
    /\ approved = [p \in Packages |-> None]
    /\ approvedTmp = [p \in Packages |-> None]
    /\ archive = << >>
    /\ history = << >>
    /\ historyTmp = None
    /\ run = [r \in Reviewers |-> IdleRun]
    /\ built = 0
    /\ decisions = 0
    /\ confirmed = {}

------------------------------------------------------------------------------
(* The gates: everything main() does before its transaction.               *)

\* review() -> load_pair(): both files must exist; the package is read first.
Start(r, p, d) ==
    /\ run[r].pc = "idle"
    /\ decisions < MaxDecisions
    /\ packages[p] # None /\ inbound[p] # None
    /\ run' = [run EXCEPT ![r] = [IdleRun EXCEPT !.pc = "output", !.id = p,
                                      !.decision = d, !.pkg = packages[p]]]
    /\ decisions' = decisions + 1
    /\ UNCHANGED <<inputVars, stores, confirmed>>

\* load_pair() reads the reply and review() computes its problems.
ReadOutput(r) ==
    /\ run[r].pc = "output"
    /\ run' = [run EXCEPT ![r].pc = "outputAgain",
                          ![r].passed = Acceptable(inbound[run[r].id], run[r].pkg)]
    /\ UNCHANGED <<inputVars, stores, decisions, confirmed>>

\* main() reads the reply from disk a second time; this copy is published.
ReadOutputAgain(r) ==
    /\ run[r].pc = "outputAgain"
    /\ run' = [run EXCEPT ![r].pc = "packageAgain", ![r].out = inbound[run[r].id]]
    /\ UNCHANGED <<inputVars, stores, decisions, confirmed>>

\* ... and the package, whose hash the record will carry.
ReadPackageAgain(r) ==
    /\ run[r].pc = "packageAgain"
    /\ run' = [run EXCEPT ![r].pc = "gate", ![r].pkg = packages[run[r].id]]
    /\ UNCHANGED <<inputVars, stores, decisions, confirmed>>

\* An approval with a problem is blocked; a rejection never is.
Gate(r) ==
    /\ run[r].pc = "gate"
    /\ \/ /\ \/ run[r].decision = "reject"
             \/ run[r].passed /\ Approvable(run[r].pkg, acq)
          /\ run' = [run EXCEPT ![r].pc = "load"]
       \/ /\ run[r].decision = "approve"
          /\ ~(run[r].passed /\ Approvable(run[r].pkg, acq))
          /\ run' = [run EXCEPT ![r] = IdleRun]
    /\ UNCHANGED <<inputVars, stores, decisions, confirmed>>

\* _now() and load_history(); unreadable JSON ends the execution.
LoadHistory(r) ==
    /\ run[r].pc = "load"
    /\ run' = IF history = Torn
              THEN [run EXCEPT ![r] = IdleRun]
              ELSE [run EXCEPT ![r].pc = "enter", ![r].stamp = clock, ![r].hist = history]
    /\ UNCHANGED <<inputVars, stores, decisions, confirmed>>

------------------------------------------------------------------------------
(* The transaction.                                                        *)

\* FileTransaction.__enter__ captures the history and the approved file,
\* whatever the decision is.
Enter(r) ==
    /\ run[r].pc = "enter"
    /\ run' = [run EXCEPT
                 ![r].pc = IF run[r].decision = "approve" THEN "archive" ELSE "writeHistory",
                 ![r].oldHistory = history,
                 ![r].oldApproved = approved[run[r].id]]
    /\ UNCHANGED <<inputVars, stores, decisions, confirmed>>

\* archive_existing() up to transaction.track(target).
ChooseTarget(r) ==
    /\ run[r].pc = "archive"
    /\ run' = IF approved[run[r].id] = None
              THEN [run EXCEPT ![r].pc = "writeApproved"]
              ELSE [run EXCEPT ![r].pc = "move",
                               ![r].target = ArchiveTarget(archive, run[r].id, run[r].stamp)]
    /\ UNCHANGED <<inputVars, stores, decisions, confirmed>>

\* shutil.move(): a rename, which replaces an existing destination and raises
\* when the source has gone.
Move(r) ==
    /\ run[r].pc = "move"
    /\ approved[run[r].id] # None
    /\ archive' = WithFile(archive, run[r].target, approved[run[r].id])
    /\ approved' = [approved EXCEPT ![run[r].id] = None]
    /\ run' = [run EXCEPT ![r].pc = "writeApproved"]
    /\ UNCHANGED <<inputVars, approvedTmp, history, historyTmp, decisions, confirmed>>

\* write_atomic(approved_path, ...): first the temporary file ...
WriteApproved(r) ==
    LET record == MakeRecord(run[r].hist, run[r].id, run[r].out, run[r].pkg)
    IN  /\ run[r].pc = "writeApproved"
        /\ approvedTmp' = [approvedTmp EXCEPT ![run[r].id] = record]
        /\ run' = [run EXCEPT ![r].pc = "installApproved"]
        /\ UNCHANGED <<inputVars, approved, archive, history, historyTmp, decisions, confirmed>>

\* ... then os.replace(), which raises when the temporary file has gone.
InstallApproved(r) ==
    /\ run[r].pc = "installApproved"
    /\ approvedTmp[run[r].id] # None
    /\ approved' = [approved EXCEPT ![run[r].id] = approvedTmp[run[r].id]]
    /\ approvedTmp' = [approvedTmp EXCEPT ![run[r].id] = None]
    /\ run' = [run EXCEPT ![r].pc = "writeHistory"]
    /\ UNCHANGED <<inputVars, archive, history, historyTmp, decisions, confirmed>>

NewEntry(r) == MakeEntry(run[r].hist, run[r].id, run[r].decision, run[r].out,
                         run[r].stamp, run[r].target)

\* Fault: the file is written with the new entry only.
WriteHistoryFresh(r) ==
    /\ run[r].pc = "writeHistory"
    /\ historyTmp' = <<NewEntry(r)>>
    /\ run' = [run EXCEPT ![r].pc = "installHistory"]
    /\ UNCHANGED <<inputVars, approved, approvedTmp, archive, history, decisions, confirmed>>

\* The entry is appended to the history loaded before the transaction, and the
\* whole file written.
WriteHistory(r) ==
    /\ run[r].pc = "writeHistory"
    /\ historyTmp' = Append(run[r].hist, NewEntry(r))
    /\ run' = [run EXCEPT ![r].pc = "installHistory"]
    /\ UNCHANGED <<inputVars, approved, approvedTmp, archive, history, decisions, confirmed>>

\* The last write; the transaction exits and the decision is reported.
InstallHistory(r) ==
    /\ run[r].pc = "installHistory"
    /\ historyTmp # None
    /\ history' = historyTmp
    /\ historyTmp' = None
    /\ confirmed' = confirmed \cup {NewEntry(r)}
    /\ run' = [run EXCEPT ![r] = IdleRun]
    /\ UNCHANGED <<inputVars, approved, approvedTmp, archive, decisions>>

------------------------------------------------------------------------------
(* Failure inside the transaction, and the rollback.                       *)

\* A write that fails or is cut short leaves its temporary file as it was, or
\* partly written.
MayTearTmp(r) ==
    CASE run[r].pc = "writeApproved" ->
            /\ approvedTmp' \in {approvedTmp, [approvedTmp EXCEPT ![run[r].id] = Torn]}
            /\ UNCHANGED historyTmp
      [] run[r].pc = "writeHistory" ->
            /\ historyTmp' \in {historyTmp, Torn}
            /\ UNCHANGED approvedTmp
      [] OTHER -> UNCHANGED <<approvedTmp, historyTmp>>

\* Anything the body of the transaction does may raise: __exit__ rolls back.
Raise(r) ==
    /\ run[r].pc \in WritingPcs
    /\ MayTearTmp(r)
    /\ run' = [run EXCEPT ![r].pc = "restoreHistory"]
    /\ UNCHANGED <<inputVars, approved, archive, history, decisions, confirmed>>

\* rollback() restores in the order the paths were captured.
RestoreHistory(r) ==
    /\ run[r].pc = "restoreHistory"
    /\ history' = run[r].oldHistory
    /\ run' = [run EXCEPT ![r].pc = "restoreApproved"]
    /\ UNCHANGED <<inputVars, approved, approvedTmp, archive, historyTmp, decisions, confirmed>>

\* Fault: the approved file is not among the captured paths.
RestoreApprovedForgotten(r) ==
    /\ run[r].pc = "restoreApproved"
    /\ run' = IF run[r].target = None THEN [run EXCEPT ![r] = IdleRun]
              ELSE [run EXCEPT ![r].pc = "restoreArchive"]
    /\ UNCHANGED <<inputVars, stores, decisions, confirmed>>

RestoreApproved(r) ==
    /\ run[r].pc = "restoreApproved"
    /\ approved' = [approved EXCEPT ![run[r].id] = run[r].oldApproved]
    /\ run' = IF run[r].target = None THEN [run EXCEPT ![r] = IdleRun]
              ELSE [run EXCEPT ![r].pc = "restoreArchive"]
    /\ UNCHANGED <<inputVars, approvedTmp, archive, history, historyTmp, decisions, confirmed>>

\* Fault: the target was captured after the move, so it stays.
RestoreArchiveLate(r) ==
    /\ run[r].pc = "restoreArchive"
    /\ run' = [run EXCEPT ![r] = IdleRun]
    /\ UNCHANGED <<inputVars, stores, decisions, confirmed>>

\* The target did not exist when it was captured, so it is unlinked.
RestoreArchive(r) ==
    /\ run[r].pc = "restoreArchive"
    /\ archive' = WithoutFile(archive, run[r].target)
    /\ run' = [run EXCEPT ![r] = IdleRun]
    /\ UNCHANGED <<inputVars, approved, approvedTmp, history, historyTmp, decisions, confirmed>>

\* The process is killed.
Crash(r) ==
    /\ CanCrash
    /\ run[r].pc # "idle"
    /\ MayTearTmp(r)
    /\ run' = [run EXCEPT ![r] = IdleRun]
    /\ UNCHANGED <<inputVars, approved, archive, history, decisions, confirmed>>

\* write_bytes() truncates before it writes, so a restore that raises or is
\* killed half-way tears the file it was restoring; the rest is not restored.
TearRestored(r) ==
    /\ RestoresTear
    /\ \/ /\ run[r].pc = "restoreHistory"
          /\ history' = Torn
          /\ UNCHANGED approved
       \/ /\ run[r].pc = "restoreApproved"
          /\ run[r].oldApproved # None
          /\ approved' = [approved EXCEPT ![run[r].id] = Torn]
          /\ UNCHANGED history
    /\ run' = [run EXCEPT ![r] = IdleRun]
    /\ UNCHANGED <<inputVars, approvedTmp, archive, historyTmp, decisions, confirmed>>

------------------------------------------------------------------------------
(* The other writers of these files.                                       *)

InputsMayChange == InputsSettle => AllIdle

\* build_review_package.py.  A technical_demo package records the hash of the
\* empty acquisition state; a current one cannot be built when the state does
\* not load.
BuildPackage(p, dataset) ==
    /\ InputsMayChange
    /\ built < MaxBuilds
    /\ dataset = Current => acq # None
    /\ built' = built + 1
    /\ packages' = [packages EXCEPT ![p] =
                      [version |-> built + 1, dataset |-> dataset,
                       acq |-> IF dataset = Current THEN acq ELSE 0, intact |-> TRUE]]
    /\ UNCHANGED <<inbound, acq, clock, stores, run, decisions, confirmed>>

\* The package file is edited by hand; its recorded hash stays.
EditPackage(p) ==
    /\ InputsMayChange
    /\ packages[p] # None
    /\ packages' = [packages EXCEPT ![p].intact = FALSE]
    /\ UNCHANGED <<inbound, acq, clock, built, stores, run, decisions, confirmed>>

\* The reviewer saves a reply, answering any version of the package.
SaveInbound(p, body, version) ==
    /\ InputsMayChange
    /\ version \in 1..built
    /\ inbound' = [inbound EXCEPT ![p] = [body |-> body, binds |-> version]]
    /\ UNCHANGED <<packages, acq, clock, built, stores, run, decisions, confirmed>>

\* A collection run or a manual review is recorded, corrected or removed.
ChangeAcquisition ==
    /\ InputsMayChange
    /\ acq' \in 0..MaxAcq \cup {None}
    /\ UNCHANGED <<packages, inbound, clock, built, stores, run, decisions, confirmed>>

Tick ==
    /\ clock < MaxTime
    /\ clock' = clock + 1
    /\ UNCHANGED <<packages, inbound, acq, built, stores, run, decisions, confirmed>>

\* build_analysis.py writes assessment_history.json from build_history(),
\* which knows only its own "created" entries; none concerns a package.
RebuildAnalysis ==
    /\ AnalysisRebuilds
    /\ InputsMayChange
    /\ history' = << >>
    /\ UNCHANGED <<inputVars, approved, approvedTmp, archive, historyTmp,
                   run, decisions, confirmed>>

------------------------------------------------------------------------------
Decide(r) ==
    \/ \E p \in Packages, d \in Decisions : Start(r, p, d)
    \/ ReadOutput(r) \/ ReadOutputAgain(r) \/ ReadPackageAgain(r)
    \/ Gate(r) \/ LoadHistory(r) \/ Enter(r)
    \/ ChooseTarget(r) \/ Move(r) \/ WriteApproved(r) \/ InstallApproved(r)
    \/ WriteHistory(r) \/ InstallHistory(r)

RollBack(r) == Raise(r) \/ RestoreHistory(r) \/ RestoreApproved(r) \/ RestoreArchive(r)

ChangeInputs ==
    \/ \E p \in Packages, dataset \in Datasets : BuildPackage(p, dataset)
    \/ \E p \in Packages : EditPackage(p)
    \/ \E p \in Packages, body \in Bodies, v \in 1..MaxBuilds : SaveInbound(p, body, v)
    \/ ChangeAcquisition
    \/ Tick

Next ==
    \/ \E r \in Reviewers : Decide(r) \/ RollBack(r) \/ Crash(r) \/ TearRestored(r)
    \/ ChangeInputs
    \/ RebuildAnalysis

Spec == Init /\ [][Next]_vars

------------------------------------------------------------------------------
(* Type correctness.                                                       *)

MaybePackage == PackageFile \cup {None}
MaybeOutput == Output \cup {None}
StoredRecord == Record \cup {Torn, None}
StoredHistory == Seq(Entry) \cup {Torn}

RunState ==
    [pc : {"idle"} \cup ReadingPcs \cup WritingPcs \cup RestoringPcs,
     id : Packages \cup {None}, decision : Decisions \cup {None},
     passed : BOOLEAN, pkg : MaybePackage, out : MaybeOutput, stamp : Nat,
     hist : Seq(Entry), oldHistory : StoredHistory, oldApproved : StoredRecord,
     target : ArchiveName \cup {None}]

\* What an execution has in its locals at each of its steps.
RunOK(r) ==
    /\ run[r].pc # "idle" => /\ run[r].id \in Packages
                             /\ run[r].decision \in Decisions
                             /\ run[r].pkg \in PackageFile
                             /\ inbound[run[r].id] \in Output
                             /\ packages[run[r].id] \in PackageFile
    /\ run[r].pc \notin {"idle", "output", "outputAgain"} => run[r].out \in Output
    /\ run[r].pc \in {"move", "restoreArchive"} => run[r].target \in ArchiveName

\* Every file and every local variable holds a value of its kind; an archived
\* file may be torn only because a torn approved file was archived.
TypeOK ==
    /\ packages \in [Packages -> MaybePackage]
    /\ inbound \in [Packages -> MaybeOutput]
    /\ acq \in Nat \cup {None}
    /\ clock \in Nat
    /\ approved \in [Packages -> StoredRecord]
    /\ approvedTmp \in [Packages -> StoredRecord]
    /\ DOMAIN archive \subseteq ArchiveName
    /\ \A x \in DOMAIN archive : archive[x] \in Record \cup {Torn}
    /\ history \in StoredHistory
    /\ historyTmp \in StoredHistory \cup {None}
    /\ run \in [Reviewers -> RunState]
    /\ \A r \in Reviewers : RunOK(r)
    /\ built \in Nat /\ decisions \in Nat
    /\ confirmed \subseteq Entry

------------------------------------------------------------------------------
(* Safety.                                                                 *)

\* The audit trail is unambiguous: identifiers are unique, and the approvals of
\* a package form one chain of revisions 0, 1, 2, ..., each naming the entry it
\* supersedes (unique_history_id, next_revision, latest_approval_history_id).
HistoryWellFormed ==
    history # Torn => WellFormed(history)

\* No record of a demonstration package is ever installed or archived: whatever
\* else happens to the inputs, the record carries the dataset the gate read.
ApprovedIsCurrent ==
    /\ \A p \in Packages : approved[p] \notin {None, Torn} => approved[p].dataset = Current
    /\ \A x \in DOMAIN archive :
          archive[x] \notin {None, Torn} => archive[x].dataset = Current

\* Between decisions, the approved record of a package is the one its last
\* approval in the history installed, and is absent only if there is none.
ApprovedMatchesHistory ==
    AllIdle => \A p \in Packages :
        LET approvals == ApprovalsOf(history, p)
            last == history[Maximum(approvals)]
        IN  IF approvals = {} THEN approved[p] = None
            ELSE /\ approved[p] \notin {None, Torn}
                 /\ approved[p].revision = last.revision
                 /\ approved[p].supersedes = last.supersedes
                 /\ approved[p].assessment = last.content

\* Between decisions, the archive file an approval names still holds the very
\* record that approval superseded (archive_target never reuses a name).
ArchiveMatchesHistory ==
    AllIdle => \A i \in DOMAIN history :
        \/ history[i].supersedes = None /\ history[i].archived = None
        \/ /\ history[i].archived \in DOMAIN archive
           /\ LET old == archive[history[i].archived]
              IN  \E j \in 1..(i - 1) :
                    /\ history[j].id = history[i].supersedes
                    /\ old # Torn
                    /\ old.revision = history[j].revision
                    /\ old.supersedes = history[j].supersedes
                    /\ old.assessment = history[j].content

\* Between decisions the three stores tell one story.
StoresMatchHistory == ApprovedMatchesHistory /\ ArchiveMatchesHistory

\* What a reviewer was told is recorded stays recorded.
DecisionsDurable ==
    history # Torn /\ confirmed \subseteq {history[i] : i \in DOMAIN history}

\* A reply whose approval was reported is still stored, approved or archived,
\* whatever was interrupted since (the order of move, install and rollback).
NothingLost ==
    \A e \in confirmed : e.action = "approved" =>
        \E file \in {approved[e.subject]} \cup {archive[x] : x \in DOMAIN archive} :
            /\ file \notin {None, Torn}
            /\ file.revision = e.revision
            /\ file.assessment = e.content

\* A decision that was reported stands, in the history and in the files, however
\* many others were killed, rolled back or failed since.
ReportedStands == DecisionsDurable /\ NothingLost

------------------------------------------------------------------------------
(* With one reviewer and no crash, a decision is atomic: until the history *)
(* is installed nothing has happened, and a rollback has never happened.   *)

Open == {r \in Reviewers : InTransaction(r)}
TheRun == run[CHOOSE r \in Reviewers : InTransaction(r)]

Ledger == INSTANCE ReviewLedger WITH
    Versions <- 1..MaxBuilds,
    Times <- 0..MaxTime,
    approved <- IF Open = {} THEN approved
                ELSE [approved EXCEPT ![TheRun.id] = TheRun.oldApproved],
    archive <- IF Open = {} THEN archive ELSE WithoutFile(archive, TheRun.target),
    history <- IF Open = {} THEN history ELSE TheRun.oldHistory

\* The script implements the atomic ledger.
ImplementsLedger == Ledger!LedgerSpec
=============================================================================
