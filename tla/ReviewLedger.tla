----------------------------- MODULE ReviewLedger -----------------------------
(***************************************************************************)
(* What scripts/review_decision.py promises: a decision is one atomic      *)
(* step.  An approval happens only for a reply every gate accepts, moves   *)
(* the record it supersedes to the archive, installs the new one and       *)
(* appends one history entry; a rejection appends one history entry and    *)
(* touches nothing else.  ReviewDecision implements this specification.    *)
(***************************************************************************)
EXTENDS ReviewRecords

CONSTANTS Versions, Times

VARIABLES
    approved,   \* package id -> Record or None
    archive,    \* archive file name -> Record
    history     \* the assessment history

ledgerVars == <<approved, archive, history>>

LedgerInit ==
    /\ approved = [p \in Packages |-> None]
    /\ archive = << >>
    /\ history = << >>

ApproveAtomically(p, out, pkg, t) ==
    LET target == IF approved[p] = None THEN None ELSE ArchiveTarget(archive, p, t)
    IN  /\ Acceptable(out, pkg)
        /\ Approvable(pkg, pkg.acq)
        /\ approved' = [approved EXCEPT ![p] = MakeRecord(history, p, out, pkg)]
        /\ archive' = IF target = None THEN archive
                      ELSE WithFile(archive, target, approved[p])
        /\ history' = Append(history, MakeEntry(history, p, "approve", out, t, target))

RejectAtomically(p, out, t) ==
    /\ history' = Append(history, MakeEntry(history, p, "reject", out, t, None))
    /\ UNCHANGED <<approved, archive>>

LedgerNext ==
    \E p \in Packages, t \in Times, body \in Bodies, v \in Versions :
        LET out == [body |-> body, binds |-> v]
        IN  \/ ApproveAtomically(p, out, [version |-> v, dataset |-> Current,
                                          acq |-> 0, intact |-> TRUE], t)
            \/ RejectAtomically(p, out, t)

LedgerSpec == LedgerInit /\ [][LedgerNext]_ledgerVars
=============================================================================
