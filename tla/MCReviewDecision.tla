--------------------------- MODULE MCReviewDecision ---------------------------
(* Model values and symmetry for the runs of ReviewDecision.               *)
EXTENDS ReviewDecision, TLC

CONSTANTS PKG1, PKG2, sound, unsound, alice, bob

ReviewerSymmetry == Permutations(Reviewers)
=============================================================================
