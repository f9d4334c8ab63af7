---------------------------- MODULE MCAnalysisBuild ----------------------------
(* A context written before generation_time_basis existed, for the runs of *)
(* AnalysisBuild.                                                          *)
EXTENDS AnalysisBuild

MCLegacy == [asOf |-> 0, hashes |-> 0, cutoff |-> None, latestRun |-> None,
             latestReview |-> None, generated |-> 0, basis |-> None]
=============================================================================
