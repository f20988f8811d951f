------------------------- MODULE MCSubmissionAnalysis -------------------------
(* SubmissionAnalysis for TLC. *)
EXTENDS SubmissionAnalysis
=============================================================================
