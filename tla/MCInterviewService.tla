------------------------- MODULE MCInterviewService -------------------------
(* InterviewService for TLC: threads are interchangeable, and so are questions. *)
EXTENDS InterviewService, TLC

Symmetry == Permutations(Callers) \cup Permutations(ModelReplies \ {"unavailable"})
=============================================================================
