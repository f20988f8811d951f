------------------------- MODULE MCInterviewStream -------------------------
(* InterviewStream for TLC.  Liveness is checked without symmetry. *)
EXTENDS InterviewStream
=============================================================================
