------------------------- MODULE MCRecordingUpload -------------------------
(* RecordingUpload for TLC. *)
EXTENDS RecordingUpload, TLC

Symmetric == Permutations(Uploads)
=============================================================================
