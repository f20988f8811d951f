---------------------------- MODULE MCQueueWorker ----------------------------
(* QueueWorker for TLC: workers are interchangeable. *)
EXTENDS QueueWorker, TLC

Symmetry == Permutations(Workers)
=============================================================================
