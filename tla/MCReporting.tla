----------------------------- MODULE MCReporting -----------------------------
(* Reporting for TLC. *)
EXTENDS Reporting, TLC

Symmetric == Permutations(Workers) \cup Permutations(Criteria)
=============================================================================
