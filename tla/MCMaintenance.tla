---------------------------- MODULE MCMaintenance ----------------------------
(* Instances of Maintenance for TLC. *)
EXTENDS Maintenance, TLC

Symmetry == Permutations(Keys) \cup Permutations(Submitters) \cup Permutations(Workers)
=============================================================================
