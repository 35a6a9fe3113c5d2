-------------------------- MODULE MCMutationJournal --------------------------
(* Instances of MutationJournal for TLC. *)
EXTENDS MutationJournal, TLC
=============================================================================
