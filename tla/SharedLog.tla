------------------------------ MODULE SharedLog ------------------------------
(***************************************************************************)
(* What the remote of a Git-backed base promises its clones: one log of    *)
(* commits that only grows at its end, by whole commits of changes it did  *)
(* not have.                                                               *)
(***************************************************************************)
EXTENDS Naturals, SequencesExt

CONSTANT Changes

VARIABLE log

\* No change is in two commits of s, and no commit is empty.
Distinct(s) ==
    /\ {} \notin Range(s)
    /\ \A i, j \in DOMAIN s : i # j => s[i] \cap s[j] = {}

Init == Distinct(log)

Publish ==
    /\ IsStrictPrefix(log, log')
    /\ Distinct(log') /\ UNION Range(log') \subseteq Changes

Spec == Init /\ [][Publish]_log
=============================================================================
