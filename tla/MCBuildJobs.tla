----------------------------- MODULE MCBuildJobs -----------------------------
(* Instances of BuildJobs for TLC. *)
EXTENDS BuildJobs

Called(c) == caller[c].pc # "idle"

\* Bounds: the callers come in the order of their numbers; and beside a caller
\* and a build there is a second caller, a second build or a poller at a time,
\* never two of them.
OneMore ==
    LET used(S) == IF S THEN 1 ELSE 0 IN
    /\ \A b, c \in Callers : b < c /\ Called(c) => Called(b)
    /\ used(\A c \in Callers : Called(c))
         + used(\A j \in Jobs : job[j].phase # "none")
         + used(\E p \in Pollers : poller[p].pc # "idle") <= 1
=============================================================================
