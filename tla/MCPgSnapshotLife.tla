--------------------------- MODULE MCPgSnapshotLife ---------------------------
(* Instances of PgSnapshotLife for TLC. *)
EXTENDS PgSnapshotLife

Begun == {s \in Sessions : session[s].state # "none" \/ call[s].phase # "idle"}
Refreshing == {r \in Refreshers : refresh[r].phase # "idle"}

\* Bounds: of what may happen beside two publications and one cycle, a refresh
\* of links with a change of pages, a second cycle with a revert, a search and a
\* revert, one happens at a time.  Two refreshes meet, and pages change again,
\* around a single publication.  Publications that are refused or aborted are
\* left to the instance of PgPublication.
OneMore ==
    LET used(S) == IF S THEN 1 ELSE 0 IN
    /\ used(generation > 0 \/ Refreshing # {})
         + used(\E r \in Readers : reader[r].target # None \/ reader[r].saw # "nothing")
         + used(\/ \A d \in Drainers : drain[d].phase # "idle"
                \/ active # None /\ supersededAt[active] # None) <= 1
    /\ (generation > 1 \/ Refreshing = Refreshers \/ \E p \in Pages : pages[p].text = "u") =>
          Cardinality(Begun) <= 1
    /\ \A s \in Sessions : reply[s] \in {"none", "begun", "accepted", "ready"}
=============================================================================
