--------------------------- MODULE MCPgPublication ---------------------------
(* Instances of PgPublication for TLC. *)
EXTENDS PgPublication

Used == {s \in Sessions : session[s].state # "none" \/ call[s].phase # "idle"}

\* The page is written once.
PagesPlain ==
    /\ generation <= 1
    /\ \A p \in Pages : pages[p].text = IF generation = 0 THEN None ELSE "t"

\* One owner sends the batches its one payload needs.
CallsPlain ==
    \A s \in Used :
        /\ session[s].owner \in {None, "o1"}
        /\ snapshot[s].payload \in {None, "a"}
        /\ reply[s] \notin {"unauthorized", "batch_conflict", "invalid_batch"}
        /\ \A x \in Slots : batches[s][x] # None => x.ordinal = 0 /\ batches[s][x] = "a"

First == CHOOSE s \in Sessions : TRUE

\* Bounds: of a second session, pages that are rewritten and deleted, and calls
\* by strangers or with wrong batches, one comes at a time; the latter two before
\* the last tick.
OneMore ==
    LET used(S) == IF S THEN 1 ELSE 0 IN
    /\ used(Used \ {First} # {}) + used(~PagesPlain) + used(~CallsPlain) <= 1
    /\ clock = MaxClock => PagesPlain /\ CallsPlain
=============================================================================
