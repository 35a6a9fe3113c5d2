--------------------------- MODULE SnapshotRegister ---------------------------
(***************************************************************************)
(* What publication promises its users: one register that holds the        *)
(* published revision, changed only by compare-and-swap.  A session opens  *)
(* on the value it saw; it may replace that value once, and only while it  *)
(* is still the value; otherwise it closes without a trace.                *)
(***************************************************************************)
CONSTANTS Sessions, Revisions, None

VARIABLES value, ticket

vars == <<value, ticket>>

Closed == [open |-> FALSE, base |-> None]
Tickets == [open : BOOLEAN, base : Revisions \cup {None}]

Init == value = None /\ ticket = [s \in Sessions |-> Closed]

\* Sessions long expired may be closed while a new one opens.
Open(s, stale) ==
    /\ ~ticket[s].open
    /\ ticket' = [t \in Sessions |->
                     IF t = s THEN [open |-> TRUE, base |-> value]
                     ELSE IF t \in stale THEN Closed ELSE ticket[t]]
    /\ UNCHANGED value

Swap(s, v) ==
    /\ ticket[s].open
    /\ ticket[s].base = value
    /\ value' = v
    /\ ticket' = [ticket EXCEPT ![s] = Closed]

Close(s) ==
    /\ ticket[s].open
    /\ ticket' = [ticket EXCEPT ![s] = Closed]
    /\ UNCHANGED value

Next ==
    \E s \in Sessions :
        \/ \E stale \in SUBSET Sessions : Open(s, stale)
        \/ \E v \in Revisions : Swap(s, v)
        \/ Close(s)

Spec == Init /\ [][Next]_vars
=============================================================================
