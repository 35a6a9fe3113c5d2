---------------------------- MODULE PgSnapshotLife ----------------------------
(***************************************************************************)
(* What happens to a snapshot once PgPublication has activated it          *)
(* (src/iwiki_mcp/postgres/codegraph.py): wiki_code_refresh_links replaces *)
(* its derived links, readers answer from it, and when another snapshot is *)
(* active a background cycle drains its rows, one committed batch at a     *)
(* time.  An operator may set the domain back to a superseded snapshot.    *)
(* None of them takes the advisory lock of finalize.                       *)
(***************************************************************************)
EXTENDS PgPublication, Sequences

CONSTANTS
    Refreshers,           \* concurrent wiki_code_refresh_links calls
    Drainers,             \* cleanup cycles: worker threads and processes
    Readers,              \* concurrent searches
    SupersededRetention,  \* superseded_retention_seconds
    SupersededLimit,      \* superseded_cleanup_limit
    Reverts               \* whether an operator reverts

ASSUME LifeAssumption ==
    /\ {SupersededRetention, SupersededLimit} \subseteq Nat
    /\ Reverts \in BOOLEAN
    /\ None \notin Nat

VARIABLES
    refresh,       \* the refresh transaction of each refresher
    drain,         \* the cleanup cycle of each drainer
    reader,        \* the read of each reader
    supersededAt,  \* when a snapshot stopped being active (no code reads it)
    lostActive     \* batches each cycle took from a snapshot while active (likewise)

lifeVars == <<refresh, drain, reader, supersededAt, lostActive>>
allVars == <<vars, lifeVars>>

ChildTables == <<"wiki_links", "relations", "symbols", "files">>

IdleRefresh == [phase |-> "idle", target |-> None, view |-> NoPages,
                gen |-> 0, derived |-> {}, overtaken |-> FALSE]
IdleDrain == [phase |-> "idle", target |-> None, table |-> 1]

LifeInit ==
    /\ Init
    /\ refresh = [r \in Refreshers |-> IdleRefresh]
    /\ drain = [d \in Drainers |-> IdleDrain]
    /\ reader = [r \in Readers |-> [target |-> None, saw |-> "nothing"]]
    /\ supersededAt = [s \in Sessions |-> None]
    /\ lostActive = [s \in Sessions |-> [d \in Drainers |-> 0]]

\* The snapshot that a step takes out of the active place is superseded now.
Supersede ==
    supersededAt' = IF active' # active /\ active # None
                    THEN [supersededAt EXCEPT ![active] = clock]
                    ELSE supersededAt

PublicationStep ==
    /\ Next
    /\ Supersede
    /\ UNCHANGED <<refresh, drain, reader, lostActive>>

-----------------------------------------------------------------------------
(* refresh_wiki_links: seven statements, one transaction *)

RefreshSelect(r) ==
    /\ refresh[r].phase = "idle"
    /\ active # None
    /\ refresh' = [refresh EXCEPT ![r].phase = "selected", ![r].target = active]
    /\ UNCHANGED <<vars, drain, reader, supersededAt, lostActive>>

RefreshReadPages(r) ==
    /\ refresh[r].phase = "selected"
    /\ refresh' = [refresh EXCEPT ![r].phase = "read", ![r].view = pages]
    /\ UNCHANGED <<vars, drain, reader, supersededAt, lostActive>>

RefreshReadGeneration(r) ==
    /\ refresh[r].phase = "read"
    /\ refresh' = [refresh EXCEPT ![r].phase = "counted", ![r].gen = generation]
    /\ UNCHANGED <<vars, drain, reader, supersededAt, lostActive>>

Resolvable(s) == rows[s]["relations"] = TableRows

\* _snapshot_rows and _derive_links, then the DELETE: its statement sees the
\* link rows committed by now and waits for whoever is deleting them too.
RefreshDelete(r) ==
    LET s == refresh[r].target IN
    /\ refresh[r].phase = "counted"
    /\ refresh' = [refresh EXCEPT
           ![r].phase = "deleted",
           ![r].derived = IF Resolvable(s) THEN Derive(refresh[r].view) ELSE {}]
    /\ UNCHANGED <<vars, drain, reader, supersededAt, lostActive>>

\* Faulty: the stored revision is left as it was.
StampLeft(r) == snapshot[refresh[r].target].mdRev

Stamp(r) == TextsOf(refresh[r].view)

\* INSERT, UPDATE and COMMIT.  Rows another refresh inserted after this one's
\* DELETE began are not among those it deleted; an equal one among them stays
\* (ON CONFLICT DO NOTHING), which the union of the two sets says.
RefreshCommit(r) ==
    LET s == refresh[r].target
        kept == IF refresh[r].overtaken THEN links[s] ELSE {}
    IN
    /\ refresh[r].phase = "deleted"
    /\ refresh[r].derived # {} => Resolvable(s) /\ LinkTargetsExist(refresh[r].view)
    /\ links' = [links EXCEPT ![s] = kept \cup refresh[r].derived]
    /\ snapshot' = IF snapshot[s].state = "deleted" THEN snapshot
                   ELSE [snapshot EXCEPT ![s].mdRev = Stamp(r),
                                         ![s].mdGen = refresh[r].gen]
    /\ refresh' = [q \in Refreshers |->
           IF q = r THEN IdleRefresh
           ELSE [refresh[q] EXCEPT !.overtaken =
                    @ \/ (refresh[q].phase = "deleted" /\ refresh[q].target = s)]]
    /\ UNCHANGED <<clockVars, pageVars, session, batches, rows, active, lock, call,
                   reply, drain, reader, supersededAt, lostActive>>

\* A foreign key refuses a link, or the connection is lost.
RefreshFail(r) ==
    /\ refresh[r].phase # "idle"
    /\ refresh' = [refresh EXCEPT ![r] = IdleRefresh]
    /\ UNCHANGED <<vars, drain, reader, supersededAt, lostActive>>

-----------------------------------------------------------------------------
(* run_cleanup_cycle *)

\* Faulty: an off-by-one at the threshold.
SupersededStrictly(now) ==
    {s \in Sessions : /\ snapshot[s].state = "ready"
                      /\ snapshot[s].readyAt + SupersededRetention < now
                      /\ s # active}

Superseded(now) ==
    {s \in Sessions : /\ snapshot[s].state = "ready"
                      /\ snapshot[s].readyAt + SupersededRetention <= now
                      /\ s # active}

\* ORDER BY ready_at LIMIT superseded_cleanup_limit
Candidates(now) ==
    {s \in Superseded(now) :
        Cardinality({x \in Superseded(now) :
                        snapshot[x].readyAt < snapshot[s].readyAt}) < SupersededLimit}

DrainSelect(d) ==
    /\ drain[d].phase = "idle"
    /\ \E now \in CallTimes : \E s \in Candidates(now) :
          drain' = [drain EXCEPT ![d] = [phase |-> "batch", target |-> s, table |-> 1]]
    /\ UNCHANGED <<vars, refresh, reader, supersededAt, lostActive>>

\* Faulty: checked once, when the candidates were selected.
NotRechecked(s) == TRUE

StillSuperseded(s) == active # s

\* Every batch is a transaction that looks at the active snapshot first.
DrainCheck(d) ==
    /\ drain[d].phase = "batch"
    /\ drain' = IF StillSuperseded(drain[d].target)
                THEN [drain EXCEPT ![d].phase = "checked"]
                ELSE [drain EXCEPT ![d] = IdleDrain]
    /\ UNCHANGED <<vars, refresh, reader, supersededAt, lostActive>>

LoseBatch(d, s) ==
    lostActive' = IF s = active THEN [lostActive EXCEPT ![s][d] = @ + 1]
                  ELSE lostActive

TableEmpty(s, t) == rows[s][t] = 0

NextTable(d) == [drain EXCEPT ![d].phase = "batch", ![d].table = @ + 1]

NextBatch(d) == [drain EXCEPT ![d].phase = "batch"]

DrainLinks(d) ==
    LET s == drain[d].target IN
    /\ drain[d].phase = "checked"
    /\ drain[d].table = 1
    /\ IF links[s] = {}
       THEN drain' = NextTable(d) /\ UNCHANGED <<links, lostActive>>
       ELSE /\ drain' = NextBatch(d)
            /\ links' = [links EXCEPT ![s] = {}]
            /\ LoseBatch(d, s)
    /\ UNCHANGED <<clockVars, pageVars, session, batches, snapshot, rows, active,
                   lock, call, reply, refresh, reader, supersededAt>>

\* The last relation rows take any links a refresh has put back with them.
DrainTable(d) ==
    LET s == drain[d].target
        t == ChildTables[drain[d].table]
    IN
    /\ drain[d].phase = "checked"
    /\ drain[d].table \in 2..4
    /\ IF TableEmpty(s, t)
       THEN drain' = NextTable(d) /\ UNCHANGED <<rows, links, lostActive>>
       ELSE /\ drain' = NextBatch(d)
            /\ rows' = [rows EXCEPT ![s][t] = @ - 1]
            /\ links' = IF t = "relations" /\ rows[s][t] = 1
                        THEN [links EXCEPT ![s] = {}] ELSE links
            /\ LoseBatch(d, s)
    /\ UNCHANGED <<clockVars, pageVars, session, batches, snapshot, active,
                   lock, call, reply, refresh, reader, supersededAt>>

RowDeletable(s) ==
    /\ snapshot[s].state = "ready"
    /\ active # s
    /\ rows[s]["files"] = 0

\* The session and its batches reference the snapshot row and go with it.
DrainRow(d) ==
    LET s == drain[d].target IN
    /\ drain[d].phase = "checked"
    /\ drain[d].table = 5
    /\ ~BeingDropped(s)
    /\ IF RowDeletable(s)
       THEN /\ snapshot' = [snapshot EXCEPT ![s].state = "deleted"]
            /\ session' = [session EXCEPT ![s].state = "deleted"]
            /\ batches' = [batches EXCEPT ![s] = [x \in Slots |-> None]]
            /\ rows' = [rows EXCEPT ![s] = NoRows]
            /\ links' = [links EXCEPT ![s] = {}]
       ELSE UNCHANGED storeVars
    /\ drain' = [drain EXCEPT ![d] = IdleDrain]
    /\ UNCHANGED <<clockVars, pageVars, active, lock, call, reply, refresh, reader,
                   supersededAt, lostActive>>

\* The cycle's row ceiling, a failed statement or the end of the process.
DrainStop(d) ==
    /\ drain[d].phase # "idle"
    /\ drain' = [drain EXCEPT ![d] = IdleDrain]
    /\ UNCHANGED <<vars, refresh, reader, supersededAt, lostActive>>

-----------------------------------------------------------------------------
(* search: the active snapshot in one statement, its rows in later ones *)

ReadStatus(r) ==
    /\ reader[r].target = None
    /\ active # None
    /\ reader' = [reader EXCEPT ![r] = [target |-> active, saw |-> "nothing"]]
    /\ UNCHANGED <<vars, refresh, drain, supersededAt, lostActive>>

ReadRows(r) ==
    LET s == reader[r].target IN
    /\ s # None
    /\ reader' = [reader EXCEPT ![r] =
           [target |-> None,
            saw |-> IF rows[s] = FullRows THEN "whole" ELSE "torn"]]
    /\ UNCHANGED <<vars, refresh, drain, supersededAt, lostActive>>

-----------------------------------------------------------------------------
(* The operator: the manual revert target of docs/code-graph-publishing.md *)

Revert(s) ==
    /\ Reverts
    /\ snapshot[s].state = "ready"
    /\ s # active
    /\ active' = s
    /\ Supersede
    /\ lostActive' = [lostActive EXCEPT ![s] = [d \in Drainers |-> 0]]
    /\ UNCHANGED <<clockVars, pageVars, session, batches, snapshot, rows, links,
                   lock, call, reply, refresh, drain, reader>>

-----------------------------------------------------------------------------

RefreshStep(r) ==
    \/ RefreshSelect(r) \/ RefreshReadPages(r) \/ RefreshReadGeneration(r)
    \/ RefreshDelete(r) \/ RefreshCommit(r) \/ RefreshFail(r)

DrainStep(d) ==
    \/ DrainSelect(d) \/ DrainCheck(d)
    \/ DrainLinks(d) \/ DrainTable(d) \/ DrainRow(d)

LifeNext ==
    \/ PublicationStep
    \/ \E r \in Refreshers : RefreshStep(r)
    \/ \E d \in Drainers : DrainStep(d) \/ DrainStop(d)
    \/ \E r \in Readers : ReadStatus(r) \/ ReadRows(r)
    \/ \E s \in Sessions : Revert(s)

LifeSpec == LifeInit /\ [][LifeNext]_allVars

\* Time passes, requests keep scheduling cycles, a cycle runs its next batch,
\* and from some point on no cycle is stopped before its end.
LifeFairSpec ==
    /\ LifeSpec
    /\ WF_allVars(Tick /\ PublicationStep)
    /\ \A d \in Drainers : WF_allVars(DrainStep(d))
    /\ <>[][\A d \in Drainers : ~DrainStop(d)]_allVars

-----------------------------------------------------------------------------
(* Properties *)

RefreshRows == [phase : {"idle", "selected", "read", "counted", "deleted"},
                target : Sessions \cup {None}, view : Views, gen : Nat,
                derived : SUBSET LinkRows, overtaken : BOOLEAN]

DrainRows == [phase : {"idle", "batch", "checked"},
              target : Sessions \cup {None}, table : 1..5]

\* Every variable stays in its type.
LifeTypeOK ==
    /\ TypeOK
    /\ refresh \in [Refreshers -> RefreshRows]
    /\ drain \in [Drainers -> DrainRows]
    /\ reader \in [Readers -> [target : Sessions \cup {None},
                               saw : {"nothing", "whole", "torn"}]]
    /\ supersededAt \in [Sessions -> Nat \cup {None}]
    /\ lostActive \in [Sessions -> [Drainers -> Nat]]

\* The links that the stored Markdown revision of a snapshot derives to, of
\* those pages of its generation that are left.
StampedLinks(s) ==
    {[id |-> pages[p].id, text |-> snapshot[s].mdRev[p]] :
        p \in {q \in PagesSince(s) : snapshot[s].mdRev[q] # None}}

\* A snapshot active since its publication lacks none of the links its stored
\* Markdown revision stands for: refresh_wiki_links says that either the whole
\* link set is replaced and the revision advances, or nothing is touched.  (Of
\* two refreshes at once, the second leaves links of the first beside its own.)
LinksMatchRevision ==
    active # None /\ supersededAt[active] = None => StampedLinks(active) \subseteq links[active]

\* A search answers from all the rows of one snapshot or from none:
\* "reads see either old or new graph" (docs/architecture.md).
NoTornRead == \A r \in Readers : reader[r].saw # "torn"

\* Cleanup takes rows only from a snapshot that stopped being active at least
\* superseded_retention_seconds ago, as docs/code-graph-publishing.md says.
RetentionHonoured ==
    [][\A s \in Sessions : (\E t \in Tables : rows'[s][t] < rows[s][t]) =>
          supersededAt[s] # None /\ clock >= supersededAt[s] + SupersededRetention]_allVars

\* A snapshot made active again in the middle of its drain loses, from then on,
\* at most one batch to each cycle: the one whose check came before the revert.
RevertLosesOneBatch == \A s \in Sessions, d \in Drainers : lostActive[s][d] <= 1

\* The active snapshot lacks at most one batch: "an operator reverting to it
\* mid-drain loses at most one batch of its rows rather than the whole snapshot"
\* (docs/code-graph-publishing.md).
RevertedIsNearlyWhole ==
    active # None =>
        Cardinality({t \in Tables : rows[active][t] < TableRows}) <= 1

\* The backlog drains: a superseded snapshot past its retention is deleted in
\* the end, although every cycle may stop after any batch.
BacklogDrains ==
    \A s \in Sessions :
        (snapshot[s].state = "ready" /\ s # active
            /\ snapshot[s].readyAt + SupersededRetention <= MaxClock)
        ~> (snapshot[s].state # "ready" \/ s = active)

-----------------------------------------------------------------------------
(* The invariant of the proofs *)

WasReady(s) ==
    \/ snapshot[s].state = "ready"
    \/ snapshot[s].state = "deleted" /\ supersededAt[s] # None

\* A snapshot is ready when it becomes active, its generation is one that was
\* reached, and a ready one that is not active was superseded.
ReadyOnesKnown ==
    /\ active # None => snapshot[active].state = "ready"
    /\ \A s \in Sessions : snapshot[s].state = "ready" =>
          snapshot[s].mdGen <= generation /\ (s = active \/ supersededAt[s] # None)

\* A refresh works on what was active; it counts a generation after it has read
\* the pages, and derives all links unless a drain has begun.
RefreshesKnow ==
    \A r \in Refreshers : refresh[r].phase # "idle" =>
        LET s == refresh[r].target IN
        /\ s \in Sessions /\ WasReady(s)
        /\ refresh[r].phase \in {"counted", "deleted"} => refresh[r].gen <= generation
        /\ refresh[r].phase = "deleted" /\ supersededAt[s] = None =>
              refresh[r].derived = Derive(refresh[r].view)

\* A cycle works on what was superseded.
DrainsKnow ==
    \A d \in Drainers : drain[d].phase # "idle" =>
        LET s == drain[d].target IN s \in Sessions /\ WasReady(s) /\ supersededAt[s] # None

\* A cycle that has taken a batch from an active snapshot has to check again.
LossesBounded ==
    \A s \in Sessions, d \in Drainers :
        /\ lostActive[s][d] <= 1
        /\ lostActive[s][d] = 1 => WasReady(s)
        /\ lostActive[s][d] = 1 /\ s = active =>
              ~(drain[d].phase = "checked" /\ drain[d].target = s)

\* A snapshot active since its publication is whole.
LinksStand ==
    active # None /\ supersededAt[active] = None =>
        rows[active] = FullRows /\ StampedLinks(active) \subseteq links[active]

LifeInv ==
    /\ LifeTypeOK
    /\ RowsAgree /\ CallsHoldRows /\ PagesAreNumbered
    /\ ReadyOnesKnown /\ RefreshesKnow /\ DrainsKnow
    /\ LossesBounded /\ LinksStand
=============================================================================
