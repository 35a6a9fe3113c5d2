---------------------------- MODULE PgPublication ----------------------------
(***************************************************************************)
(* Publication of code-graph snapshots into one PostgreSQL domain          *)
(* (src/iwiki_mcp/postgres/codegraph.py, PostgresCodeGraphStore).          *)
(*                                                                         *)
(* A publisher begins a session, sends batches, and finalizes or aborts.   *)
(* Every call is one READ COMMITTED transaction: each statement sees what  *)
(* had committed when it started, so a call of several statements is       *)
(* several steps here.  Two locks order the calls: the session row         *)
(* (SELECT ... FOR UPDATE) and the domain's advisory lock.  Pages of the   *)
(* domain change under the publishers' feet; every change advances the     *)
(* domain's Markdown generation in the same transaction.                   *)
(*                                                                         *)
(* begin creates one session and one snapshot with fresh random ids; both  *)
(* are named by the session here.                                          *)
(***************************************************************************)
EXTENDS Naturals, FiniteSets

CONSTANTS
    Sessions,          \* ids that begin may draw
    Owners,            \* publisher identities
    Payloads,          \* graph payloads; a payload is its own revision hash
    Pages,             \* slugs of the domain
    DeletablePages,    \* slugs whose page somebody deletes
    Texts,             \* Markdown texts
    None,              \* SQL NULL, and "no such thing"
    MaxOrdinal,        \* bound: batch ordinals are 0..MaxOrdinal
    RowsPerKind,       \* rows of each kind a header announces
    TableRows,         \* cleanup batches an activated table fills
    Ttl,               \* publication_session_ttl_seconds
    StagingRetention,  \* staging_retention_seconds
    StagingLimit,      \* staging_cleanup_limit
    CallDelay,         \* bound: longest wait between a call's clock and its lock
    MaxClock,          \* bound on time
    MaxGeneration      \* bound on page changes

ASSUME PublicationAssumption ==
    /\ DeletablePages \subseteq Pages
    /\ None \notin Sessions \cup Owners \cup Payloads \cup Texts
    /\ {MaxOrdinal, RowsPerKind, TableRows, Ttl, StagingRetention,
        StagingLimit, CallDelay, MaxClock, MaxGeneration} \subseteq Nat

VARIABLES
    clock,       \* the time every caller reads
    pages,       \* iwiki.pages: slug -> text and page_id
    generation,  \* iwiki.domains.markdown_generation
    history,     \* generation -> the texts it stood for (no code reads it)
    session,     \* iwiki.code_graph_publication_sessions
    batches,     \* iwiki.code_graph_batches of each session
    snapshot,    \* iwiki.code_graph_snapshots
    rows,        \* cleanup batches left in each graph table of a snapshot
    links,       \* iwiki.code_graph_wiki_links of each snapshot
    active,      \* code_graph_domain_state.active_snapshot_id
    lock,        \* holder of the domain's advisory lock
    call,        \* the multi-statement call in flight on a session
    reply,       \* the last answer to a call on a session
    lapsed       \* sessions that were left for the retention (no code reads it)

clockVars == <<clock, lapsed>>
pageVars == <<pages, generation, history>>
storeVars == <<session, batches, snapshot, rows, links, active>>
vars == <<clockVars, pageVars, storeVars, lock, call, reply>>

-----------------------------------------------------------------------------
(* Data *)

Kinds == {"files", "symbols"}
Tables == {"files", "symbols", "relations"}
BadSlot == [kind |-> "unknown", ordinal |-> 0]
Slots == [kind : Kinds, ordinal : 0..MaxOrdinal]

PageRows == [text : Texts \cup {None}, id : Nat]
Views == [Pages -> PageRows]
NoPages == [p \in Pages |-> [text |-> None, id |-> 0]]
TextsOf(view) == [p \in Pages |-> view[p].text]
MarkdownRevisions == [Pages -> Texts \cup {None}]
LinkRows == [id : Nat, text : Texts]

Revisions == [payload : Payloads, markdown : MarkdownRevisions]

SessionStates == {"none", "staging", "ready", "aborted", "deleted"}
SnapshotStates == {"none", "staging", "ready", "failed", "deleted"}
Phases == {"idle", "cleaning", "counted",
           "locked", "read", "holding", "based", "checked"}
Replies == {"none", "begun", "accepted", "ready", "aborted", "unauthorized",
            "session_expired", "snapshot_conflict", "invalid_batch",
            "batch_conflict", "snapshot_incomplete", "revision_mismatch",
            "markdown_unavailable", "busy", "error"}

IdleCall == [phase |-> "idle", now |-> 0, view |-> NoPages,
             expired |-> {}, dropped |-> {}, gen |-> 0]
NoSnapshot == [state |-> "none", payload |-> None, revision |-> None,
               readyAt |-> 0, mdRev |-> TextsOf(NoPages), mdGen |-> 0]
NoRows == [t \in Tables |-> 0]
FullRows == [t \in Tables |-> TableRows]

\* _derive_links: a page's selectors resolve against the graph; one row per
\* page stands for the relations its text selects.
Derive(view) == {[id |-> view[p].id, text |-> view[p].text] :
                    p \in {q \in Pages : view[q].text # None}}

\* The moments a call that takes its locks now may have read its clock.
CallTimes == {n \in 0..clock : clock <= n + CallDelay}

ActiveRevision == IF active = None THEN None ELSE snapshot[active].revision

\* A finalize holds its session's row until it answers ...
RowLocked(s) == call[s].phase \in {"locked", "read", "holding", "based", "checked"}

\* ... and a begin the rows it has deleted.
BeingDropped(s) == \E t \in Sessions : s \in call[t].dropped

Init ==
    /\ clock = 0
    /\ pages = NoPages
    /\ generation = 0
    /\ history = [g \in 0..0 |-> TextsOf(NoPages)]
    /\ session = [s \in Sessions |-> [state |-> "none", owner |-> None,
                                      lease |-> 0, base |-> None, gen |-> 0]]
    /\ batches = [s \in Sessions |-> [x \in Slots |-> None]]
    /\ snapshot = [s \in Sessions |-> NoSnapshot]
    /\ rows = [s \in Sessions |-> NoRows]
    /\ links = [s \in Sessions |-> {}]
    /\ active = None
    /\ lock = None
    /\ call = [s \in Sessions |-> IdleCall]
    /\ reply = [s \in Sessions |-> "none"]
    /\ lapsed = {}

\* A staging session whose lease ran out staging_retention_seconds ago.
Dead(s, now) == session[s].state = "staging" /\ session[s].lease + StagingRetention <= now

RecordLapsed == lapsed' = lapsed \cup {s \in Sessions : Dead(s, clock)}'

Tick ==
    /\ clock < MaxClock
    /\ clock' = clock + 1
    /\ UNCHANGED <<pageVars, storeVars, lock, call, reply>>
    /\ RecordLapsed

-----------------------------------------------------------------------------
(* Pages: each mutation bumps the generation in its own transaction *)

\* Faulty: the mutation forgets the counter.
SetPageSilently(p, row) ==
    /\ generation < MaxGeneration
    /\ pages' = [pages EXCEPT ![p] = row]
    /\ UNCHANGED <<clockVars, generation, history, session, batches, snapshot, rows,
                   active, lock, call, reply>>

\* A new page draws its page_id from a sequence: the generation its insert
\* creates is as fresh.
SetPage(p, row) ==
    /\ generation < MaxGeneration
    /\ generation' = generation + 1
    /\ pages' = [pages EXCEPT ![p] = row]
    /\ history' = [g \in 0..(generation + 1) |->
                      IF g <= generation THEN history[g] ELSE TextsOf(pages')]
    /\ UNCHANGED <<clockVars, session, batches, snapshot, rows, active, lock,
                   call, reply>>

WritePage(p, t) ==
    /\ pages[p].text = None
    /\ SetPage(p, [text |-> t, id |-> generation + 1])
    /\ UNCHANGED links

UpdatePage(p, t) ==
    /\ pages[p].text # None
    /\ SetPage(p, [pages[p] EXCEPT !.text = t])
    /\ UNCHANGED links

\* The page's derived links go with it (ON DELETE CASCADE, migration 8).
DeletePage(p) ==
    /\ p \in DeletablePages
    /\ pages[p].text # None
    /\ SetPage(p, [text |-> None, id |-> 0])
    /\ links' = [s \in Sessions |-> {l \in links[s] : l.id # pages[p].id}]

-----------------------------------------------------------------------------
(* begin *)

\* Faulty: the retention is forgotten.
ExpiredLeases(now) ==
    {s \in Sessions : session[s].state = "staging" /\ session[s].lease <= now}

ExpiredStaging(now) == {s \in Sessions : Dead(s, now)}

\* ORDER BY lease_expires_at LIMIT staging_cleanup_limit
OldestExpired(now) ==
    {E \in SUBSET ExpiredStaging(now) :
        /\ Cardinality(E) <= StagingLimit
        /\ E # ExpiredStaging(now) => Cardinality(E) = StagingLimit
        /\ \A e \in E, x \in ExpiredStaging(now) \ E :
              session[e].lease <= session[x].lease}

\* The SELECT of _cleanup_staging locks nothing.
BeginSelect(s) ==
    /\ session[s].state = "none"
    /\ call[s].phase = "idle"
    /\ \E now \in CallTimes : \E E \in OldestExpired(now) :
          call' = [call EXCEPT ![s] = [IdleCall EXCEPT !.phase = "cleaning",
                                                       !.now = now,
                                                       !.expired = E]]
    /\ UNCHANGED <<clockVars, pageVars, storeVars, lock, reply>>

Droppable(e) == ~RowLocked(e) /\ ~BeingDropped(e)

\* One DELETE after the other, oldest lease first.  It waits for whoever holds
\* the row, and names the session only: whatever state the row has reached.
BeginDrop(s) ==
    /\ call[s].phase = "cleaning"
    /\ \E e \in call[s].expired :
          /\ \A x \in call[s].expired : session[e].lease <= session[x].lease
          /\ Droppable(e)
          /\ call' = [call EXCEPT ![s].expired = @ \ {e},
                                  ![s].dropped = IF session[e].state = "deleted"
                                                 THEN @ ELSE @ \cup {e}]
    /\ UNCHANGED <<clockVars, pageVars, storeVars, lock, reply>>

BeginReadGeneration(s) ==
    /\ call[s].phase = "cleaning"
    /\ call[s].expired = {}
    /\ call' = [call EXCEPT ![s].phase = "counted", ![s].gen = generation]
    /\ UNCHANGED <<clockVars, pageVars, storeVars, lock, reply>>

DropSessions(E) == [s \in E |-> [session[s] EXCEPT !.state = "deleted"]]

\* _discard_snapshot names the state too; nobody moves it while the session's
\* row is held.
DiscardSnapshots(E) ==
    [s \in E |-> IF snapshot[s].state = "staging"
                 THEN [snapshot[s] EXCEPT !.state = "deleted"]
                 ELSE snapshot[s]]

\* The base is read and the two rows are inserted.  Nobody sees the rows before
\* the commit, so that it counts as of the read.
BeginCommit(s, o, p) ==
    LET E == call[s].dropped
        dropped == DropSessions(E)
        discarded == DiscardSnapshots(E)
    IN
    /\ call[s].phase = "counted"
    /\ session' = [t \in Sessions |->
           IF t = s THEN [state |-> "staging", owner |-> o,
                          lease |-> call[s].now + Ttl,
                          base |-> ActiveRevision, gen |-> call[s].gen]
           ELSE IF t \in E THEN dropped[t] ELSE session[t]]
    /\ batches' = [t \in Sessions |->
           IF t \in E THEN [x \in Slots |-> None] ELSE batches[t]]
    /\ snapshot' = [t \in Sessions |->
           IF t = s THEN [NoSnapshot EXCEPT !.state = "staging",
                                            !.payload = p,
                                            !.mdGen = call[s].gen]
           ELSE IF t \in E THEN discarded[t] ELSE snapshot[t]]
    /\ call' = [call EXCEPT ![s] = IdleCall]
    /\ reply' = [reply EXCEPT ![s] = "begun"]
    /\ UNCHANGED <<clock, pageVars, rows, links, active, lock>>
    /\ RecordLapsed

\* A lost connection, a cancelled statement or a deadlock of two cleanups: the
\* dropped rows are back, and there is no session.
BeginFail(s) ==
    /\ call[s].phase \in {"cleaning", "counted"}
    /\ call' = [call EXCEPT ![s] = IdleCall]
    /\ UNCHANGED <<clockVars, pageVars, storeVars, lock, reply>>

-----------------------------------------------------------------------------
(* publish_batch *)

Known(s) == session[s].state \in {"staging", "ready", "aborted"}

\* _guard: owner before state, state before lease.
Rejection(s, o, now) ==
    IF ~Known(s) \/ session[s].owner # o THEN "unauthorized"
    ELSE IF session[s].state = "staging" /\ session[s].lease <= now
         THEN "session_expired"
    ELSE "none"

\* Faulty: the guard lets a terminal session through and nobody looks again.
BatchVerdictStateless(s, o, now, x, content) ==
    IF Rejection(s, o, now) # "none" THEN Rejection(s, o, now)
    ELSE IF x \notin Slots THEN "invalid_batch"
    ELSE IF batches[s][x] \notin {None, content} THEN "batch_conflict"
    ELSE "accepted"

BatchVerdict(s, o, now, x, content) ==
    IF Rejection(s, o, now) # "none" THEN Rejection(s, o, now)
    ELSE IF session[s].state # "staging" THEN "snapshot_conflict"
    ELSE IF x \notin Slots THEN "invalid_batch"
    ELSE IF batches[s][x] \notin {None, content} THEN "batch_conflict"
    ELSE "accepted"

PublishBatch(s, o, x, content) ==
    /\ session[s].state # "none"
    /\ call[s].phase = "idle"
    /\ ~BeingDropped(s)
    /\ \E now \in CallTimes :
        LET verdict == BatchVerdict(s, o, now, x, content) IN
        /\ reply' = [reply EXCEPT ![s] = verdict]
        /\ \/ /\ verdict = "accepted"
              /\ batches' = [batches EXCEPT ![s][x] = content]
              /\ session' = [session EXCEPT ![s].lease = now + Ttl]
           \/ /\ verdict # "accepted"
              /\ UNCHANGED <<batches, session>>
    /\ UNCHANGED <<clock, pageVars, snapshot, rows, links, active, lock, call>>
    /\ RecordLapsed

-----------------------------------------------------------------------------
(* finalize *)

Sent(s, k) == {i \in 0..MaxOrdinal : batches[s][[kind |-> k, ordinal |-> i]] # None}
ContentsOf(s, k) ==
    {batches[s][[kind |-> k, ordinal |-> i]] : i \in Sent(s, k)}

\* _materialize, then the payload hash against the header's.
Materialized(s) ==
    IF \E k \in Kinds : \E i \in Sent(s, k) : ~(0..i \subseteq Sent(s, k))
    THEN "invalid_batch"
    ELSE IF \E k \in Kinds : Cardinality(Sent(s, k)) # RowsPerKind
    THEN "snapshot_incomplete"
    ELSE IF ~(ContentsOf(s, "symbols") \subseteq ContentsOf(s, "files"))
    THEN "invalid_batch"
    ELSE IF \E k \in Kinds : ContentsOf(s, k) # {snapshot[s].payload}
    THEN "revision_mismatch"
    ELSE "complete"

FinalizeVerdict(s, o, now) ==
    IF Rejection(s, o, now) # "none" THEN Rejection(s, o, now)
    ELSE IF session[s].state # "staging" THEN session[s].state
    ELSE Materialized(s)

FinalizeLock(s, o) ==
    /\ session[s].state # "none"
    /\ call[s].phase = "idle"
    /\ ~BeingDropped(s)
    /\ \E now \in CallTimes :
        LET verdict == FinalizeVerdict(s, o, now) IN
        \/ /\ verdict = "complete"
           /\ call' = [call EXCEPT ![s].phase = "locked", ![s].now = now]
           /\ UNCHANGED reply
        \/ /\ verdict # "complete"
           /\ reply' = [reply EXCEPT ![s] = verdict]
           /\ UNCHANGED call
    /\ UNCHANGED <<clockVars, pageVars, storeVars, lock>>

\* The transaction rolls back, or commits having written nothing.
Return(s, answer) ==
    /\ call' = [call EXCEPT ![s] = IdleCall]
    /\ reply' = [reply EXCEPT ![s] = answer]
    /\ lock' = IF lock = s THEN None ELSE lock
    /\ UNCHANGED <<clockVars, pageVars, storeVars>>

FinalizeReadPages(s) ==
    /\ call[s].phase = "locked"
    /\ call' = [call EXCEPT ![s].phase = "read", ![s].view = pages]
    /\ UNCHANGED <<clockVars, pageVars, storeVars, lock, reply>>

FinalizePagesUnreadable(s) ==
    /\ call[s].phase = "locked"
    /\ Return(s, "markdown_unavailable")

\* Faulty: nobody takes the advisory lock.
LockIgnored == TRUE

LockFree == lock = None

FinalizeAcquire(s) ==
    /\ call[s].phase = "read"
    /\ LockFree
    /\ lock' = s
    /\ call' = [call EXCEPT ![s].phase = "holding"]
    /\ UNCHANGED <<clockVars, pageVars, storeVars, reply>>

\* Faulty: no lock_timeout is set.
NeverBusy(s) == FALSE

\* lock_timeout expires while another finalize holds the domain.
FinalizeBusy(s) ==
    /\ call[s].phase = "read"
    /\ ~LockFree
    /\ Return(s, "busy")

\* Faulty: the comparison is skipped.
NotCompared(s) == TRUE

BaseUnchanged(s) == ActiveRevision = session[s].base

GenerationUnchanged(s) == generation = session[s].gen

FinalizeCheckBase(s) ==
    /\ call[s].phase = "holding"
    /\ \/ /\ BaseUnchanged(s)
          /\ call' = [call EXCEPT ![s].phase = "based"]
          /\ UNCHANGED <<clockVars, pageVars, storeVars, lock, reply>>
       \/ /\ ~BaseUnchanged(s)
          /\ Return(s, "snapshot_conflict")

FinalizeCheckGeneration(s) ==
    /\ call[s].phase = "based"
    /\ \/ /\ GenerationUnchanged(s)
          /\ call' = [call EXCEPT ![s].phase = "checked"]
          /\ UNCHANGED <<clockVars, pageVars, storeVars, lock, reply>>
       \/ /\ ~GenerationUnchanged(s)
          /\ Return(s, "snapshot_conflict")

\* Foreign key of code_graph_wiki_links onto pages.
LinkTargetsExist(view) ==
    \A p \in Pages : view[p].text # None =>
        pages[p].text # None /\ pages[p].id = view[p].id

FinalizeActivate(s) ==
    /\ call[s].phase = "checked"
    /\ LinkTargetsExist(call[s].view)
    /\ snapshot' = [snapshot EXCEPT
           ![s].state = "ready",
           ![s].revision = [payload |-> snapshot[s].payload,
                            markdown |-> TextsOf(call[s].view)],
           ![s].readyAt = call[s].now,
           ![s].mdRev = TextsOf(call[s].view)]
    /\ rows' = [rows EXCEPT ![s] = FullRows]
    /\ links' = [links EXCEPT ![s] = Derive(call[s].view)]
    /\ active' = s
    /\ session' = [session EXCEPT ![s].state = "ready"]
    /\ lock' = None
    /\ call' = [call EXCEPT ![s] = IdleCall]
    /\ reply' = [reply EXCEPT ![s] = "ready"]
    /\ UNCHANGED <<clockVars, pageVars, batches>>

\* A page was deleted under a derived link: the insert raises.
FinalizeLinkRefused(s) ==
    /\ call[s].phase = "checked"
    /\ ~LinkTargetsExist(call[s].view)
    /\ Return(s, "error")

\* A lost connection or a cancelled statement rolls the transaction back.
FinalizeFail(s) ==
    /\ RowLocked(s)
    /\ Return(s, "error")

-----------------------------------------------------------------------------
(* abort *)

\* No lease check, and a terminal session answers with its terminal result.
AbortVerdict(s, o) ==
    IF ~Known(s) \/ session[s].owner # o THEN "unauthorized"
    ELSE IF session[s].state = "ready" THEN "ready"
    ELSE "aborted"

Abort(s, o) ==
    /\ session[s].state # "none"
    /\ call[s].phase = "idle"
    /\ ~BeingDropped(s)
    /\ reply' = [reply EXCEPT ![s] = AbortVerdict(s, o)]
    /\ \/ /\ AbortVerdict(s, o) = "aborted"
          /\ session' = [session EXCEPT ![s].state = "aborted"]
          /\ batches' = [batches EXCEPT ![s] = [x \in Slots |-> None]]
          /\ snapshot' = [snapshot EXCEPT ![s].state = "failed"]
       \/ /\ AbortVerdict(s, o) # "aborted"
          /\ UNCHANGED <<session, batches, snapshot>>
    /\ UNCHANGED <<clockVars, pageVars, rows, links, active, lock, call>>

-----------------------------------------------------------------------------

PageStep ==
    \E p \in Pages :
        \/ \E t \in Texts : WritePage(p, t) \/ UpdatePage(p, t)
        \/ DeletePage(p)

FinalizeStep(s) ==
    \/ FinalizeReadPages(s) \/ FinalizePagesUnreadable(s)
    \/ FinalizeAcquire(s) \/ FinalizeBusy(s)
    \/ FinalizeCheckBase(s) \/ FinalizeCheckGeneration(s)
    \/ FinalizeActivate(s) \/ FinalizeLinkRefused(s)

PublisherStep(s) ==
    \/ BeginSelect(s) \/ BeginDrop(s) \/ BeginReadGeneration(s) \/ BeginFail(s)
    \/ \E o \in Owners :
          \/ \E p \in Payloads : BeginCommit(s, o, p)
          \/ \E x \in Slots \cup {BadSlot}, c \in Payloads : PublishBatch(s, o, x, c)
          \/ FinalizeLock(s, o)
          \/ Abort(s, o)
    \/ FinalizeStep(s)
    \/ FinalizeFail(s)

Next == Tick \/ PageStep \/ \E s \in Sessions : PublisherStep(s)

Spec == Init /\ [][Next]_vars

\* The server runs every statement of a call it has started, and a waiter for
\* a row lock is queued: it gets the row if the row is released again and again.
FairSpec ==
    /\ Spec
    /\ \A s \in Sessions :
          /\ WF_vars(FinalizeStep(s))
          /\ SF_vars(BeginDrop(s))
          /\ WF_vars(BeginReadGeneration(s))
          /\ WF_vars(\E o \in Owners, p \in Payloads : BeginCommit(s, o, p))

-----------------------------------------------------------------------------
(* Properties *)

Calls == [phase : Phases, now : Nat, view : Views, expired : SUBSET Sessions,
          dropped : SUBSET Sessions, gen : Nat]

SessionRows == [state : SessionStates, owner : Owners \cup {None}, lease : Nat,
                base : Revisions \cup {None}, gen : Nat]

SnapshotRows == [state : SnapshotStates, payload : Payloads \cup {None},
                 revision : Revisions \cup {None}, readyAt : Nat,
                 mdRev : MarkdownRevisions, mdGen : Nat]

\* Every variable stays in its type.
TypeOK ==
    /\ clock \in Nat
    /\ generation \in Nat
    /\ pages \in Views
    /\ history \in [0..generation -> MarkdownRevisions]
    /\ session \in [Sessions -> SessionRows]
    /\ batches \in [Sessions -> [Slots -> Payloads \cup {None}]]
    /\ snapshot \in [Sessions -> SnapshotRows]
    /\ rows \in [Sessions -> [Tables -> Nat]]
    /\ links \in [Sessions -> SUBSET LinkRows]
    /\ active \in Sessions \cup {None}
    /\ lock \in Sessions \cup {None}
    /\ call \in [Sessions -> Calls]
    /\ reply \in [Sessions -> Replies]
    /\ lapsed \subseteq Sessions

\* The active snapshot is ready, holds all of its graph rows, and its stored
\* batches are the complete payload its header announced: the batches read by
\* _materialize cannot move before _activate commits.
ActiveIsWhole ==
    active # None =>
        /\ snapshot[active].state = "ready"
        /\ rows[active] = FullRows
        /\ session[active].state = "ready" => Materialized(active) = "complete"

\* A ready snapshot's Markdown revision describes the pages as they were at its
\* Markdown generation, although finalize reads pages and generation in
\* different statements: links_stale (codegraph/linking.py) takes equal
\* generations for equal content.
GenerationNamesRevision ==
    \A s \in Sessions : snapshot[s].state = "ready" =>
        snapshot[s].mdRev = history[snapshot[s].mdGen]

\* links_stale answers FALSE for the active snapshot.
ReportedCurrent ==
    /\ active # None
    /\ \/ snapshot[active].mdGen = generation
       \/ snapshot[active].mdRev = TextsOf(pages)

\* The live pages that were there at the generation of a snapshot.
PagesSince(s) ==
    {p \in Pages : pages[p].text # None /\ pages[p].id <= snapshot[s].mdGen}

\* Links reported current are the links that these pages derive to now: the
\* docstring of links_stale lets content decide, whatever happened in between.
\* A page that was deleted and written again with its old text is the exception:
\* its links went with it, and the content is the same.
CurrentLinksAreDerived ==
    ReportedCurrent =>
        links[active] = {[id |-> pages[p].id, text |-> pages[p].text] : p \in PagesSince(active)}

BasedOnActive == active' # active => session[active'].base = ActiveRevision

\* No publication replaces a revision it was not based on: of two sessions that
\* began on one revision, the second to finalize is refused.
NoLostPublication == [][BasedOnActive]_vars

\* A session that was never left for the retention keeps its row, and with it the
\* terminal result that a repeated finalize or abort replays: no begin that chose
\* it to clean up deletes it after it was finalized, however long a finalize takes.
\* (One that was left so long and then finalized in the middle of a cleanup is
\* deleted with its result.)
ResultKept ==
    [][\A s \in Sessions :
          session[s].state \in {"ready", "aborted"} /\ s \notin lapsed =>
              session'[s].state = session[s].state]_vars

\* Every call returns: no finalize waits for ever on the domain lock, and no
\* begin on the row of a session it is about to clean up.
CallsReturn ==
    \A s \in Sessions : call[s].phase # "idle" ~> call[s].phase = "idle"

\* A session and its snapshot reach their states together, and a header is
\* known as soon as there is a session.
RowsAgree ==
    \A s \in Sessions :
        /\ session[s].state = "none" => snapshot[s].state = "none"
        /\ session[s].state = "staging" =>
              /\ snapshot[s].state = "staging"
              /\ snapshot[s].payload \in Payloads
              /\ snapshot[s].mdGen = session[s].gen
              /\ session[s].gen <= generation
        /\ session[s].state = "aborted" => snapshot[s].state = "failed"

\* The row lock of a finalize in flight keeps its session staging and its
\* batches complete, and a begin in flight keeps its fresh ids to itself and
\* holds the rows it drops.
CallsHoldRows ==
    \A s \in Sessions :
        /\ call[s].phase \in {"cleaning", "counted"} => session[s].state = "none"
        /\ RowLocked(s) => session[s].state = "staging" /\ Materialized(s) = "complete"
        /\ \A e \in call[s].expired \cup call[s].dropped : session[e].state # "none"
        /\ \A e \in call[s].dropped : ~RowLocked(e)
        /\ call[s].phase = "counted" => call[s].gen <= generation

\* Exactly the finalize between its acquire and its answer holds the domain.
HoldersHold ==
    \A s \in Sessions : lock = s <=> call[s].phase \in {"holding", "based", "checked"}

\* What a finalize has compared under the lock stays so until it answers.
BaseStaysChecked ==
    \A s \in Sessions :
        call[s].phase \in {"based", "checked"} => ActiveRevision = session[s].base

\* The pages a finalize has read are the pages of some generation since its
\* begin; once the generation is compared, of the generation of its begin.
ViewsAreHistory ==
    /\ history[generation] = TextsOf(pages)
    /\ \A s \in Sessions :
          /\ call[s].phase \in {"read", "holding", "based"} =>
                \E g \in session[s].gen..generation : TextsOf(call[s].view) = history[g]
          /\ call[s].phase = "checked" =>
                TextsOf(call[s].view) = history[session[s].gen]
          /\ snapshot[s].state = "ready" => snapshot[s].mdGen <= generation

\* The inductive invariant of the protocol: it holds because the session row
\* stays locked from _guard to the answer, and the advisory lock from the
\* comparison of the base to the answer.
PublicationInv ==
    /\ TypeOK
    /\ RowsAgree
    /\ CallsHoldRows
    /\ HoldersHold
    /\ BaseStaysChecked
    /\ ViewsAreHistory
    /\ ActiveIsWhole
    /\ GenerationNamesRevision

\* Live pages are told apart by ids as fresh as the generation of their insert,
\* and history has known them since.
PagesAreNumbered ==
    /\ \A p \in Pages : pages[p].text # None =>
          /\ pages[p].id \in 1..generation
          /\ \A g \in pages[p].id..generation : history[g][p] # None
    /\ \A p, q \in Pages :
          pages[p].text # None /\ pages[q].text # None /\ pages[p].id = pages[q].id => p = q

\* The pages a finalize has read are no younger than the generation it compares.
ViewsAreNumbered ==
    \A s \in Sessions : \A p \in Pages : call[s].view[p].text # None =>
        /\ call[s].phase \in {"read", "holding", "based"} => call[s].view[p].id <= generation
        /\ call[s].phase = "checked" => call[s].view[p].id <= session[s].gen

\* What is left of the links of the active snapshot: those of the pages that
\* are left of its generation.
ActiveLinksFollowPages ==
    active # None =>
        /\ \A p \in PagesSince(active) : snapshot[active].mdRev[p] # None
        /\ links[active] = {[id |-> pages[p].id, text |-> snapshot[active].mdRev[p]] :
                               p \in PagesSince(active)}

\* With the invariant of the protocol, this is inductive.
LinksInv == PagesAreNumbered /\ ViewsAreNumbered /\ ActiveLinksFollowPages

\* A dead session has lapsed, and a cleanup takes only what has.
LapsedInv ==
    \A s \in Sessions :
        /\ Dead(s, clock) => s \in lapsed
        /\ call[s].expired \cup call[s].dropped \subseteq lapsed

\* What a session still holds: the right to replace the revision it began on.
Ticket ==
    [s \in Sessions |->
        IF session[s].state = "staging"
        THEN [open |-> TRUE, base |-> session[s].base]
        ELSE [open |-> FALSE, base |-> None]]

Register == INSTANCE SnapshotRegister WITH value <- ActiveRevision, ticket <- Ticket

\* The whole protocol is a compare-and-swap register of revisions.
ImplementsRegister == Register!Spec
=============================================================================
