----------------------------- MODULE LocalGraph -----------------------------
(***************************************************************************)
(* The code graph that local servers share in one cache directory          *)
(* (src/iwiki_mcp/codegraph/indexer.py, runtime.py, store.py).             *)
(*                                                                         *)
(* A build captures the Wiki's selectors, scans the sources, writes a      *)
(* database aside and renames it over the canonical one; a metadata file   *)
(* beside it says what the database is, before, while and after it is      *)
(* replaced.  Queries first make sure that sources and selectors are those *)
(* of the graph.  Builders and queries are threads of several processes    *)
(* that share two file locks, the Wiki's and the graph's; any process may  *)
(* die at any step, and its locks with it.                                 *)
(***************************************************************************)
EXTENDS Naturals, FiniteSets

CONSTANTS
    Processes,
    Asking,       \* the processes whose clients search
    Contents,     \* what the sources, or the selectors of the Wiki, may be
    Original,     \* what they are at first
    Nil,
    MaxBuilds,    \* bound: builds started
    MaxEdits,     \* bound: changes of sources and selectors
    MaxCrashes    \* bound: processes that die

ASSUME GraphAssumption ==
    /\ Asking \subseteq Processes
    /\ Original \in Contents /\ Nil \notin Contents
    /\ Nil \notin {"build", "query"} \X Processes
    /\ {MaxBuilds, MaxEdits, MaxCrashes} \subseteq Nat

VARIABLES
    src, wiki,    \* the sources of the project and the selectors of the Wiki
    db,           \* the canonical database: its repository row and its file
    meta,         \* the metadata file
    holder,       \* the thread with the graph's write lock
    mutator,      \* the thread with the Wiki's lock to itself
    sharers,      \* the threads that share the Wiki's lock
    builder,      \* the build thread of each process
    query,        \* a query thread of each process
    begun, edits, crashes   \* counted for the bounds

inputVars == <<src, wiki, edits>>
lockVars == <<holder, mutator, sharers>>
countVars == <<begun, crashes>>
graphVars == <<src, wiki, db, meta, holder, mutator, sharers, builder, query,
          begun, edits, crashes>>

\* Read locks of the graph, and those of the Wiki but a build's, are taken and
\* released within one step.
Builds(p) == <<"build", p>>
Queries(p) == <<"query", p>>
Threads == {"build", "query"} \X Processes

\* A revision is the hash of everything the graph is made from.
Revisions == [src : Contents, wiki : Contents]
Now == [src |-> src, wiki |-> wiki]

\* "building" and "provisional" have state rebuilding; "pending" lacks its
\* diagnostics; "sealed" is the complete envelope; "plain" is any other record.
UnfinishedKinds == {"building", "provisional", "pending"}

NoMeta == [kind |-> "plain", state |-> "missing", gen |-> 0, rev |-> Nil,
           stamp |-> 0, prior |-> "missing", previous |-> Nil, restore |-> FALSE]

IdleBuilder == [pc |-> "idle", restore |-> FALSE, gen |-> 0,
                in |-> [src |-> Nil, wiki |-> Nil], prior |-> "missing",
                previous |-> Nil, fenced |-> TRUE, result |-> "nothing"]

IdleQuery == [pc |-> "idle", stage |-> "guard", meta |-> NoMeta, rev |-> Nil,
              seen |-> {}, rows |-> Nil]

GraphInit ==
    /\ src = Original /\ wiki = Original
    /\ db = [rev |-> Nil, state |-> "missing", stamp |-> 0, gen |-> 0]
    /\ meta = NoMeta
    /\ holder = Nil /\ mutator = Nil /\ sharers = {}
    /\ builder = [p \in Processes |-> IdleBuilder]
    /\ query = [p \in Processes |-> IdleQuery]
    /\ begun = 0 /\ edits = 0 /\ crashes = 0

-----------------------------------------------------------------------------
(* The inputs *)

\* Every query under way remembers what has been current since it was asked.
Witness(q) == IF q.pc = "idle" THEN q
              ELSE [q EXCEPT !.seen = @ \cup {[src |-> src', wiki |-> wiki']}]

Edited ==
    /\ edits < MaxEdits /\ edits' = edits + 1
    /\ query' = [p \in Processes |-> Witness(query[p])]
    /\ UNCHANGED <<db, meta, lockVars, builder, countVars>>

\* An editor asks nobody.
EditSources == src' \in Contents \ {src} /\ UNCHANGED wiki /\ Edited

\* A page tool has the Wiki's lock to itself.
EditWiki ==
    /\ mutator = Nil /\ sharers = {}
    /\ wiki' \in Contents \ {wiki} /\ UNCHANGED src /\ Edited

-----------------------------------------------------------------------------
(* The metadata and the row, written in this order by one thread *)

\* Every write to the database changes the stamp of its file.
MarkRow(state) == db' = [db EXCEPT !.state = state, !.stamp = @ + 1]

\* A sealed envelope is sealed again with the stamp of the file as it is now.
Resealed(state, gen) ==
    [meta EXCEPT !.state = state, !.gen = gen, !.stamp = db.stamp]

Plain(state, gen) ==
    [NoMeta EXCEPT !.state = state, !.gen = gen, !.rev = db.rev]

Transition(state, gen) ==
    meta' = IF meta.kind = "sealed" THEN Resealed(state, gen) ELSE Plain(state, gen)

\* The metadata speaks of the row and the file that are there.
MetaMatches ==
    /\ meta.kind = "sealed"
    /\ meta.state = db.state /\ meta.rev = db.rev /\ meta.stamp = db.stamp

\* Faulty: the selectors of the Wiki are no input.
ReadySources(inputs) == MetaMatches /\ db.state = "ready" /\ db.rev.src = inputs.src

\* _ready_metadata
ReadyFor(inputs) == MetaMatches /\ db.state = "ready" /\ db.rev = inputs
-----------------------------------------------------------------------------
(* CodeGraphIndexer.build *)

Goes(p, pc) == builder' = [builder EXCEPT ![p].pc = pc]

\* The locks that thread t has are free again.
Unlocked(t) ==
    /\ holder' = IF holder = t THEN Nil ELSE holder
    /\ mutator' = IF mutator = t THEN Nil ELSE mutator
    /\ sharers' = sharers \ {t}

Ends(p, result) ==
    /\ builder' = [builder EXCEPT ![p] = [IdleBuilder EXCEPT !.result = result]]
    /\ Unlocked(Builds(p))

Building(p) == builder[p].pc # "idle"

\* wiki_code_index, or a query's rebuild, which restores the prior state.
Started(p, restore) ==
    /\ begun < MaxBuilds /\ begun' = begun + 1
    /\ builder' = [builder EXCEPT ![p] =
           [IdleBuilder EXCEPT !.pc = "capture", !.restore = restore]]

Index(p) ==
    /\ ~Building(p)
    /\ Started(p, FALSE)
    /\ UNCHANGED <<inputVars, db, meta, lockVars, query, crashes>>

\* The selectors are read under a share of the Wiki's lock.
Capture(p) ==
    /\ builder[p].pc = "capture"
    /\ mutator = Nil
    /\ builder' = [builder EXCEPT ![p].pc = "lock", ![p].in.wiki = wiki]
    /\ UNCHANGED <<inputVars, db, meta, lockVars, query, countVars>>

\* With the graph's lock: the metadata, the row, then the sources.  A client
\* may force the build whatever graph there is.
Scan(p) ==
    LET b == builder[p] IN
    /\ b.pc = "lock"
    /\ holder = Nil
    /\ holder' = Builds(p)
    /\ \E pc \in {"compare"} \cup (IF b.restore THEN {} ELSE {"announce"}) :
          builder' = [builder EXCEPT ![p] =
              [b EXCEPT !.pc = pc, !.gen = meta.gen + 1, !.in.src = src,
                        !.prior = db.state, !.previous = db.rev]]
    /\ UNCHANGED <<inputVars, db, meta, mutator, sharers, query, countVars>>

\* The graph is the one a build would make: nobody may be writing pages.
NoOp(p) ==
    /\ builder[p].pc = "compare"
    /\ ReadyFor(builder[p].in)
    /\ mutator = Nil /\ wiki = builder[p].in.wiki
    /\ Ends(p, "ready")
    /\ UNCHANGED <<inputVars, db, meta, query, countVars>>

\* The selectors have changed since: the row, then the metadata are marked,
\* and the build goes on, for its own write broke the comparison's lease.
NoOpIsStale(p) ==
    /\ builder[p].pc = "compare"
    /\ ReadyFor(builder[p].in)
    /\ mutator = Nil /\ wiki # builder[p].in.wiki
    /\ MarkRow("dirty")
    /\ Goes(p, "stale")
    /\ UNCHANGED <<inputVars, meta, lockVars, query, countVars>>

MarkStale(p) ==
    /\ builder[p].pc = "stale"
    /\ Transition("dirty", meta.gen)
    /\ Goes(p, "announce")
    /\ UNCHANGED <<inputVars, db, lockVars, query, countVars>>

Compared(p) ==
    /\ builder[p].pc = "compare"
    /\ ~ReadyFor(builder[p].in)
    /\ Goes(p, "announce")
    /\ UNCHANGED <<inputVars, db, meta, lockVars, query, countVars>>

Announce(p) ==
    LET b == builder[p] IN
    /\ b.pc = "announce"
    /\ meta' = [kind |-> "building", state |-> "rebuilding", gen |-> b.gen,
                rev |-> b.previous, stamp |-> 0, prior |-> b.prior,
                previous |-> b.previous, restore |-> b.restore]
    /\ Goes(p, "resolve")
    /\ UNCHANGED <<inputVars, db, lockVars, query, countVars>>

\* The selectors are other ones than were captured: the locks go, and the
\* graph that is there is disowned.
SelectorsChanged(p) ==
    /\ builder[p].pc \in {"resolve", "guard"}
    /\ builder[p].pc = "guard" => mutator = Nil
    /\ wiki # builder[p].in.wiki
    /\ Goes(p, "disown")
    /\ Unlocked(Builds(p))
    /\ UNCHANGED <<inputVars, db, meta, query, countVars>>

\* Parsing, persisting and resolving, with the selectors looked at once more.
Resolve(p) ==
    /\ builder[p].pc = "resolve"
    /\ wiki = builder[p].in.wiki
    /\ Goes(p, "guard")
    /\ UNCHANGED <<inputVars, db, meta, lockVars, query, countVars>>

\* Faulty: the build waits for whoever has the Wiki's lock.
NobodyRefused == FALSE

WikiTaken == mutator # Nil

\* A build that holds the graph's lock never waits for the Wiki's.
Refused(p) ==
    /\ \/ builder[p].pc = "guard"
       \/ builder[p].pc = "compare" /\ ReadyFor(builder[p].in)
    /\ WikiTaken
    /\ Ends(p, "failed")
    /\ UNCHANGED <<inputVars, db, meta, query, countVars>>

\* The Wiki's lock is shared until the build ends.
Guard(p) ==
    /\ builder[p].pc = "guard"
    /\ mutator = Nil
    /\ wiki = builder[p].in.wiki
    /\ sharers' = sharers \cup {Builds(p)}
    /\ Goes(p, "replace")
    /\ UNCHANGED <<inputVars, db, meta, holder, mutator, query, countVars>>

\* The gate is passed, and the staging file is renamed.
Replace(p) ==
    /\ builder[p].pc = "replace"
    /\ db' = [rev |-> builder[p].in, state |-> "ready", stamp |-> db.stamp + 1,
              gen |-> builder[p].gen]
    /\ Goes(p, "provisional")
    /\ UNCHANGED <<inputVars, meta, lockVars, query, countVars>>

Describes(p, kind, state) ==
    [kind |-> kind, state |-> state, gen |-> builder[p].gen, rev |-> builder[p].in,
     stamp |-> IF kind = "provisional" THEN 0 ELSE db.stamp,
     prior |-> "missing", previous |-> Nil, restore |-> FALSE]

Provisional(p) ==
    /\ builder[p].pc = "provisional"
    /\ meta' = Describes(p, "provisional", "rebuilding")
    /\ Goes(p, "pending")
    /\ UNCHANGED <<inputVars, db, lockVars, query, countVars>>

\* The published file has been verified.
Pending(p) ==
    /\ builder[p].pc = "pending"
    /\ meta' = Describes(p, "pending", "ready")
    /\ Goes(p, "seal")
    /\ UNCHANGED <<inputVars, db, lockVars, query, countVars>>

\* It has been verified again.
Seal(p) ==
    /\ builder[p].pc = "seal"
    /\ meta' = Describes(p, "sealed", "ready")
    /\ Goes(p, "return")
    /\ UNCHANGED <<inputVars, db, lockVars, query, countVars>>

Return(p) ==
    /\ builder[p].pc = "return"
    /\ Ends(p, "ready")
    /\ UNCHANGED <<inputVars, db, meta, query, countVars>>

\* A deadline, a cancellation or an error: the metadata stays as it is.
Abort(p) ==
    /\ Building(p)
    /\ Ends(p, "failed")
    /\ UNCHANGED <<inputVars, db, meta, query, countVars>>

\* The pages cannot be read: whatever graph is there is disowned, the Wiki's
\* lock still shared.
SelectorsUnreadable(p) ==
    /\ builder[p].pc \in {"capture", "resolve", "replace", "provisional", "return"}
    /\ builder' = [builder EXCEPT ![p].pc = "relock", ![p].fenced = FALSE]
    /\ holder' = IF holder = Builds(p) THEN Nil ELSE holder
    /\ UNCHANGED <<inputVars, db, meta, mutator, sharers, query, countVars>>

Disown(p) ==
    /\ builder[p].pc = "disown"
    /\ mutator = Nil /\ sharers = {}
    /\ mutator' = Builds(p)
    /\ Goes(p, "relock")
    /\ UNCHANGED <<inputVars, db, meta, holder, sharers, query, countVars>>

\* Faulty: a build that lost the lock in between speaks for the newer one.
AnyGeneration(p) == TRUE

SameGeneration(p) == builder[p].fenced => meta.gen = builder[p].gen

DisownRow(p) ==
    /\ builder[p].pc = "relock"
    /\ holder = Nil
    /\ IF SameGeneration(p) /\ db.state # "missing"
       THEN /\ MarkRow("dirty")
            /\ holder' = Builds(p)
            /\ Goes(p, "disowned")
            /\ UNCHANGED <<mutator, sharers>>
       ELSE Ends(p, "failed") /\ UNCHANGED db
    /\ UNCHANGED <<inputVars, meta, query, countVars>>

DisownMeta(p) ==
    /\ builder[p].pc = "disowned"
    /\ Transition("dirty", meta.gen)
    /\ Ends(p, "failed")
    /\ UNCHANGED <<inputVars, db, query, countVars>>
-----------------------------------------------------------------------------
(* CodeGraphRuntime.status, query_guard and search *)

Asks(p, q) == query' = [query EXCEPT ![p] = q]

\* Busy, stale, not ready: an answer without rows.
NoRows(p) ==
    /\ Asks(p, IdleQuery)
    /\ Unlocked(Queries(p))

Ask(p) ==
    /\ p \in Asking
    /\ query[p].pc = "idle"
    /\ Asks(p, [IdleQuery EXCEPT !.pc = "status", !.seen = {Now}])
    /\ UNCHANGED <<inputVars, db, meta, lockVars, builder, countVars>>

\* _read_status, and what the metadata's own state adds to it.
Status ==
    IF meta.state = "failed" \/ (db.state = "ready" /\ ~MetaMatches)
    THEN "failed" ELSE db.state

Crashed == meta.kind \in UnfinishedKinds

\* Nobody waits for the graph's lock to read it.
ReadBusy(p) ==
    /\ query[p].pc \in {"status", "fresh", "search"}
    /\ holder # Nil
    /\ NoRows(p)
    /\ UNCHANGED <<inputVars, db, meta, builder, countVars>>

StatusReady(p) ==
    LET q == query[p] IN
    /\ q.pc = "status" /\ holder = Nil /\ ~Crashed
    /\ Status = "ready" /\ q.stage # "tell"
    /\ Asks(p, IF q.stage = "guard" THEN [q EXCEPT !.pc = "fresh"]
               ELSE [q EXCEPT !.pc = "search", !.rev = db.rev])
    /\ UNCHANGED <<inputVars, db, meta, lockVars, builder, countVars>>

\* A graph that is missing or dirty is built by the query itself, or by the
\* build of another query that it joins.
StatusRebuilds(p) ==
    LET q == query[p] IN
    /\ q.pc = "status" /\ q.stage = "guard" /\ holder = Nil /\ ~Crashed
    /\ Status \in {"missing", "dirty"}
    /\ IF Building(p) THEN builder[p].restore /\ UNCHANGED <<builder, begun>>
       ELSE Started(p, TRUE)
    /\ Asks(p, [q EXCEPT !.pc = "wait"])
    /\ UNCHANGED <<inputVars, db, meta, lockVars, crashes>>

StatusNotReady(p) ==
    LET q == query[p] IN
    /\ q.pc = "status" /\ holder = Nil /\ ~Crashed
    /\ Status # "ready" \/ q.stage = "tell"
    /\ q.stage = "guard" /\ Status # "failed" =>
           IF Building(p) THEN ~builder[p].restore ELSE begun = MaxBuilds
    /\ NoRows(p)
    /\ UNCHANGED <<inputVars, db, meta, builder, countVars>>

\* The metadata says that a build is running, and it may be this process's.
StatusRebuilding(p) ==
    /\ query[p].pc = "status" /\ holder = Nil /\ Crashed
    /\ Building(p)
    /\ NoRows(p)
    /\ UNCHANGED <<inputVars, db, meta, builder, countVars>>

StatusStale(p) ==
    LET q == query[p] IN
    /\ q.pc = "status" /\ holder = Nil /\ Crashed
    /\ ~Building(p)
    /\ Asks(p, [q EXCEPT !.pc = "recover", !.meta = meta])
    /\ UNCHANGED <<inputVars, db, meta, lockVars, builder, countVars>>

Recoverable == meta.kind \in UnfinishedKinds

RestoresPrior == meta.kind = "building" /\ meta.restore /\ meta.previous = db.rev

\* _recover_stale_metadata, with the graph's lock and without waiting for it.
Recover(p) ==
    LET q == query[p] IN
    /\ q.pc = "recover" /\ holder = Nil
    /\ meta' = IF meta = q.meta /\ Recoverable
               THEN Plain(IF RestoresPrior THEN meta.prior ELSE "failed", meta.gen)
               ELSE meta
    /\ Asks(p, [q EXCEPT !.pc = "status", !.meta = NoMeta])
    /\ UNCHANGED <<inputVars, db, lockVars, builder, countVars>>

RecoverBusy(p) ==
    /\ query[p].pc = "recover" /\ holder # Nil
    /\ NoRows(p)
    /\ UNCHANGED <<inputVars, db, meta, builder, countVars>>

\* mark_dirty_if_stale: the Wiki's lock is waited for and shared, the graph's
\* is read; sources and selectors are those of the graph.
Fresh(p) ==
    LET q == query[p] IN
    /\ q.pc = "fresh" /\ holder = Nil /\ mutator = Nil
    /\ ReadyFor(Now)
    /\ Asks(p, [q EXCEPT !.pc = "status", !.stage = "confirm"])
    /\ UNCHANGED <<inputVars, db, meta, lockVars, builder, countVars>>

NotFresh(p) ==
    LET q == query[p] IN
    /\ q.pc = "fresh" /\ holder = Nil /\ mutator = Nil
    /\ ~ReadyFor(Now)
    /\ Asks(p, [q EXCEPT !.pc = "mutate"])
    /\ UNCHANGED <<inputVars, db, meta, lockVars, builder, countVars>>

\* Both locks, the Wiki's first.
TakeWiki(p) ==
    /\ query[p].pc = "mutate"
    /\ mutator = Nil /\ sharers = {}
    /\ mutator' = Queries(p)
    /\ Asks(p, [query[p] EXCEPT !.pc = "lock"])
    /\ UNCHANGED <<inputVars, db, meta, holder, sharers, builder, countVars>>

\* Somebody else's build may have finished while the locks were waited for.
FreshAfterAll(p) ==
    LET q == query[p] IN
    /\ q.pc = "lock" /\ holder = Nil
    /\ ReadyFor(Now)
    /\ Asks(p, [q EXCEPT !.pc = "status", !.stage = "confirm"])
    /\ Unlocked(Queries(p))
    /\ UNCHANGED <<inputVars, db, meta, builder, countVars>>

MarkDirtyRow(p) ==
    /\ query[p].pc = "lock" /\ holder = Nil
    /\ ~ReadyFor(Now)
    /\ MarkRow("dirty")
    /\ holder' = Queries(p)
    /\ Asks(p, [query[p] EXCEPT !.pc = "marked"])
    /\ UNCHANGED <<inputVars, meta, mutator, sharers, builder, countVars>>

MarkDirtyMeta(p) ==
    /\ query[p].pc = "marked"
    /\ Transition("dirty", meta.gen)
    /\ Asks(p, [query[p] EXCEPT !.pc = "status", !.stage = "confirm"])
    /\ Unlocked(Queries(p))
    /\ UNCHANGED <<inputVars, db, builder, countVars>>

\* The rebuild that was waited for has ended; if it failed, the status is only
\* told.
Waited(p) ==
    LET q == query[p] IN
    /\ q.pc = "wait" /\ ~Building(p)
    /\ Asks(p, [q EXCEPT !.pc = "status",
                         !.stage = IF builder[p].result = "ready" THEN "confirm"
                                   ELSE "tell"])
    /\ UNCHANGED <<inputVars, db, meta, lockVars, builder, countVars>>

\* The wait has an end of its own; the build goes on until it heeds it.
RebuildWaitExpires(p) ==
    /\ query[p].pc = "wait" /\ Building(p)
    /\ Asks(p, [query[p] EXCEPT !.pc = "status", !.stage = "tell"])
    /\ UNCHANGED <<inputVars, db, meta, lockVars, builder, countVars>>

GuardedRevision(rev) == meta.rev = rev

\* search: everything is looked at again around the query itself.
Search(p) ==
    LET q == query[p] IN
    /\ q.pc = "search" /\ holder = Nil
    /\ IF MetaMatches /\ db.state = "ready" /\ GuardedRevision(q.rev) /\ ~Building(p)
       THEN /\ Asks(p, [IdleQuery EXCEPT !.rev = q.rev, !.rows = db.rev])
            /\ UNCHANGED lockVars
       ELSE NoRows(p)
    /\ UNCHANGED <<inputVars, db, meta, builder, countVars>>

-----------------------------------------------------------------------------

\* The process dies with its threads; another one takes its place.
Crash(p) ==
    /\ crashes < MaxCrashes /\ crashes' = crashes + 1
    /\ Building(p) \/ query[p].pc # "idle"
    /\ builder' = [builder EXCEPT ![p] = IdleBuilder]
    /\ query' = [query EXCEPT ![p] = IdleQuery]
    /\ LET mine == {Builds(p), Queries(p)} IN
       /\ holder' = IF holder \in mine THEN Nil ELSE holder
       /\ mutator' = IF mutator \in mine THEN Nil ELSE mutator
       /\ sharers' = sharers \ mine
    /\ UNCHANGED <<inputVars, db, meta, begun>>

IndexerStep(p) ==
    \/ Capture(p) \/ Scan(p) \/ NoOp(p) \/ NoOpIsStale(p) \/ MarkStale(p)
    \/ Compared(p) \/ Announce(p) \/ SelectorsChanged(p) \/ Resolve(p)
    \/ Refused(p) \/ Guard(p) \/ Replace(p) \/ Provisional(p) \/ Pending(p)
    \/ Seal(p) \/ Return(p) \/ Disown(p) \/ DisownRow(p) \/ DisownMeta(p)

QueryStep(p) ==
    \/ ReadBusy(p) \/ StatusReady(p) \/ StatusRebuilds(p) \/ StatusNotReady(p)
    \/ StatusRebuilding(p) \/ StatusStale(p) \/ Recover(p) \/ RecoverBusy(p)
    \/ Fresh(p) \/ NotFresh(p) \/ TakeWiki(p) \/ FreshAfterAll(p)
    \/ MarkDirtyRow(p) \/ MarkDirtyMeta(p) \/ Waited(p) \/ Search(p)

GraphNext ==
    \/ EditSources \/ EditWiki
    \/ \E p \in Processes :
          \/ Index(p) \/ IndexerStep(p) \/ Abort(p) \/ SelectorsUnreadable(p)
          \/ Ask(p) \/ QueryStep(p) \/ RebuildWaitExpires(p) \/ Crash(p)

GraphSpec == GraphInit /\ [][GraphNext]_graphVars

\* Threads run, and clients go on asking.  That waits are bounded is not
\* assumed: no thread needs a timeout.
GraphFairSpec ==
    /\ GraphSpec
    /\ \A p \in Processes : WF_graphVars(IndexerStep(p))
    /\ \A p \in Asking : WF_graphVars(QueryStep(p)) /\ WF_graphVars(Ask(p))

-----------------------------------------------------------------------------
(* Properties *)

BuilderPcs == {"idle", "capture", "lock", "compare", "stale", "announce",
               "resolve", "guard", "replace", "provisional", "pending", "seal",
               "return", "disown", "relock", "disowned"}

QueryPcs == {"idle", "status", "recover", "fresh", "mutate", "lock", "marked",
             "wait", "search"}

States == {"missing", "ready", "dirty", "failed", "rebuilding"}

MetaRecords == [kind : UnfinishedKinds \cup {"sealed", "plain"}, state : States,
                gen : Nat, rev : Revisions \cup {Nil}, stamp : Nat,
                prior : States, previous : Revisions \cup {Nil}, restore : BOOLEAN]

InputRecords == [src : Contents \cup {Nil}, wiki : Contents \cup {Nil}]

BuilderRecords ==
    [pc : BuilderPcs, restore : BOOLEAN, gen : Nat, in : InputRecords,
     prior : {"missing", "ready", "dirty"}, previous : Revisions \cup {Nil},
     fenced : BOOLEAN, result : {"nothing", "ready", "failed"}]

QueryRecords ==
    [pc : QueryPcs, stage : {"guard", "confirm", "tell"}, meta : MetaRecords,
     rev : Revisions \cup {Nil}, seen : SUBSET Revisions, rows : Revisions \cup {Nil}]

GraphRecords ==
    [rev : Revisions \cup {Nil}, state : {"missing", "ready", "dirty"}, stamp : Nat,
     gen : Nat]

\* What a build has read when it is past its scan is a revision.
Scanned == BuilderPcs \ {"idle", "capture", "lock", "relock", "disown", "disowned"}

StoreTypes ==
    /\ src \in Contents /\ wiki \in Contents
    /\ db \in GraphRecords
    /\ meta \in MetaRecords
    /\ holder \in Threads \cup {Nil} /\ mutator \in Threads \cup {Nil}
    /\ sharers \subseteq Threads
    /\ begun \in Nat /\ edits \in Nat /\ crashes \in Nat

BuilderTypes ==
    /\ builder \in [Processes -> BuilderRecords]
    /\ \A p \in Processes :
          /\ builder[p].pc \in Scanned => builder[p].in \in Revisions
          /\ builder[p].pc = "lock" => builder[p].in.wiki \in Contents

\* Every variable stays in its type.
GraphTypeOK == StoreTypes /\ BuilderTypes /\ query \in [Processes -> QueryRecords]

\* The builds with the graph's lock: before and after they announced themselves.
Planned == {"compare", "stale", "announce"}
Put == {"provisional", "pending", "seal", "return"}
Announced == {"resolve", "guard", "replace"} \cup Put

LocksHeld ==
    /\ \A p \in Processes :
          builder[p].pc \in Planned \cup Announced \cup {"disowned"} => holder = Builds(p)
    /\ \A p \in Processes :
          query[p].pc = "marked" => holder = Queries(p) /\ db.state = "dirty"

\* Generations count builds that were announced, and no graph is ahead of them.
GenerationsGrow ==
    /\ db.gen <= meta.gen
    /\ \A p \in Processes :
          /\ builder[p].pc \in Planned => builder[p].gen > meta.gen
          /\ builder[p].pc \in Announced => builder[p].gen = meta.gen

\* The sources of the revision have been current since the query was asked, and
\* so have its selectors.
SourcesSince(q, rev) == \E now \in q.seen : now.src = rev.src
WikiSince(q, rev) == \E now \in q.seen : now.wiki = rev.wiki
Since(q, rev) == SourcesSince(q, rev) /\ WikiSince(q, rev)

\* The query has seen the graph's lock free.
Guarded(q) == q.pc \notin {"idle", "status", "recover"} \/ q.stage # "guard"

QueriesKnow ==
    \A p \in Processes :
        LET q == query[p] IN
        /\ q.pc # "idle" => Now \in q.seen /\ q.rows = Nil
        /\ q.pc = "idle" => q.stage = "guard"
        /\ q.pc = "search" => q.stage = "confirm"

\* A build that has the lock has scanned since the query found it free.
ScansAreLate ==
    \A p, b \in Processes :
        LET q == query[p] IN
        Guarded(q) =>
            /\ builder[b].pc \in Planned \cup Announced => SourcesSince(q, builder[b].in)
            /\ builder[b].pc \in {"replace"} \cup Put => WikiSince(q, builder[b].in)

PutIsThere ==
    \A p \in Processes :
        builder[p].pc \in Put => db.rev = builder[p].in /\ db.state = "ready"

\* The query was told that the graph is ready.
Told(p) ==
    \/ query[p].stage = "confirm"
    \/ query[p].pc = "wait" /\ ~Building(p) /\ builder[p].result = "ready"

ReadyIsCurrent ==
    \A p \in Processes : Told(p) /\ db.state = "ready" => Since(query[p], db.rev)

\* Every variable stays in its type, and what builds and queries know holds.
GraphInv ==
    /\ GraphTypeOK /\ LocksHeld /\ GenerationsGrow /\ QueriesKnow
    /\ ScansAreLate /\ PutIsThere /\ ReadyIsCurrent

\* An answer of a search has the rows of the revision it names; the sources were
\* those of that revision at a moment after the search was asked for, and so
\* were the selectors: no graph of earlier inputs, half-replaced or disowned,
\* answers.  The moments may differ, as when selectors change and change back
\* between their capture and their second look.
AnswersAreCurrent ==
    [][\A p \in Processes :
          (query[p].pc = "search" /\ query'[p].rows # Nil) =>
              /\ query'[p].rows = query'[p].rev
              /\ Since(query[p], query'[p].rows)]_graphVars

\* A build whose selectors changed under it disowns no graph that a later build
\* has published in the meantime (_mark_selector_snapshot_dirty).
NewerIsNotDisowned ==
    [][\A p \in Processes :
          (builder[p].pc = "relock" /\ builder[p].fenced /\ db' # db
              /\ builder'[p].pc = "disowned") => db.gen <= builder[p].gen]_graphVars

\* Every search is answered: of builders and queries that take the two locks in
\* different orders none waits for ever.
SearchesReturn == \A p \in Asking : query[p].pc # "idle" ~> query[p].pc = "idle"
=============================================================================
