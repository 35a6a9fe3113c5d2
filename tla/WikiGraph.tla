------------------------------ MODULE WikiGraph ------------------------------
(***************************************************************************)
(* The link graph that the servers on one Git base share as a cache        *)
(* (src/iwiki_mcp/graph.py, engine/graph_store.py, indexer.py and the page *)
(* tools of server.py).                                                    *)
(*                                                                         *)
(* Markdown is what counts.  The graph of a domain is trusted while its    *)
(* row is ready and bears the fingerprint of the domain's files.  A search *)
(* walks it, repairs it first when it must, and otherwise walks the files  *)
(* themselves; a tool that changes pages brings it up to date after its    *)
(* commit.  Tools and repairs hold the lock of the base.  Editors hold no  *)
(* lock, processes die, and the store may fail or be unreadable.           *)
(***************************************************************************)
EXTENDS Naturals, Sequences, FiniteSets

CONSTANTS
    Threads,
    Searchers,    \* the threads whose clients search
    Tools,        \* the threads whose clients change pages
    WikiDomains,
    PageOrder,    \* the pages that may exist, <<domain, name>>, as they sort
    None,
    MaxVersions,  \* bound: changes of Markdown
    MaxMishaps    \* bound: crashes and failures of the store

Pages == {PageOrder[i] : i \in 1..Len(PageOrder)}

ASSUME WikiAssumption ==
    /\ Searchers \cup Tools \subseteq Threads
    /\ PageOrder \in Seq(WikiDomains \X STRING)
    /\ {MaxVersions, MaxMishaps} \subseteq Nat
    /\ None \notin Threads

VARIABLES
    md,        \* the files: which version each page has, 0 when there is none
    head,      \* the same in the last commit
    graph,     \* the store: for each domain its row, its rows of pages, and whether
               \* an editor was at its files while these were made ("doubted")
    broken,    \* the store is unreadable, or of another schema
    lock,      \* the thread with the lock of the base
    thread,
    versions,  \* counts the changes, so that each is told from all others
    mishaps

wikiVars == <<md, head, graph, broken, lock, thread, versions, mishaps>>
fileVars == <<md, head, versions>>
storeVars == <<graph, broken>>

-----------------------------------------------------------------------------
(* Fingerprints and rows *)

Present(d) == {f \in Pages : f[1] = d /\ md[f] # 0}

Markdown(d) == [f \in Present(d) |-> md[f]]

\* Git names a file by its object when it is as committed, and its content is
\* hashed otherwise: a commit changes the fingerprint and no content.
markdown_fingerprint(d) == [f \in Present(d) |-> <<md[f], md[f] = head[f]>>]

NoPages == [f \in {} |-> 0]

Contents(print) == [f \in DOMAIN print |-> print[f][1]]

NoRow == [state |-> "missing", print |-> None, rows |-> NoPages, doubted |-> FALSE]

\* What a page has in rows, 0 when there is none.
In(rows, f) == IF f \in DOMAIN rows THEN rows[f] ELSE 0

Ready(d, print) == graph[d].state = "ready" /\ graph[d].print = print

Current(d) == Ready(d, markdown_fingerprint(d))

\* Faulty: a row of the same fingerprint is taken as it is, whatever its state.
StaleByPrint == {d \in WikiDomains : graph[d].print # markdown_fingerprint(d)}

Stale == IF broken THEN WikiDomains ELSE {d \in WikiDomains : ~Current(d)}

Dirtied(d) == [graph EXCEPT ![d].state = "dirty"]

\* Faulty: the commit is no part of what is looked at before the rows are put.
NotRechecked(d, print) == TRUE

Unchanged(d, print) == markdown_fingerprint(d) = print

-----------------------------------------------------------------------------

\* phase says what the graph is wanted for: to "walk" it, to "prepare" a change,
\* or because a pull changed files, before ("fetch") or after it ("sync").
Idle == [op |-> "none", pc |-> "idle", phase |-> "walk", on |-> {}, scope |-> {},
         pages |-> {}, before |-> NoPages, prints |-> [d \in WikiDomains |-> None],
         now |-> [d \in WikiDomains |-> None], print |-> None, todo |-> {}, at |-> None,
         snap |-> NoPages, got |-> <<>>, again |-> <<>>, checked |-> 0, seen |-> {},
         back |-> FALSE, tries |-> 0]

WikiInit ==
    /\ md = [f \in Pages |-> 0] /\ head = md
    /\ graph = [d \in WikiDomains |-> NoRow]
    /\ broken = FALSE
    /\ lock = None
    /\ thread = [t \in Threads |-> Idle]
    /\ versions = 0 /\ mishaps = 0

Becomes(t, record) == thread' = [thread EXCEPT ![t] = record]

Goes(t, pc) == thread' = [thread EXCEPT ![t].pc = pc]

\* All files as they are at this moment, in the order of the pages.
Texts == [i \in 1..Len(PageOrder) |-> md[PageOrder[i]]]

\* A page is again what it was before, and has been something else meanwhile.
CameBack(q) == \E i \in 1..Len(PageOrder), texts \in q.seen :
                  Texts[i] # texts[i] /\ Texts'[i] = texts[i]

\* A page that was read for a rebuild is again what it was at its first fingerprint.
Undone(q) == \E f \in Pages : /\ f[1] = q.at /\ md'[f] # md[f]
                              /\ md'[f] = In(Contents(q.print), f)

The(q) == CHOOSE d \in q.on : TRUE

\* From the rows that were staged until the files are looked at again, the last
\* step of a mutation takes what is in the files for what was staged.
InTheGap(q) == q.pc \in {"restage", "final"}
SlippedIn(q) == \E f \in Pages : f[1] = The(q) /\ md'[f] # md[f]

\* Whoever is reading the files remembers what they have been since.
Witness(q) ==
    [q EXCEPT !.seen = IF @ = {} THEN {} ELSE @ \cup {Texts'},
              !.back = \/ @
                       \/ CameBack(q)
                       \/ q.pc = "put" /\ Undone(q)
                       \/ InTheGap(q) /\ SlippedIn(q)]

\* The pages get this version, and the thread of the tool becomes the record.
Written(pages, version, t, record) ==
    /\ versions < MaxVersions /\ versions' = versions + 1
    /\ md' = [f \in Pages |-> IF f \in pages THEN version ELSE md[f]]
    /\ thread' = [u \in Threads |-> IF u = t THEN record ELSE Witness(thread[u])]

Fresh == versions + 1

\* An editor writes a page under no lock, be it an earlier text, or deletes it.
Edit(f) ==
    /\ \E version \in 0..Fresh \ {md[f]} : Written({f}, version, None, Idle)
    /\ UNCHANGED <<head, storeVars, lock, mishaps>>

\* The store has become unreadable, or a server of another version made it.
Break ==
    /\ ~broken /\ mishaps < MaxMishaps
    /\ broken' = TRUE /\ mishaps' = mishaps + 1
    /\ UNCHANGED <<fileVars, graph, lock, thread>>

-----------------------------------------------------------------------------
(* scoped_graph: find the graph of some domains current, or make it so *)

StaleFor(q) == Stale \cap q.scope

\* What the thread does with a provider, which knows the fingerprints the graph
\* was found under; a pull only wanted the graph rebuilt.
Goal(q) ==
    CASE q.phase = "walk" -> "walk"
      [] q.phase = "fetch" -> IF q.op = "index" THEN "commit" ELSE "inspect"
      [] q.phase = "prepare" -> IF q.op = "index" THEN "restage" ELSE "write"
      [] q.phase = "sync" -> "fetch"

Done(q) == [q EXCEPT !.todo = {}, !.at = None, !.snap = NoPages, !.print = None,
                     !.pc = Goal(q), !.back = FALSE,
                     !.scope = q.on, !.phase = IF @ = "fetch" THEN "prepare" ELSE @]

Provided(q) ==
    [Done(q) EXCEPT !.prints = [d \in WikiDomains |-> IF d \in q.scope
                                                  THEN markdown_fingerprint(d) ELSE None]]

\* Without one a search reads the Markdown, and a tool does without the graph.
Without(q) ==
    [Done(q) EXCEPT !.pc = CASE q.phase = "walk" -> "collect"
                             [] q.phase = "prepare" /\ q.op = "index" -> "failed"
                             [] OTHER -> @]

\* A search holds the lock only while it repairs.
Lets(t) == lock' = IF lock = t /\ thread[t].op = "search" THEN None ELSE lock

\* A change of several domains rebuilds at once, and does without the graph when
\* the store cannot be read.
Inspect(t) ==
    LET q == thread[t]
        at_once == q.op = "batch" IN
    /\ q.pc = "inspect"
    /\ Becomes(t, IF StaleFor(q) = {} THEN Provided(q)
                  ELSE IF at_once /\ broken THEN Without(q)
                  ELSE [q EXCEPT !.pc = IF at_once THEN "rebuild"
                                        ELSE IF broken THEN "wait" ELSE "mark",
                                 !.todo = StaleFor(q)])
    /\ UNCHANGED <<fileVars, storeVars, lock, mishaps>>

\* Nobody asks whether another thread has repaired the domain meanwhile.
MarkStale(t) ==
    LET q == thread[t] IN
    /\ q.pc = "mark" /\ ~broken
    /\ \E d \in q.todo :
          /\ graph' = Dirtied(d)
          /\ Becomes(t, [q EXCEPT !.todo = @ \ {d},
                                  !.pc = IF q.todo = {d} THEN "wait" ELSE "mark"])
    /\ UNCHANGED <<fileVars, broken, lock, mishaps>>

LockTimeout(t) ==
    /\ thread[t].pc = "wait"
    /\ lock \notin {None, t}
    /\ Becomes(t, Without(thread[t]))
    /\ UNCHANGED <<fileVars, storeVars, lock, mishaps>>

\* With the lock everything is looked at again.  A store that cannot be used is
\* replaced by an empty one before its domains are rebuilt.
Opened == /\ broken' = FALSE
          /\ graph' = IF broken THEN [d \in WikiDomains |-> NoRow] ELSE graph

Lock(t) ==
    LET q == thread[t] IN
    /\ q.pc = "wait"
    /\ lock \in {None, t}
    /\ IF StaleFor(q) = {}
       THEN Becomes(t, Provided(q)) /\ UNCHANGED <<storeVars, lock>>
       ELSE /\ Becomes(t, [q EXCEPT !.pc = "rebuild", !.todo = StaleFor(q)])
            /\ lock' = t
            /\ Opened
    /\ UNCHANGED <<fileVars, mishaps>>

BeginRebuild(t) ==
    LET q == thread[t] IN
    /\ q.pc = "rebuild" /\ ~broken
    /\ \E d \in q.todo :
          /\ graph' = [graph EXCEPT ![d].state = "rebuilding"]
          /\ Becomes(t, [q EXCEPT !.pc = "snapshot", !.at = d,
                                  !.print = markdown_fingerprint(d)])
    /\ UNCHANGED <<fileVars, broken, lock, mishaps>>

build_domain_snapshot(t) ==
    LET q == thread[t] IN
    /\ q.pc = "snapshot"
    /\ Becomes(t, [q EXCEPT !.pc = "put", !.snap = Markdown(q.at)])
    /\ UNCHANGED <<fileVars, storeVars, lock, mishaps>>

rebuild_domain(t) ==
    LET q == thread[t] IN
    /\ q.pc = "put" /\ ~broken
    /\ IF Unchanged(q.at, q.print)
       THEN /\ graph' = [graph EXCEPT ![q.at] =
                  [state |-> "ready", print |-> q.print, rows |-> q.snap,
                   doubted |-> q.back]]
            /\ Becomes(t, [q EXCEPT !.todo = @ \ {q.at}, !.at = None, !.snap = NoPages,
                                    !.print = None, !.back = FALSE,
                                    !.pc = IF q.todo = {q.at} THEN "loaded"
                                           ELSE "rebuild"])
            /\ UNCHANGED lock
       ELSE graph' = Dirtied(q.at) /\ Becomes(t, Without(q)) /\ Lets(t)
    /\ UNCHANGED <<fileVars, broken, mishaps>>

\* _load_fresh_domains, once more.
Loaded(t) ==
    LET q == thread[t] IN
    /\ q.pc = "loaded"
    /\ Becomes(t, IF StaleFor(q) = {} THEN Provided(q) ELSE Without(q))
    /\ Lets(t)
    /\ UNCHANGED <<fileVars, storeVars, mishaps>>

-----------------------------------------------------------------------------
(* _rank_scoped_graph: a search walks the graph, or else the files *)

Search(t) ==
    /\ t \in Searchers
    /\ thread[t].pc = "idle"
    /\ Becomes(t, [Idle EXCEPT !.op = "search", !.pc = "inspect", !.on = WikiDomains,
                               !.scope = WikiDomains])
    /\ UNCHANGED <<fileVars, storeVars, lock, mishaps>>

\* The pages of the graph, in their order.
Walked == [i \in 1..Len(PageOrder) |->
              LET f == PageOrder[i] IN
              IF f \in DOMAIN graph[f[1]].rows THEN graph[f[1]].rows[f] ELSE 0]

\* One result never mixes what the graph and what the files say.
Restarts(q) == [Without(q) EXCEPT !.got = <<>>, !.again = <<>>, !.checked = 0, !.seen = {},
                                  !.back = FALSE,
                                  !.prints = Idle.prints]

\* Faulty: a domain that was ready when the search began is ready still.
WasReady(q) == TRUE

StillReady(q) == \A d \in WikiDomains : Ready(d, q.prints[d])

\* For the seeds, and again for what they lead to; each read of the store is a
\* snapshot of its own.
neighbors(t) ==
    LET q == thread[t]
        doubt == q.back \/ \E d \in WikiDomains : graph[d].doubted IN
    /\ q.pc \in {"walk", "farther"} /\ ~broken
    /\ Becomes(t, IF ~StillReady(q) THEN Restarts(q)
                  ELSE IF q.pc = "walk"
                  THEN [q EXCEPT !.pc = "farther", !.got = Walked, !.back = doubt]
                  ELSE [q EXCEPT !.pc = "confirm", !.again = Walked, !.back = doubt])
    /\ UNCHANGED <<fileVars, storeVars, lock, mishaps>>

ensure_current(t) ==
    LET q == thread[t]
        changed == {d \in WikiDomains : ~Unchanged(d, q.prints[d])} IN
    /\ q.pc = "confirm" /\ ~broken
    /\ graph' = [d \in WikiDomains |-> IF d \in changed
                                   THEN [graph[d] EXCEPT !.state = "dirty"]
                                   ELSE graph[d]]
    /\ IF changed = {} /\ StillReady(q) THEN Becomes(t, Idle)
       ELSE Becomes(t, Restarts(q))
    /\ UNCHANGED <<fileVars, broken, lock, mishaps>>

\* The files are read one after another, and all of them once more.
Further(files) == Append(files, md[PageOrder[Len(files) + 1]])

Whole(files) == Len(files) = Len(PageOrder)

FirstPass(t) ==
    LET q == thread[t] IN
    /\ q.pc = "collect" /\ ~Whole(q.got)
    /\ Becomes(t, [q EXCEPT !.got = Further(q.got), !.seen = @ \cup {Texts},
                            !.pc = IF Whole(Further(q.got)) THEN "again" ELSE @])
    /\ UNCHANGED <<fileVars, storeVars, lock, mishaps>>

SameAgain(q) == md[PageOrder[q.checked + 1]] = q.got[q.checked + 1]

\* It is tried twice, then the client is told to.
SecondPass(t) ==
    LET q == thread[t]
        last == q.checked + 1 = Len(PageOrder) IN
    /\ q.pc = "again"
    /\ Becomes(t, IF ~SameAgain(q) THEN IF q.tries = 0 THEN [Restarts(q) EXCEPT !.tries = 1]
                                        ELSE Idle
                  ELSE IF last THEN Idle ELSE [q EXCEPT !.checked = @ + 1])
    /\ UNCHANGED <<fileVars, storeVars, lock, mishaps>>

-----------------------------------------------------------------------------
(* The tools that change pages *)

\* With the lock of the base, which _mutation_guard takes for all of the call.
Mutate(t, op, on) ==
    /\ t \in Tools
    /\ thread[t].pc = "idle"
    /\ lock = None /\ lock' = t
    /\ Becomes(t, [Idle EXCEPT !.op = op, !.pc = "fetch", !.phase = "fetch",
                               !.on = on, !.scope = on])
    /\ UNCHANGED <<fileVars, storeVars, mishaps>>

PageTool(t) == \E d \in WikiDomains : Mutate(t, "page", {d})
wiki_index(t) == \E d \in WikiDomains : Mutate(t, "index", {d})
CrossDomain(t) == Mutate(t, "batch", WikiDomains)

\* Whatever came of a change, the base is synchronised next.
Synchronises == [Idle EXCEPT !.op = "sync", !.pc = "fetch", !.phase = "sync"]

\* The call returns, and the lock is free.
Returns(t) == Becomes(t, Idle) /\ lock' = None

wiki_sync(t) ==
    /\ t \in Tools
    /\ thread[t].pc = "idle"
    /\ lock = None /\ lock' = t
    /\ Becomes(t, Synchronises)
    /\ UNCHANGED <<fileVars, storeVars, mishaps>>

\* Before a change and after it: the remote may have something, or not.
NothingNew(t) ==
    /\ thread[t].pc = "fetch"
    /\ IF thread[t].phase = "sync" THEN Returns(t)
       ELSE Becomes(t, Done(thread[t])) /\ UNCHANGED lock
    /\ UNCHANGED <<fileVars, storeVars, mishaps>>

PullPages(t) ==
    /\ thread[t].pc = "fetch"
    /\ \A f \in Pages : head[f] \in {0, md[f]}
    /\ \E f \in Pages :
          /\ md[f] = head[f]
          /\ Written({f}, Fresh, t, [thread[t] EXCEPT !.pc = "pulled",
                                         !.scope = {f[1]}, !.todo = {f[1]}])
          /\ head' = [head EXCEPT ![f] = Fresh]
    /\ UNCHANGED <<storeVars, lock, mishaps>>

\* refresh_revision_change: what was pulled is rebuilt, whatever was there.
RefreshPulled(t) ==
    /\ thread[t].pc = "pulled"
    /\ broken' = FALSE
    /\ graph' = [d \in WikiDomains |->
                    IF broken THEN NoRow
                    ELSE IF d \in thread[t].todo THEN [graph[d] EXCEPT !.state = "dirty"]
                    ELSE graph[d]]
    /\ Goes(t, "rebuild")
    /\ UNCHANGED <<fileVars, lock, mishaps>>

\* Pages are written, and the index of the domain after them.
Writes(t, pages, version) ==
    /\ Written(pages, version, t,
               [thread[t] EXCEPT !.pc = "commit", !.pages = pages,
                                 !.before = [f \in pages |-> md[f]]])
    /\ UNCHANGED <<head, storeVars, lock, mishaps>>

OfTool(t, op) == {f \in Pages : thread[t].op = op /\ thread[t].pc = "write"
                                /\ f[1] \in thread[t].on}

wiki_write_page(t) == \E f \in OfTool(t, "page") : md[f] = 0 /\ Writes(t, {f}, Fresh)

wiki_update_page(t) == \E f \in OfTool(t, "page") : md[f] # 0 /\ Writes(t, {f}, Fresh)

wiki_delete_page(t) == \E f \in OfTool(t, "page") : md[f] # 0 /\ Writes(t, {f}, 0)

\* A page of each domain.
ApplyPlan(t) ==
    /\ thread[t].pc = "write"
    /\ \E pages \in SUBSET OfTool(t, "batch") :
          /\ \A d \in WikiDomains : Cardinality({f \in pages : f[1] = d}) = 1
          /\ Writes(t, pages, Fresh)

\* The call ends before a page is written.
NotWritten(t) ==
    /\ thread[t].pc = "write"
    /\ Returns(t)
    /\ UNCHANGED <<fileVars, storeVars, mishaps>>

\* The index fails, or the commit of a change of several domains: the pages get
\* back what they had, whoever has written them since.
Restored(t) ==
    /\ thread[t].pc = "commit" /\ thread[t].op # "index"
    /\ md' = [f \in Pages |-> IF f \in thread[t].pages THEN thread[t].before[f] ELSE md[f]]
    /\ thread' = [u \in Threads |-> IF u = t THEN Idle ELSE Witness(thread[u])]
    /\ lock' = None
    /\ UNCHANGED <<head, versions, storeVars, mishaps>>

\* The domain is committed as it is, whoever has written its pages; of several
\* domains only the pages of the change.
CommitPages(t) ==
    LET q == thread[t]
        committed == IF q.op = "batch" THEN q.pages ELSE {f \in Pages : f[1] \in q.on} IN
    /\ q.pc = "commit"
    /\ head' = [f \in Pages |-> IF f \in committed THEN md[f] ELSE head[f]]
    /\ Becomes(t, [q EXCEPT !.pc = IF q.op = "index" THEN "disown" ELSE "stage",
                            !.before = NoPages])
    /\ UNCHANGED <<md, versions, storeVars, lock, mishaps>>

\* The page stays, and nobody tells the graph.
PagesNotCommitted(t) ==
    /\ thread[t].pc = "commit" /\ thread[t].op # "batch"
    /\ Returns(t)
    /\ UNCHANGED <<fileVars, storeVars, mishaps>>

-----------------------------------------------------------------------------
(* After the commit: the rows of the pages, then the fingerprint *)

\* _graph_failed and _invalidate_graph_batch
Failed(t) ==
    /\ graph' = [d \in WikiDomains |-> IF d \in thread[t].on
                                   THEN [graph[d] EXCEPT !.state = "dirty"]
                                   ELSE graph[d]]
    /\ Becomes(t, Synchronises)

\* There was no graph to begin with.
Unavailable(t) ==
    /\ thread[t].pc = "stage" /\ thread[t].op = "page"
    /\ thread[t].prints[The(thread[t])] = None
    /\ Becomes(t, Synchronises)
    /\ UNCHANGED <<fileVars, storeVars, lock, mishaps>>

\* What the pages are now.
Files(q) == [f \in {g \in q.pages : md[g] # 0} |-> md[f]]

Stage(t) ==
    LET q == thread[t]
        d == The(q)
        print == markdown_fingerprint(d) IN
    /\ q.pc = "stage" /\ q.op = "page" /\ ~broken
    /\ q.prints[d] # None
    /\ IF Ready(d, q.prints[d]) \/ Ready(d, print)
       THEN /\ graph' = Dirtied(d)
            /\ Becomes(t, [q EXCEPT !.pc = "refresh", !.now[d] = print, !.snap = Files(q),
                                    !.prints[d] = None])
       ELSE Failed(t)
    /\ UNCHANGED <<fileVars, broken, lock, mishaps>>

\* The rows there will be when those of the tool's pages are replaced.
Refreshed(d, q) ==
    LET kept == DOMAIN graph[d].rows \ q.pages
        put == {f \in DOMAIN q.snap : f[1] = d} IN
    [f \in kept \cup put |-> IF f \in put THEN q.snap[f] ELSE graph[d].rows[f]]

ReadBatch(t) ==
    LET q == thread[t] IN
    /\ q.pc = "stage" /\ q.op = "batch"
    /\ Becomes(t, [q EXCEPT !.pc = "batch", !.snap = Files(q),
                            !.now = [d \in WikiDomains |-> markdown_fingerprint(d)]])
    /\ UNCHANGED <<fileVars, storeVars, lock, mishaps>>

content_parity(d, rows) == rows = Markdown(d)

refresh_pages(t) ==
    LET q == thread[t]
        d == The(q)
        rows == Refreshed(d, q) IN
    /\ q.pc = "refresh" /\ ~broken
    /\ IF Unchanged(d, q.now[d]) /\ content_parity(d, rows)
       THEN /\ graph' = [graph EXCEPT ![d] =
                  [state |-> "dirty", print |-> q.now[d], rows |-> rows,
                   doubted |-> FALSE]]
            /\ Becomes(t, [q EXCEPT !.pc = "final", !.snap = NoPages, !.pages = {}])
       ELSE Failed(t)
    /\ UNCHANGED <<fileVars, broken, lock, mishaps>>

\* stage_graph_rebuild: scoped_graph rebuilds what is disowned.
Disown(t) ==
    /\ thread[t].pc = "disown" /\ ~broken
    /\ graph' = Dirtied(The(thread[t]))
    /\ Goes(t, "inspect")
    /\ UNCHANGED <<fileVars, broken, lock, mishaps>>

Restage(t) ==
    LET q == thread[t]
        d == The(q) IN
    /\ q.pc = "restage" /\ ~broken
    /\ graph' = [graph EXCEPT ![d].state = "dirty",
                              ![d].print = markdown_fingerprint(d)]
    /\ Becomes(t, [q EXCEPT !.pc = "final", !.now[d] = markdown_fingerprint(d)])
    /\ UNCHANGED <<fileVars, broken, lock, mishaps>>

NotRebuilt(t) ==
    /\ thread[t].pc = "failed" /\ ~broken
    /\ Failed(t)
    /\ UNCHANGED <<fileVars, broken, lock, mishaps>>

Fingerprint(t) ==
    LET q == thread[t] IN
    /\ q.pc = "final"
    /\ Becomes(t, [q EXCEPT !.pc = "publish", !.print = markdown_fingerprint(The(q))])
    /\ UNCHANGED <<fileVars, storeVars, lock, mishaps>>

finalize_graph_mutation(t) ==
    LET q == thread[t]
        d == The(q)
        staged == graph[d].state = "dirty" /\ graph[d].print = q.now[d] IN
    /\ q.pc = "publish" /\ ~broken
    /\ IF Ready(d, q.print)
       THEN Becomes(t, Synchronises) /\ UNCHANGED graph
       ELSE IF staged /\ Unchanged(d, q.print)
       THEN /\ graph' = [graph EXCEPT ![d].state = "ready", ![d].print = q.print,
                                      ![d].doubted = @ \/ q.back]
            /\ Becomes(t, Synchronises)
       ELSE Failed(t)
    /\ UNCHANGED <<fileVars, broken, lock, mishaps>>

\* All domains of a change in one transaction, or none.
finalize_graph_batch(t) ==
    LET q == thread[t]
        Usable(d) == /\ q.prints[d] # None
                     /\ Ready(d, q.prints[d]) \/ Ready(d, q.now[d])
                     /\ Unchanged(d, q.now[d])
                     /\ content_parity(d, Refreshed(d, q)) IN
    /\ q.pc = "batch" /\ ~broken
    /\ IF \A d \in q.on : Usable(d)
       THEN /\ graph' = [d \in WikiDomains |-> IF d \in q.on
                  THEN [state |-> "ready", print |-> q.now[d], rows |-> Refreshed(d, q),
                        doubted |-> FALSE]
                  ELSE graph[d]]
            /\ Becomes(t, Synchronises)
       ELSE Failed(t)
    /\ UNCHANGED <<fileVars, broken, lock, mishaps>>

-----------------------------------------------------------------------------

\* A step that needs the store fails; what is left of the row may be dirty.
StoreFails(t) ==
    LET q == thread[t] IN
    /\ IF broken THEN UNCHANGED mishaps ELSE mishaps < MaxMishaps /\ mishaps' = mishaps + 1
    /\ \/ q.pc = "mark" /\ Goes(t, "wait") /\ UNCHANGED <<graph, lock>>
       \/ /\ q.pc \in {"rebuild", "put"}
          /\ Becomes(t, Without(q)) /\ Lets(t)
          /\ graph' \in {graph} \cup {Dirtied(d) : d \in {q.at} \cap WikiDomains}
       \/ /\ q.pc \in {"walk", "farther", "confirm"}
          /\ Becomes(t, Restarts(q)) /\ UNCHANGED <<graph, lock>>
       \/ /\ q.pc \in {"stage", "refresh", "batch", "disown", "restage", "publish", "failed"}
          /\ \/ Failed(t)
             \/ Becomes(t, Synchronises) /\ UNCHANGED graph
          /\ UNCHANGED lock
    /\ UNCHANGED <<fileVars, broken>>

ThreadDies(t) ==
    /\ thread[t].pc # "idle"
    /\ mishaps < MaxMishaps /\ mishaps' = mishaps + 1
    /\ Becomes(t, Idle)
    /\ lock' = IF lock = t THEN None ELSE lock
    /\ UNCHANGED <<fileVars, storeVars>>

ScopedStep(t) ==
    \/ Inspect(t) \/ MarkStale(t) \/ Lock(t) \/ LockTimeout(t)
    \/ BeginRebuild(t) \/ build_domain_snapshot(t) \/ rebuild_domain(t)
    \/ Loaded(t)

SearchStep(t) == neighbors(t) \/ ensure_current(t) \/ FirstPass(t) \/ SecondPass(t)

PageToolStep(t) ==
    \/ NothingNew(t) \/ PullPages(t) \/ RefreshPulled(t)
    \/ wiki_write_page(t) \/ wiki_update_page(t) \/ wiki_delete_page(t) \/ ApplyPlan(t)
    \/ NotWritten(t) \/ Restored(t) \/ CommitPages(t) \/ PagesNotCommitted(t)
    \/ Unavailable(t) \/ Stage(t) \/ ReadBatch(t) \/ refresh_pages(t) \/ Disown(t)
    \/ Restage(t) \/ NotRebuilt(t) \/ Fingerprint(t) \/ finalize_graph_mutation(t)
    \/ finalize_graph_batch(t)

Step(t) == ScopedStep(t) \/ SearchStep(t) \/ PageToolStep(t) \/ StoreFails(t)

Begin(t) == PageTool(t) \/ wiki_index(t) \/ CrossDomain(t) \/ wiki_sync(t)

WikiNext ==
    \/ \E f \in Pages : Edit(f)
    \/ Break
    \/ \E t \in Threads : Search(t) \/ Begin(t) \/ Step(t) \/ ThreadDies(t)

WikiSpec == WikiInit /\ [][WikiNext]_wikiVars

\* Clients go on searching, and their threads run; a tool may stop anywhere.
WikiFairSpec ==
    /\ WikiSpec
    /\ \A t \in Searchers : WF_wikiVars(Search(t) \/ Step(t))

-----------------------------------------------------------------------------
(* Properties *)

Rows == UNION {[S -> Nat] : S \in SUBSET Pages}
FilePrints == UNION {[S -> Nat \X BOOLEAN] : S \in SUBSET Pages}
Prints == {None} \cup FilePrints
Places == 1..Len(PageOrder)

Graphs == [state : {"missing", "ready", "dirty", "rebuilding"}, print : Prints, rows : Rows,
           doubted : BOOLEAN]

Looks == {"walk", "farther", "confirm", "collect", "again"}

Pcs == {"idle", "inspect", "mark", "wait", "rebuild", "snapshot", "put", "loaded",
        "fetch", "pulled", "write", "commit", "failed", "stage", "batch", "refresh",
        "disown", "restage", "final", "publish"} \cup Looks

Calls == [op : {"none", "search", "page", "index", "batch", "sync"}, pc : Pcs,
          phase : {"walk", "fetch", "prepare", "sync"},
          on : SUBSET WikiDomains, scope : SUBSET WikiDomains, pages : SUBSET Pages,
          before : Rows, prints : [WikiDomains -> Prints], now : [WikiDomains -> Prints],
          print : Prints, todo : SUBSET WikiDomains, at : WikiDomains \cup {None},
          snap : Rows, got : Seq(Nat), again : Seq(Nat), checked : Nat,
          seen : SUBSET [Places -> Nat], back : BOOLEAN, tries : {0, 1}]

\* Every variable stays in its type, and no page has a version yet to come.
WikiTypeOK ==
    /\ md \in [Pages -> Nat] /\ versions \in Nat
    /\ \A f \in Pages : md[f] <= versions
    /\ graph \in [WikiDomains -> Graphs]
    /\ broken \in BOOLEAN
    /\ lock \in Threads \cup {None}
    /\ thread \in [Threads -> Calls]
    /\ mishaps \in Nat

\* What a call is at says what kind of call it is, and what it is about.
Formed(q) ==
    /\ q.pc # "idle" => (q.op = "search" <=> q.phase = "walk")
    /\ q.phase = "prepare" => q.scope = q.on
    /\ q.op \in {"page", "index"} => \E d \in WikiDomains : q.on = {d}
    /\ q.phase = "sync" => q.op = "sync"
    /\ q.pc \in Looks => q.op = "search"
    /\ q.pc \in {"fetch", "pulled"} => q.phase \in {"fetch", "sync"}
    /\ q.pc \in {"write", "commit"} => q.phase = "prepare"
    /\ q.pc \in {"disown", "restage"} => q.op = "index" /\ q.phase = "prepare"
    /\ q.pc \in {"refresh", "final", "publish"} => q.op \in {"page", "index"}
    /\ q.pc \in {"fetch", "pulled", "write", "commit", "failed", "stage", "batch", "refresh",
                 "disown", "restage", "final", "publish"} => q.op # "search"

\* A tool has the lock until it returns, and a search while it rebuilds.
Repairing == {"rebuild", "snapshot", "put", "loaded"}
HasLock(t) ==
    thread[t].pc # "idle" /\ (thread[t].op # "search" \/ thread[t].pc \in Repairing)
        => lock = t

\* What the snapshot has otherwise than the fingerprint, the files have so too,
\* unless it has come back.
Rebuilding(q) ==
    /\ q.pc \in {"snapshot", "put"} =>
          /\ q.at \in WikiDomains /\ q.print \in FilePrints
          /\ \A f \in DOMAIN q.print : f \in Pages /\ f[1] = q.at /\ q.print[f][1] # 0
    /\ q.pc = "put" =>
          /\ \A f \in DOMAIN q.snap : f \in Pages /\ f[1] = q.at /\ q.snap[f] # 0
          /\ q.back \/ \A f \in Pages : f[1] = q.at =>
                \/ In(q.snap, f) = In(Contents(q.print), f)
                \/ md[f] # In(Contents(q.print), f)

\* The rows that were staged are those of the files, and of the fingerprint that
\* is taken then.
RowsStaged(q) ==
    q.pc \in {"restage", "final", "publish"} =>
        \/ q.back \/ graph[The(q)].doubted
        \/ graph[The(q)].rows =
               IF q.pc = "publish" THEN Contents(q.print) ELSE Markdown(The(q))

\* What a commit that fails puts back was there.
Remembers(q) ==
    q.pc = "commit" => \A f \in q.pages : q.op # "index" =>
        f \in DOMAIN q.before /\ q.before[f] <= versions

\* What the graph answers is what the fingerprints stand for.
Meant(prints) == [i \in Places |-> In(Contents(prints[PageOrder[i][1]]), PageOrder[i])]
Walks(q) ==
    /\ q.pc \in {"farther", "confirm"} => q.back \/ q.got = Meant(q.prints)
    /\ q.pc = "confirm" => q.back \/ q.again = Meant(q.prints)

\* Of the moments seen there is one that has all that was read and not found
\* changed, and what it has otherwise is not there any more.
Agrees(q, texts) ==
    /\ \A i \in Places : texts[i] = q.got[i] \/ md[PageOrder[i]] # q.got[i]
    /\ \A i \in 1..q.checked : texts[i] = q.got[i]
Reads(q) ==
    /\ q.pc \notin {"again"} => q.checked = 0
    /\ q.pc \notin Looks \ {"walk"} => q.got = <<>>
    /\ q.pc \notin {"collect", "again"} => q.seen = {}
    /\ q.seen # {} => Texts \in q.seen
    /\ q.pc \in {"collect", "again"} =>
          /\ Len(q.got) <= Len(PageOrder)
          /\ \A i \in 1..Len(q.got) : \E texts \in q.seen : texts[i] = q.got[i]
    /\ q.pc = "again" =>
          /\ Whole(q.got) /\ q.checked < Len(PageOrder)
          /\ q.back \/ \E texts \in q.seen : Agrees(q, texts)

\* A graph that is ready has the rows of the files whose fingerprint it bears, but
\* where an editor undid a change under a rebuild that had read it, or changed a
\* file in the gap of a mutation.
ReadyIsHonest ==
    \A d \in WikiDomains : graph[d].state = "ready" =>
        graph[d].doubted \/ graph[d].rows = Contents(graph[d].print)

Knows(t) ==
    LET q == thread[t] IN
    /\ HasLock(t)
    /\ Formed(q) /\ Rebuilding(q) /\ RowsStaged(q) /\ Remembers(q) /\ Walks(q) /\ Reads(q)

\* What threads know of the files and of the graph.
WikiInv ==
    /\ WikiTypeOK /\ ReadyIsHonest
    /\ \A t \in Threads : Knows(t)

\* What a search answers with is the whole Markdown of one moment: of the last
\* look at the fingerprints, or of some moment while the files were read.  Files
\* that change and change back while they are read may answer as they never were,
\* and a graph that is doubted may.
AnswersAreOfOneMoment ==
    [][\A t \in Threads :
          LET q == thread[t] IN
          /\ ensure_current(t) /\ thread'[t] = Idle
                 => q.back \/ (q.got = Texts /\ q.again = Texts)
          /\ SecondPass(t) /\ SameAgain(q) /\ thread'[t] = Idle
                 => q.back \/ q.got \in q.seen]_wikiVars

\* Once no tool is at work and nothing is edited or fails any more, the searches
\* leave every graph repaired.
GraphsAreRepaired ==
    Searchers # {} /\ <>[](\A t \in Tools : thread[t].pc = "idle")
        => <>[](~broken /\ \A d \in WikiDomains : Current(d))

=============================================================================
