------------------------------- MODULE PgPages -------------------------------
(***************************************************************************)
(* The pages of one domain in PostgreSQL, their search chunks and their    *)
(* specification projection (src/iwiki_mcp/postgres/store.py under the     *)
(* page tools of server.py).  A page has one section, hence one chunk row. *)
(*                                                                         *)
(* A call reads, prepares its projection outside any transaction, and then *)
(* changes the page, the domain's generation and the projection in one.    *)
(* Every action is one statement of one call, READ COMMITTED: it waits for *)
(* its row locks and then sees what the others have committed.             *)
(***************************************************************************)
EXTENDS Naturals

CONSTANTS
    Callers,
    Slugs,       \* in their order
    Texts,       \* page contents
    Scenarios,   \* scenario ids
    Declares,    \* the scenarios that each text declares
    Absent,      \* no page, no text, no read
    Attempts,    \* transactions tried before a projection is given up
    MaxCalls     \* bound: calls begun

ASSUME PagesAssumption ==
    /\ Slugs \subseteq Nat
    /\ Declares \in [Texts -> SUBSET Scenarios]
    /\ Absent \notin Texts \cup Callers \cup Slugs
    /\ Absent \notin [id : Nat, text : Texts, revision : Nat]
    /\ Absent \notin [id : Nat, text : Texts, revision : Nat, by : {"tool", "index"}]
    /\ Absent \notin [slug : Slugs, revision : Nat]
    /\ Attempts \in Nat \ {0} /\ MaxCalls \in Nat

VARIABLES
    mode,        \* the domain's specification mode, "optional" or "strict"
    page,        \* committed pages
    chunks,      \* each page's chunk row, numbered within its page, with the text
                 \* and page revision it was computed from, and by whom
    generation,  \* markdown_generation
    projection,  \* the specification pages it describes, and its rows
    lastId, calls,
    pc, call, seen, view,  \* each caller's call, last read page, prepared projection
    rowLock, chunkLock, domainLock,   \* locks of page, chunk and domain rows
    announced,   \* a caller was told that the projection is stale, since it was not
    births       \* pages created at each slug

database == <<page, chunks, generation, projection, lastId>>
locks == <<rowLock, chunkLock, domainLock>>
history == <<announced, births>>
vars == <<mode, database, calls, pc, call, seen, view, locks, history>>

\* A text that declares nothing is an ordinary page.
IsSpecification(t) == t # Absent /\ Declares[t] # {}
TextOf(pages, p) == IF pages[p] = Absent THEN Absent ELSE pages[p].text

SpecificationPages(pages) ==
    {<<p, pages[p].text, pages[p].revision>> :
        p \in {q \in Slugs : IsSpecification(TextOf(pages, q))}}

DeclaredBy(pages, s) ==
    {p \in Slugs : IsSpecification(TextOf(pages, p)) /\ s \in Declares[pages[p].text]}

\* A scenario that two pages declare is a finding of both, and no row.
Blocked(pages, p) ==
    \E s \in Scenarios : p \in DeclaredBy(pages, s) /\ DeclaredBy(pages, s) # {p}

\* A row for each scenario that one page declares.
ScenarioRows(pages) == {row \in Scenarios \X Slugs : DeclaredBy(pages, row[1]) = {row[2]}}

Project(pages) ==
    [kind |-> "ready", revision |-> SpecificationPages(pages), rows |-> ScenarioRows(pages)]

NoCall == [op |-> "none", slug |-> Absent, text |-> Absent, expected |-> 0,
           base |-> Absent, attempt |-> 0, found |-> 0]
NoView == [kind |-> "none", revision |-> {}, rows |-> {}]
Failed == [kind |-> "failed", revision |-> {}, rows |-> {}]

Chunk(n, t, rev, writer) == [id |-> n, text |-> t, revision |-> rev, by |-> writer]

Init ==
    /\ mode \in {"optional", "strict"}
    /\ \E first \in Slugs, t \in Texts :
          /\ first = CHOOSE p \in Slugs : TRUE
          /\ page = [p \in Slugs |-> IF p = first
                        THEN [id |-> 1, text |-> t, revision |-> 1] ELSE Absent]
    /\ chunks = [p \in Slugs |-> IF page[p] = Absent THEN Absent
                                  ELSE Chunk(1, page[p].text, 1, "tool")]
    /\ projection = Project(page)
    /\ generation = 1 /\ lastId = 1 /\ calls = 0
    /\ pc = [c \in Callers |-> "idle"]
    /\ call = [c \in Callers |-> NoCall]
    /\ seen = [c \in Callers |-> Absent]
    /\ view = [c \in Callers |-> NoView]
    /\ rowLock = [p \in Slugs |-> Absent] /\ chunkLock = [p \in Slugs |-> Absent]
    /\ domainLock = [c \in Callers |-> "none"]
    /\ announced = FALSE
    /\ births = [p \in Slugs |-> IF page[p] = Absent THEN 0 ELSE 1]

-----------------------------------------------------------------------------
(* Row locks *)

\* KEY SHARE of a foreign key, NO KEY UPDATE of an update, FOR UPDATE.
Conflicts(held, wanted) ==
    \/ held = "update" /\ wanted # "share"
    \/ held = "exclusive"
    \/ wanted = "exclusive"

HoldersAgainst(c, wanted) ==
    {d \in Callers \ {c} : domainLock[d] # "none" /\ Conflicts(domainLock[d], wanted)}

RowHolders(c, p) == {d \in Callers \ {c} : rowLock[p] = d}
ChunkHolders(c, p) == {d \in Callers \ {c} : chunkLock[p] = d}

\* SELECT ... FOR UPDATE keeps the foreign key of a new chunk waiting ...
Deleters(c, p) == {d \in RowHolders(c, p) : call[d].op = "delete"}

\* ... and waits for those of the chunks that an index_domain has inserted.
IndexedPages(c) == {p \in Slugs : call[c].base[p] # Absent}
Filled(c, p) ==
    /\ call[c].op = "index" /\ pc[c] \in {"emptying", "filling", "publishing"}
    /\ p \in IndexedPages(c)
    /\ pc[c] # "publishing" => p < call[c].slug
Sharers(c, p) == {d \in Callers \ {c} : Filled(d, p)}

Stronger(held, wanted) ==
    IF held = "exclusive" \/ (held = "update" /\ wanted = "share") THEN held ELSE wanted

LockDomain(c, wanted) ==
    domainLock' = [domainLock EXCEPT ![c] = Stronger(@, wanted)]

\* Faulty: the connection goes back with its transaction open.
ConnectionKept(c) == UNCHANGED locks

\* The transaction ends: COMMIT or ROLLBACK.
Released(c) ==
    /\ rowLock' = [p \in Slugs |-> IF rowLock[p] = c THEN Absent ELSE rowLock[p]]
    /\ chunkLock' = [p \in Slugs |-> IF chunkLock[p] = c THEN Absent ELSE chunkLock[p]]
    /\ domainLock' = [domainLock EXCEPT ![c] = "none"]

Answer(c) ==
    /\ pc' = [pc EXCEPT ![c] = "idle"]
    /\ call' = [call EXCEPT ![c] = NoCall]
    /\ view' = [view EXCEPT ![c] = NoView]

\* The call ends and nothing of it remains.
Refuse(c) == Answer(c) /\ Released(c) /\ UNCHANGED <<mode, database, calls, seen, history>>

Goto(c, label) == pc' = [pc EXCEPT ![c] = label]

-----------------------------------------------------------------------------
(* The tools *)

\* wiki_read_page
Read(c, p) ==
    /\ pc[c] = "idle" /\ page[p] # Absent /\ calls < MaxCalls
    /\ seen' = [seen EXCEPT ![c] = [slug |-> p, revision |-> page[p].revision]]
    /\ UNCHANGED <<mode, database, calls, pc, call, view, locks, history>>

\* A caller reads a page for one call.
Begin(c, label, r) ==
    /\ pc[c] = "idle" /\ calls < MaxCalls
    /\ calls' = calls + 1
    /\ call' = [call EXCEPT ![c] = [r EXCEPT !.attempt = 1]]
    /\ seen' = [seen EXCEPT ![c] = Absent]
    /\ Goto(c, label)
    /\ UNCHANGED <<mode, database, view, locks, history>>

StartWrite(c, p, t) ==
    Begin(c, "preparing", [NoCall EXCEPT !.op = "write", !.slug = p, !.text = t])

\* A section tool reads the page again, and edits what it finds there.
StartUpdate(c, t) ==
    /\ seen[c] # Absent /\ page[seen[c].slug] # Absent
    /\ Begin(c, "checking", [NoCall EXCEPT !.op = "update", !.slug = seen[c].slug,
                !.text = t, !.expected = seen[c].revision, !.base = page[seen[c].slug]])

StartDelete(c) ==
    /\ seen[c] # Absent
    /\ Begin(c, "checking", [NoCall EXCEPT !.op = "delete", !.slug = seen[c].slug,
                !.expected = seen[c].revision])

StartIndex(c) == Begin(c, "preparing", [NoCall EXCEPT !.op = "index"])

-----------------------------------------------------------------------------
(* One call of the store *)

HasRevision(p, n) == page[p] # Absent /\ page[p].revision = n

\* Faulty: only the check before the transaction compares revisions.
RevisionTrusted(c) == page[call[c].slug] # Absent

RevisionMatches(c) == HasRevision(call[c].slug, call[c].expected)

\* read_page before anything is prepared.
Check(c) ==
    /\ pc[c] = "checking"
    /\ IF HasRevision(call[c].slug, call[c].expected)
       THEN Goto(c, "preparing")
            /\ UNCHANGED <<mode, database, calls, call, seen, view, locks, history>>
       ELSE Refuse(c)

\* The domain as the call would leave it.
Candidate(c) ==
    LET r == call[c] IN
    CASE r.op = "write"  -> [page EXCEPT ![r.slug] =
                                [id |-> 0, text |-> r.text, revision |-> 1]]
      [] r.op = "update" -> [page EXCEPT ![r.slug] =
                                [id |-> 0, text |-> r.text, revision |-> r.expected + 1]]
      [] r.op = "delete" -> [page EXCEPT ![r.slug] = Absent]
      [] OTHER           -> page

\* Faulty: a page that stops being a specification is not projected.
OnlyCandidate(c) == call[c].op = "index" \/ IsSpecification(call[c].text)

NeedsProjection(c) ==
    \/ call[c].op = "index"
    \/ IsSpecification(call[c].text)
    \/ IsSpecification(TextOf(page, call[c].slug))

Prepared(c, v) ==
    /\ view' = [view EXCEPT ![c] = v]
    /\ Goto(c, "changing")
    /\ UNCHANGED <<mode, database, calls, call, seen, locks, history>>

\* A refused specification page is a refused call.
Prepare(c) ==
    /\ pc[c] = "preparing" /\ call[c].op # "index"
    /\ IF mode = "strict" /\ NeedsProjection(c) /\ Blocked(Candidate(c), call[c].slug)
       THEN Refuse(c)
       ELSE Prepared(c, IF NeedsProjection(c) THEN Project(Candidate(c)) ELSE NoView)

\* index_domain goes to the first of the pages that are left.
NextPage(c, r, rest) ==
    \/ /\ rest = {}
       /\ Goto(c, "publishing")
       /\ call' = [call EXCEPT ![c] = r]
    \/ \E p \in rest :
          /\ \A q \in rest : p <= q
          /\ Goto(c, "emptying")
          /\ call' = [call EXCEPT ![c] = [r EXCEPT !.slug = p, !.found = 0]]

\* index_domain also computes the chunks of every page that it reads.
PrepareIndex(c) ==
    /\ pc[c] = "preparing" /\ call[c].op = "index"
    /\ \E v \in {Failed} \cup (IF call[c].attempt > Attempts THEN {} ELSE {Project(page)}) :
          view' = [view EXCEPT ![c] = v]
    /\ NextPage(c, [call[c] EXCEPT !.base = page], {p \in Slugs : page[p] # Absent})
    /\ UNCHANGED <<mode, database, calls, seen, locks, history>>

\* The projection cannot be assembled.
PrepareFails(c) ==
    /\ pc[c] = "preparing" /\ call[c].op # "index"
    /\ IF mode = "optional" THEN Prepared(c, Failed) ELSE Refuse(c)

\* A writer of a projected page locks the domain before anything else.
LockFirst(c) ==
    /\ pc[c] = "changing" /\ call[c].op = "write" /\ view[c] # NoView
    /\ domainLock[c] # "exclusive"
    /\ HoldersAgainst(c, "exclusive") = {}
    /\ LockDomain(c, "exclusive")
    /\ UNCHANGED <<mode, database, calls, pc, call, seen, view, rowLock, chunkLock, history>>

Locked(c, label) ==
    /\ rowLock' = [rowLock EXCEPT ![call[c].slug] = c]
    /\ Goto(c, label)
    /\ UNCHANGED <<mode, database, calls, call, seen, view, chunkLock, history>>

\* INSERT ... ON CONFLICT DO NOTHING; its foreign key shares the domain's row.
\* Nobody knows a chunk of the new page before COMMIT.
Insert(c) ==
    /\ pc[c] = "changing" /\ call[c].op = "write"
    /\ view[c] # NoView => domainLock[c] = "exclusive"
    /\ RowHolders(c, call[c].slug) = {} /\ HoldersAgainst(c, "share") = {}
    /\ IF page[call[c].slug] = Absent
       THEN Locked(c, "bumping") /\ LockDomain(c, "share")
       ELSE Refuse(c)

\* UPDATE ... WHERE revision = expected, or SELECT ... FOR UPDATE.
ChangeRow(c) ==
    /\ pc[c] = "changing" /\ call[c].op \in {"update", "delete"}
    /\ RowHolders(c, call[c].slug) = {}
    /\ call[c].op = "delete" => Sharers(c, call[c].slug) = {}
    /\ IF RevisionMatches(c)
       THEN /\ Locked(c, IF call[c].op = "update" THEN "selecting" ELSE "rewriting")
            /\ UNCHANGED domainLock
       ELSE Refuse(c)

\* The chunk row of p that c's statement changes is its own until the end.
LockChunk(c, p) == chunkLock' = [chunkLock EXCEPT ![p] = c]

\* _reindex_chunks reads the row; one that has the hash of the text may stay.
SelectChunks(c) ==
    LET p == call[c].slug IN
    /\ pc[c] = "selecting"
    /\ Goto(c, IF chunks[p].text = call[c].text THEN "bumping" ELSE "rewriting")
    /\ call' = [call EXCEPT ![c].found = chunks[p].id]
    /\ UNCHANGED <<mode, database, calls, seen, view, locks, history>>

\* UPDATE ... WHERE chunk_id of the section's row, if its heading stays.
UpdateChunk(c) ==
    LET p == call[c].slug IN
    /\ pc[c] = "rewriting" /\ call[c].op = "update"
    /\ IF chunks[p].id = call[c].found
       THEN ChunkHolders(c, p) = {} /\ LockChunk(c, p)
       ELSE UNCHANGED chunkLock
    /\ Goto(c, "bumping")
    /\ UNCHANGED <<mode, database, calls, call, seen, view, rowLock, domainLock, history>>

\* DELETE of that row and INSERT of another, if not.  In the place of a row that
\* an index_domain has put there meanwhile, the new one violates its unique key.
ReplaceChunk(c) ==
    LET p == call[c].slug IN
    /\ pc[c] = "rewriting" /\ call[c].op = "update"
    /\ ChunkHolders(c, p) = {}
    /\ IF chunks[p].id = call[c].found
       THEN /\ LockChunk(c, p)
            /\ Goto(c, "bumping")
            /\ call' = [call EXCEPT ![c].found = @ + 1]
            /\ UNCHANGED <<mode, database, calls, seen, view, rowLock, domainLock, history>>
       ELSE Refuse(c)

\* DELETE of the page, which its foreign key passes on to the chunk.
DropPage(c) ==
    /\ pc[c] = "rewriting" /\ call[c].op = "delete"
    /\ ChunkHolders(c, call[c].slug) = {}
    /\ LockChunk(c, call[c].slug)
    /\ Goto(c, "bumping")
    /\ UNCHANGED <<mode, database, calls, call, seen, view, rowLock, domainLock, history>>

BumpGeneration(c) ==
    /\ pc[c] = "bumping"
    /\ HoldersAgainst(c, "update") = {}
    /\ LockDomain(c, "update")
    /\ Goto(c, "publishing")
    /\ UNCHANGED <<mode, database, calls, call, seen, view, rowLock, chunkLock, history>>

\* The page as this transaction sees it.
Changed(c) ==
    LET r == call[c] IN
    CASE r.op = "write"  -> [page EXCEPT ![r.slug] =
                                [id |-> lastId + 1, text |-> r.text, revision |-> 1]]
      [] r.op = "update" -> [page EXCEPT ![r.slug].text = r.text, ![r.slug].revision = @ + 1]
      [] r.op = "delete" -> [page EXCEPT ![r.slug] = Absent]

\* An UPDATE that met another row than the one selected has changed nothing.
NewChunk(c) ==
    LET r == call[c] IN
    CASE r.op = "write"  -> Chunk(1, r.text, 1, "tool")
      [] r.op = "update" -> IF chunkLock[r.slug] = c
                            THEN Chunk(r.found, r.text, r.expected + 1, "tool")
                            ELSE chunks[r.slug]
      [] r.op = "delete" -> Absent

\* COMMIT.  A deleted page takes its scenario rows with it.
Commit(c, described, stale) ==
    LET p == call[c].slug IN
    /\ page' = Changed(c)
    /\ chunks' = [chunks EXCEPT ![p] = NewChunk(c)]
    /\ generation' = generation + 1
    /\ lastId' = IF call[c].op = "write" THEN lastId + 1 ELSE lastId
    /\ births' = IF call[c].op = "write" THEN [births EXCEPT ![p] = @ + 1] ELSE births
    /\ projection' = IF call[c].op = "delete"
                     THEN [described EXCEPT !.rows = {row \in @ : row[2] # p}]
                     ELSE described
    /\ announced' = stale
    /\ Answer(c) /\ Released(c)
    /\ UNCHANGED <<mode, calls, seen>>

\* _SpecificationSnapshotChanged: everything again, on the domain as it is now.
TryAgain(c) ==
    \/ /\ call[c].attempt < Attempts \/ call[c].op = "index"
       /\ Goto(c, "preparing") /\ Released(c)
       /\ call' = [call EXCEPT ![c].attempt = @ + 1]
       /\ UNCHANGED <<mode, database, calls, seen, view, history>>
    \/ /\ call[c].attempt = Attempts /\ call[c].op # "index" /\ mode = "optional"
       /\ Goto(c, "changing") /\ Released(c)
       /\ view' = [view EXCEPT ![c] = Failed]
       /\ UNCHANGED <<mode, database, calls, call, seen, history>>
    \/ /\ call[c].attempt = Attempts /\ call[c].op # "index" /\ mode = "strict"
       /\ Refuse(c)

\* Faulty: whatever was prepared is published.
SnapshotTrusted(c, pages) == TRUE

SnapshotUnchanged(c, pages) == SpecificationPages(pages) = view[c].revision

Publish(c) ==
    /\ pc[c] = "publishing" /\ call[c].op # "index"
    /\ \/ view[c] = NoView /\ Commit(c, projection, announced)
       \/ view[c] = Failed /\ Commit(c, projection, TRUE)
       \/ /\ view[c].kind = "ready"
          /\ HoldersAgainst(c, "exclusive") = {}
          /\ IF SnapshotUnchanged(c, Changed(c)) THEN Commit(c, view[c], FALSE) ELSE TryAgain(c)

\* The projection's savepoint fails: the page is written without it, or not at all.
PublishFails(c) ==
    /\ pc[c] = "publishing" /\ view[c].kind = "ready" /\ call[c].op # "index"
    /\ IF mode = "optional" THEN Commit(c, projection, TRUE) ELSE Refuse(c)

-----------------------------------------------------------------------------
(* The transaction of index_domain *)

\* Faulty: chunks are those of a slug, not of a page_id.
SlugExists(c, p) == page[p] # Absent

\* The page is still the one that was read.
OwnPage(c, p) == page[p] # Absent /\ page[p].id = call[c].base[p].id

\* DELETE ... WHERE page_id begins, and waits for a chunk row that it has found.
EmptyWaits(c) ==
    LET p == call[c].slug IN
    /\ pc[c] = "emptying" /\ call[c].found = 0
    /\ OwnPage(c, p) /\ ChunkHolders(c, p) # {}
    /\ call' = [call EXCEPT ![c].found = chunks[p].id]
    /\ UNCHANGED <<mode, database, calls, pc, seen, view, locks, history>>

\* One that waited does not see a row inserted since.
Empty(c) ==
    LET p == call[c].slug IN
    /\ pc[c] = "emptying"
    /\ OwnPage(c, p) => ChunkHolders(c, p) = {}
    /\ IF OwnPage(c, p) /\ call[c].found \in {0, chunks[p].id}
       THEN LockChunk(c, p) ELSE UNCHANGED chunkLock
    /\ Goto(c, "filling")
    /\ UNCHANGED <<mode, database, calls, call, seen, view, rowLock, domainLock, history>>

\* INSERT, which fails on the key of a row that was not deleted, or for want of a page.
Fill(c) ==
    LET p == call[c].slug IN
    /\ pc[c] = "filling"
    /\ ChunkHolders(c, p) = {} /\ Deleters(c, p) = {}
    /\ IF chunkLock[p] = c
       THEN /\ NextPage(c, call[c], {q \in IndexedPages(c) : p < q})
            /\ UNCHANGED <<mode, database, calls, seen, view, locks, history>>
       ELSE Refuse(c)

\* COMMIT
Reindexed(c, described, stale) ==
    /\ chunks' = [p \in Slugs |->
           IF p \in IndexedPages(c)
           THEN Chunk(chunks[p].id + 1, call[c].base[p].text, call[c].base[p].revision, "index")
           ELSE chunks[p]]
    /\ projection' = described /\ announced' = stale
    /\ Answer(c) /\ Released(c)
    /\ UNCHANGED <<mode, page, generation, lastId, calls, seen, births>>

PublishIndex(c) ==
    /\ pc[c] = "publishing" /\ call[c].op = "index"
    /\ \/ view[c] = Failed /\ Reindexed(c, projection, TRUE)
       \/ /\ view[c].kind = "ready"
          /\ HoldersAgainst(c, "exclusive") = {}
          /\ IF SnapshotUnchanged(c, page) THEN Reindexed(c, view[c], FALSE) ELSE TryAgain(c)

\* In either mode the chunks are written, and the answer warns.
PublishIndexFails(c) ==
    /\ pc[c] = "publishing" /\ view[c].kind = "ready" /\ call[c].op = "index"
    /\ Reindexed(c, projection, TRUE)

-----------------------------------------------------------------------------
(* What PostgreSQL does to a call *)

InTransaction(c) ==
    \/ pc[c] \in {"selecting", "rewriting", "bumping", "emptying", "filling", "publishing"}
    \/ pc[c] = "changing" /\ domainLock[c] # "none"

\* The callers whose locks keep c's statement waiting.
WaitsFor(c) ==
    LET p == call[c].slug IN
    CASE pc[c] = "changing" /\ call[c].op = "write" ->
             IF domainLock[c] = "none" /\ view[c] # NoView
             THEN HoldersAgainst(c, "exclusive")
             ELSE RowHolders(c, p) \cup HoldersAgainst(c, "share")
      [] pc[c] = "changing" /\ call[c].op = "update" -> RowHolders(c, p)
      [] pc[c] = "changing" /\ call[c].op = "delete" -> RowHolders(c, p) \cup Sharers(c, p)
      [] pc[c] = "rewriting" -> ChunkHolders(c, p)
      [] pc[c] = "emptying" -> IF OwnPage(c, p) THEN ChunkHolders(c, p) ELSE {}
      [] pc[c] = "filling" -> ChunkHolders(c, p) \cup Deleters(c, p)
      [] pc[c] = "bumping" -> HoldersAgainst(c, "update")
      [] pc[c] = "publishing" /\ view[c].kind = "ready" -> HoldersAgainst(c, "exclusive")
      [] OTHER -> {}

Deadlocked(c) ==
    \E ring \in SUBSET Callers :
        c \in ring /\ \A d \in ring : (\E e \in ring : d \in WaitsFor(e)) /\ WaitsFor(d) \cap ring # {}

\* One of them is chosen, and its statement fails.
DeadlockVictim(c) ==
    /\ Deadlocked(c)
    /\ IF pc[c] = "publishing" THEN PublishFails(c) \/ PublishIndexFails(c) ELSE Refuse(c)

ConnectionLost(c) == InTransaction(c) /\ Refuse(c)

-----------------------------------------------------------------------------

CallStep(c) ==
    \/ Check(c) \/ Prepare(c) \/ PrepareIndex(c) \/ PrepareFails(c)
    \/ LockFirst(c) \/ Insert(c) \/ ChangeRow(c)
    \/ SelectChunks(c) \/ UpdateChunk(c) \/ ReplaceChunk(c) \/ DropPage(c)
    \/ BumpGeneration(c) \/ Publish(c) \/ PublishFails(c)
    \/ EmptyWaits(c) \/ Empty(c) \/ Fill(c) \/ PublishIndex(c) \/ PublishIndexFails(c)
    \/ DeadlockVictim(c)

Next ==
    \E c \in Callers :
        \/ \E p \in Slugs : Read(c, p)
        \/ \E p \in Slugs, t \in Texts : StartWrite(c, p, t)
        \/ \E t \in Texts : StartUpdate(c, t)
        \/ StartDelete(c) \/ StartIndex(c)
        \/ CallStep(c) \/ ConnectionLost(c)

Spec == Init /\ [][Next]_vars

\* A call runs on; whether a caller makes another one is its own affair.
FairSpec == Spec /\ \A c \in Callers : WF_vars(CallStep(c))

-----------------------------------------------------------------------------
(* Properties *)

PageRecords == [id : Nat, text : Texts, revision : Nat]
ChunkRecords == [id : Nat, text : Texts, revision : Nat, by : {"tool", "index"}]
PageMaps == [Slugs -> PageRecords \cup {Absent}]
Views == [kind : {"none", "ready", "failed"}, revision : SUBSET (Slugs \X Texts \X Nat),
          rows : SUBSET (Scenarios \X Slugs)]
Labels == {"idle", "checking", "preparing", "changing", "selecting", "rewriting",
           "bumping", "emptying", "filling", "publishing"}
CallRecords == [op : {"none", "write", "update", "delete", "index"},
                slug : Slugs \cup {Absent}, text : Texts \cup {Absent},
                expected : Nat, attempt : Nat, found : Nat,
                base : PageMaps \cup PageRecords \cup {Absent}]
Reads == [slug : Slugs, revision : Nat] \cup {Absent}

\* Every variable stays in its type.
TypeOK ==
    /\ mode \in {"optional", "strict"}
    /\ page \in PageMaps /\ chunks \in [Slugs -> ChunkRecords \cup {Absent}]
    /\ generation \in Nat /\ lastId \in Nat /\ calls \in Nat
    /\ projection \in Views
    /\ pc \in [Callers -> Labels]
    /\ call \in [Callers -> CallRecords]
    /\ seen \in [Callers -> Reads]
    /\ view \in [Callers -> Views]
    /\ rowLock \in [Slugs -> Callers \cup {Absent}]
    /\ chunkLock \in [Slugs -> Callers \cup {Absent}]
    /\ domainLock \in [Callers -> {"none", "share", "update", "exclusive"}]
    /\ announced \in BOOLEAN /\ births \in [Slugs -> Nat]

\* "Omission or a stale value leaves the page unchanged" (resources.py): an
\* update replaces the very text that it edited, of pages never created again.
NoLostUpdate ==
    [][\A p \in Slugs :
        page[p] # Absent /\ page'[p] # Absent /\ page'[p] # page[p] /\ births[p] = 1
            => \E c \in Callers : /\ call[c].op = "update" /\ call[c].slug = p
                                  /\ call[c].base = page[p] /\ call'[c] = NoCall]_vars

\* The same of every page: not so, a page created again has revision 1 again.
StaleRevisionIsRefused ==
    [][\A p \in Slugs :
        page[p] # Absent /\ page'[p] # Absent /\ page'[p] # page[p]
            => \E c \in Callers : /\ call[c].op = "update" /\ call[c].slug = p
                                  /\ call[c].base = page[p] /\ call'[c] = NoCall]_vars

\* In strict mode two concurrent writers cannot both declare one scenario.
StrictDeclaresOnce == mode = "strict" => \A p \in Slugs : ~Blocked(page, p)

\* What specification_status answers as ready has no row that the pages of now
\* do not declare, and lacks rows of pages that were created again only: of those
\* a row went with the older page, and the revision is the same again.
ReadyProjectionIsTrue ==
    projection.revision = SpecificationPages(page) =>
        /\ projection.rows \subseteq ScenarioRows(page)
        /\ \A row \in ScenarioRows(page) \ projection.rows : births[row[2]] > 1

\* The slugs on which the projection and the pages differ.
StaleSlugs == {p \in Slugs :
    {t \in projection.revision : t[1] = p} # {t \in SpecificationPages(page) : t[1] = p}}

\* A projection that lags behind the pages was announced to a caller, but for
\* pages that were created again.
StaleIsAnnounced == announced \/ \A p \in StaleSlugs : births[p] > 1

\* The specification projection says what the pages say, or is known not to.
ProjectionIsHonest == ReadyProjectionIsTrue /\ StaleIsAnnounced

\* Every page can be searched, and a chunk of another text than its page's is
\* that of an index_domain, which read the page before its latest change: no
\* page loses its chunk between two transactions that rewrite it, and none gets
\* that of an earlier page of its slug.
ChunksAreKnown ==
    \A p \in Slugs :
        /\ chunks[p] = Absent <=> page[p] = Absent
        /\ page[p] # Absent /\ chunks[p].text # page[p].text =>
              chunks[p].by = "index" /\ chunks[p].revision < page[p].revision

\* What was prepared is still to be written.
Working(c) == pc[c] \in {"changing", "selecting", "rewriting", "bumping",
                        "emptying", "filling", "publishing"}

\* The transaction of a page tool has its row.
HasRow(c) ==
    pc[c] \in {"selecting", "rewriting", "bumping"}
        \/ (pc[c] = "publishing" /\ call[c].op # "index")

\* A call knows what its tool gives it, at the steps that need it.
CallFits(c) ==
    LET r == call[c] IN
    /\ pc[c] = "idle" <=> r.op = "none"
    /\ pc[c] = "checking" => r.op \in {"update", "delete"}
    /\ pc[c] \in {"changing", "selecting", "rewriting", "bumping"} => r.op # "index"
    /\ pc[c] = "selecting" => r.op = "update"
    /\ pc[c] = "rewriting" => r.op \in {"update", "delete"}
    /\ pc[c] \in {"emptying", "filling"} => r.op = "index" /\ r.slug \in IndexedPages(c)
    /\ r.op \in {"write", "update", "delete"} => r.slug \in Slugs
    /\ r.op \in {"write", "update"} => r.text \in Texts
    /\ r.op = "delete" => r.text = Absent
    /\ r.op = "update" => r.base \in PageRecords
    /\ r.op = "index" /\ Working(c) => r.base \in PageMaps

\* From the change of its row to its end, a transaction holds the row as it
\* found it.
HoldsRow(c) ==
    LET p == call[c].slug IN
    HasRow(c) =>
        /\ rowLock[p] = c
        /\ call[c].op = "write" => page[p] = Absent
        /\ call[c].op \in {"update", "delete"} => HasRevision(p, call[c].expected)

Declarers(revision, s) == {p \in Slugs : \E t \in revision : t[1] = p /\ s \in Declares[t[2]]}
RowsOf(revision) == {row \in Scenarios \X Slugs : Declarers(revision, row[1]) = {row[2]}}

\* A prepared projection has the rows of the specification pages it names, and a
\* strict one lets the page of its call declare nothing that another declares.
ViewFits(c) ==
    LET r == call[c]
        v == view[c] IN
    Working(c) =>
        /\ v.kind = "ready" => v.rows = RowsOf(v.revision)
        /\ v.kind # "ready" => v \in {NoView, Failed}
        /\ r.op = "index" => v # NoView
        /\ r.op # "index" /\ v = NoView => ~IsSpecification(r.text)
        /\ r.op # "index" /\ mode = "strict" =>
              /\ v # Failed
              /\ v.kind = "ready" => \A s \in Scenarios :
                    r.slug \in Declarers(v.revision, s) => Declarers(v.revision, s) = {r.slug}

\* A page that was created once has at least the revision that a caller read ...
ReadIsOld(c) ==
    LET p == seen[c].slug IN
    seen[c] # Absent =>
        /\ births[p] > 0
        /\ births[p] = 1 /\ page[p] # Absent => seen[c].revision <= page[p].revision

\* ... and at the very revision that its call expects, it is what the call found.
CallIsOld(c) ==
    LET r == call[c]
        p == r.slug IN
    r.op \in {"update", "delete"} =>
        /\ births[p] > 0
        /\ births[p] = 1 /\ page[p] # Absent =>
              /\ r.expected <= page[p].revision
              /\ r.expected = page[p].revision =>
                    /\ r.op = "update" => r.base = page[p]
                    /\ Working(c) /\ view[c] = NoView => ~IsSpecification(page[p].text)

\* What a transaction knows of the chunk rows.  An update has its row, or finds
\* nothing to change, or finds that of an index_domain; a delete has the row.
HoldsChunk(c) ==
    LET p == call[c].slug IN
    /\ call[c].op = "update" /\ pc[c] = "rewriting" =>
          chunks[p].id = call[c].found \/ chunks[p].by = "index"
    /\ call[c].op = "update" /\ pc[c] \in {"bumping", "publishing"} =>
          chunkLock[p] = c \/ chunks[p].text = call[c].text \/ chunks[p].by = "index"
    /\ call[c].op = "delete" /\ pc[c] \in {"bumping", "publishing"} => chunkLock[p] = c

\* An index_domain has the chunk rows of the pages it has done, which are still
\* the ones it read.
HoldsChunks(c) ==
    /\ \A p \in Slugs : Filled(c, p) => chunkLock[p] = c
    /\ call[c].op = "index" /\ Working(c) =>
          \A p \in IndexedPages(c) : chunkLock[p] = c => OwnPage(c, p)

\* A page that it has read is one of those numbered so far, and at the revision
\* that it read it has the text that it read.
IndexIsOld(c) ==
    call[c].op = "index" /\ Working(c) =>
        \A p \in IndexedPages(c) :
            /\ call[c].base[p].id <= lastId
            /\ OwnPage(c, p) =>
                  /\ call[c].base[p].revision <= page[p].revision
                  /\ \/ call[c].base[p].revision # page[p].revision
                     \/ call[c].base[p].text = page[p].text

\* No page is numbered beyond lastId, and no chunk is of a later revision.
PagesAreNumbered ==
    \A p \in Slugs : page[p] # Absent =>
        page[p].id <= lastId /\ chunks[p].revision <= page[p].revision

PagesAreBorn == \A p \in Slugs : page[p] # Absent => births[p] > 0

\* The stored projection has the rows of the specification pages it names, but
\* for those of pages deleted since.
RowsAreOfRevision ==
    /\ projection.rows \subseteq RowsOf(projection.revision)
    /\ \A row \in RowsOf(projection.revision) \ projection.rows :
          births[row[2]] > 1 \/ (births[row[2]] = 1 /\ page[row[2]] = Absent)

\* The inductive invariant of the pages and their projection ...
PagesInv ==
    /\ TypeOK
    /\ \A c \in Callers :
          CallFits(c) /\ HoldsRow(c) /\ ViewFits(c) /\ ReadIsOld(c) /\ CallIsOld(c)
    /\ PagesAreBorn
    /\ RowsAreOfRevision
    /\ StrictDeclaresOnce
    /\ StaleIsAnnounced

\* ... and, with it, of their chunks.
ChunksInv ==
    /\ \A c \in Callers : HoldsChunk(c) /\ HoldsChunks(c) /\ IndexIsOld(c)
    /\ PagesAreNumbered
    /\ ChunksAreKnown

\* Every call is answered, whoever waits for whom.
CallsReturn == \A c \in Callers : pc[c] # "idle" ~> pc[c] = "idle"
=============================================================================
