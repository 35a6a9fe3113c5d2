# iwiki-mcp in TLA+

A verification development of iwiki-mcp: TLA+ modules translated from the
Python and SQL of this repository, TLC configurations that check them on small
instances, and TLAPS proofs of what matters most for every instance. Paths
are relative to the repository, those of code to `src/iwiki_mcp/`;
`PROJECT.json` maps every definition to the lines it stands for.

## The system

iwiki-mcp serves project wikis (Markdown pages in *domains*) and a *code graph*
of the sources to language-model clients over MCP. It has two backends: a *base*
of Markdown files under Git, used by local stdio servers that share it, and
PostgreSQL, used by one or more hosted HTTP servers. A Telegram bot is one of the
clients of a hosted server.

| Component | State | Operations | Talks to |
|---|---|---|---|
| Code-graph publication, `postgres/codegraph.py` | publication sessions, batches, snapshots, graph rows, links, the active snapshot of a domain | begin, publish_batch, finalize, abort | pages and their generation; the publishing client over MCP; maintenance after begin and finalize |
| Snapshot life, same file | rows of superseded snapshots | link refresh, superseded drain, status, search, manual revert | publication; maintenance runs the drain |
| Maintenance, `codegraph/maintenance.py` | bounded queue, scheduled keys, stopping flag, worker threads | submit, worker loop, start, stop | request threads of the server |
| Publishing client, `codegraph/application.py`, `codegraph/mcp_adapter.py` | one publication in progress | publish_snapshot: begin, batches, finalize, abort when in doubt | the target, by calls that may be lost |
| Build worker, `codegraph/runtime.py` | the one job slot, history of ended jobs, each job's phase and flags | start or join a build, wait with a deadline, detach, poll, shut down | the indexer's thread; the publishing client |
| Local code graph, `codegraph/indexer.py`, `codegraph/store.py`, `codegraph/runtime.py` | a SQLite file, a metadata file beside it, two file locks | build, replacement, query with its guard, recovery, disowning | build worker; Wiki selectors |
| Cross-domain journal, `cross_domain.py` | journal directory, manifest, snapshots | execute a plan, recover | Git base; every guarded tool recovers first |
| Git-backed base, `sync.py`, `lock.py` | worktree, Git's index, HEAD, file lock | freshness check, commit, pull with rebase, push | the remote, by commands that may fail |
| Link graph of the base, `graph.py`, `indexer.py`, `engine/graph_store.py` | a row per domain with state and fingerprint, rows of pages | stage, finalize, rebuild, walk, mark dirty | page tools and searches; editors who hold no lock |
| Pages, `postgres/store.py` | pages, revisions, chunks, generation, specification projection | write, update by expected revision, delete, index_domain | publication through the generation |
| Hosted requests, `http.py` | bindings of MCP sessions to tokens and selections, bounded and aged; a lock per session; a limit of threads | authenticate, bind, serve, release, evict | authorization |
| Authorization and administration, `postgres/auth.py`, `postgres/admin.py` | tokens, wikis, domains, grants | issue, revoke, create, grant, check | every hosted request |
| Telegram bot, `telegram_bot/` | an offset; in memory, selections, kept questions and previews | one polling loop, a handler per update | Telegram; a hosted server, as a client |
| Specifications, retrieval, page text, source analysis | none of their own | projections, scoring, parsing | pages and graphs |

### Behaviours that are hard

* **Statements, not calls, are atomic.** A PostgreSQL call runs at READ
  COMMITTED: each statement sees what had committed when it began. finalize
  reads pages, takes an advisory lock, compares the base, compares the
  generation and activates, five statements with other transactions in between.
* **Prepared outside, stored inside.** A page's projection, chunks and link graph
  are computed from what was read before the transaction or the lock that stores
  them.
* **Several locks.** A finalize holds its session's row and waits for the domain's
  advisory lock; page calls take page rows and the domain's row in different
  orders; two grants may wait for each other's token. Refresh, drain and revert
  take none of them.
* **Time.** Leases expire while a call waits for its row; staging cleanup picks
  sessions that may become ready before it gets to them; retention of superseded
  snapshots; timeouts of callers that race the end of a build.
* **Calls that are lost.** A publisher cannot tell a lost request from a lost
  answer or a late effect, and asks by aborting. A push may arrive without its
  answer. A request that the bot gave up may still be served.
* **Stale authority.** A selection is checked when it is made and used by later
  requests; tokens and grants are revoked meanwhile.
* **Threads and processes.** Request threads, workers and the shutting-down owner
  share the maintenance queue; tool threads, the build thread and pollers share
  the job slot; several stdio servers share one base and one cache directory.
* **Crashes.** A process may die between any two steps of a change of several
  files, of a build, or of a conversation, and another process continues from
  there.

## Modules

`SnapshotRegister` and `SharedLog` are abstract specifications. `PgPublication` is
proved to implement `SnapshotRegister`, and the target that `PublishClient` calls is
that register; `GitSync` is proved to implement `SharedLog`.
`PgSnapshotLife` extends `PgPublication` and composes with all its actions. `MC*` modules give constants their values, and bounds in the
form of state constraints, for TLC. `*Proofs` modules hold the theorems. Operators
under *Faulty*, or named in a comment as a plausible bug, are put in the place of
a definition to see a property fail; no specification uses them.

| Module | Models | State | Actions |
|---|---|---|---|
| `SnapshotRegister` | the contract of publication | `value`, one `ticket` per session | `Open`, `Swap`, `Close` |
| `SharedLog` | the contract of the remote | `log` | whole commits are appended |
| `PgPublication` | `PostgresCodeGraphStore` begin to abort; page mutations as the graph sees them | a variable per table (`session`, `batches`, `snapshot`, `rows`, `links`, `active`, `pages`, `generation`), `lock` for the advisory lock, `call` for each transaction in flight, `clock` | one per statement group: `BeginSelect`, `BeginDrop` for each row, `BeginReadGeneration`, `BeginCommit`, `PublishBatch`, the steps of a finalize up to its activation, `Abort`; `BeginFail`, `FinalizeFail` for a lost connection |
| `PgSnapshotLife` | `refresh_wiki_links`, `_drain_superseded`, search, the operator's revert | `refresh`, `drain`, `reader`: the transaction of each actor | each statement of a refresh, of a cycle (select, check, links, table, row) and of a search; `Revert` |
| `Maintenance` | `MaintenanceRuntime` | `queue`, `scheduled`, `stopping`, and where each thread is | the steps of a submit, of a worker and of a stop |
| `PublishClient` | `publish_snapshot` and both adapters | client and target state, requests and answers in flight | the client's calls and what it makes of answers; the target's `Serve`; `Lose` |
| `BuildJobs` | `_BuildWorkerRegistry`, `BuildControl`, `_index_with_deadline`, `attach_job` | `slot`, `history`, a record per job, caller and poller | start, join, refuse; the phases of a build; a caller's wait and its end; polls; shutdown |
| `LocalGraph` | `indexer.index`, `CodeGraphRuntime` queries and recovery, the metadata and database of `store.py` | `src`, `wiki`, `db`, `meta`, the locks, a `builder` and a `query` thread per process | one per step between two effects another process can see; edits, crashes, waits that expire |
| `MutationJournal` | `execute_plan`, `recover_pending_transactions`, `_mutation_guard`, `commit_locked`, one unjournaled writer, pulls | `worktree`, `staged`, `tree`, `head`, `trailer`, `journal`; `pc` and locals of the tool under the lock | one per durable step, `Fail` and `Crash` between any two |
| `GitSync` | `ensure_fresh`, `auto_commit`, `sync`, `commit_and_push` as the page tools call them | `remote`; of each clone its branch, dirty changes, a rebase left behind, its tool | a tool's check, write, commit, pull, abort, push and retry, each of which may fail; `Crash`, `Resolve` by hand, `Calm` when outages end |
| `WikiGraph` | `graph.py` under searches and page tools | `md`, `head`, `graph`, `broken`, `lock`, threads | staging, commit, finalizing, inspecting, rebuilding, walking; edits, crashes, a store that breaks |
| `PgPages` | `PostgresStore` page calls with retries and the strict specification check | `page`, `chunks`, `generation`, `projection`, locks of page, chunk and domain rows, a call per caller | one per statement, of `index_domain` too, page after page; `DeadlockVictim`, `ConnectionLost` |
| `HostedAccess` | a request from its authentication to its response; the tools that select, create and grant; the operator's changes | tables of `postgres/auth.py`, `table` of bindings, binding `state`s, `req`uests | one per stretch between two awaits or statement of a transaction; revocation, restart, a day passing |
| `TelegramBot` | `transport.py`, `conversation.py`, `main.py` | Telegram's updates, the bot's memory, the wiki as far as it tells changes apart | fetch, each handler's calls, reply, settle, reconnect; `Exit`, `LoseSession`, `LandsLate` |

Abstractions that matter:

* **Publication.** A graph payload is one of `Payloads` and its own hash; a batch
  slot is a kind and an ordinal; rows are counted per table in cleanup batches.
  begin names session and snapshot with one fresh id. A page is a text and a page
  id; a link row per page stands for what its text selects. `history` remembers
  which texts a generation stood for, and `lapsed` which sessions were left for the
  retention; no action reads them. `CallDelay` bounds how long a call waits between
  reading its clock and getting its row. How long a call keeps its rows has no bound.
  The inserts of a begin and its commit are one step, as nobody sees the rows before.
* **Journal.** The n-th change writes n, so a file says which change wrote it; a
  domain is its page and its index file; the order in which a loop visits domains
  or files is left open. One process acts at a time because a tool holds
  `.iwiki/lock` from its guard to its answer. A plan is validated and executed
  under one lock, so its validation is not a step.
* **Publishing client.** It sends over the register of sessions, not its tables.
* **Local graph.** Discovery of sources is one step; the scan is merged with the
  lock that follows it; the handles' waits, quarantine of damaged files and
  durability are not modelled. A database recovered as ready whose metadata was
  never sealed is failed; an error in the selectors marks the graph dirty without
  the fence, and a build that changes nothing although selectors changed goes on,
  as in the code. Selectors are changed by the page tools, which hold the lock of the
  base; an editor, who holds none, changes sources and the pages of `WikiGraph` only.
* **Git.** A commit is the set of changes it brings; a history names a commit as a
  hash does, so a rebased commit is another one.
* **Link graph.** A version stands for a text, so a fingerprint identifies contents.
  A tool writes a text of its own; an editor writes any text there was, a new one or
  none, at any moment. `doubted`, which no action reads, marks a graph whose rows an
  editor's change has made others than its fingerprint stands for, unnoticed; `back`
  says of a call that this may be so of what it reads. That a store refuses to open
  because of a WAL file left behind is not modelled.
* **Pages.** Texts are told apart by the scenarios they declare. A page has one
  section, hence one chunk row, with the text and revision it was computed from; an
  update rewrites the row or, if its heading is another, replaces it. A statement
  waits for the rows it locks and then sees what has committed, but a `DELETE` that
  waited does not see a row inserted meanwhile. Link and evidence rows and search
  are left out.
* **Hosted requests.** One wiki. A lock on a token's row stands for those of its
  management grants too, which the code takes after it in one order. A bind gives
  its selection in full. `create_token` is in the initial state only, and the
  binding's age is one action, `DayPasses`. Two concurrent first requests of an
  unknown session id may overwrite a binding that is labelled `token_default`, as
  in the code.
* **Bot.** How an answer or a draft is found, the agent's loop with the inference
  service, changes nothing and is one choice: there is one or not. Updates without
  identity or text, which are skipped, are not sent. The acknowledgement of a button
  (`telegram_bot/transport.py:450`) is part of `Takes`; if it fails the process ends,
  which is `Exit`.

## Runs

Run as `tlc -workers 2 -config <cfg> <module>` in this directory. Every
configuration disables the deadlock check: an instance stops when its sessions,
jobs, changes or clock are used up, which is a bound of the instance.

| Run | Instance | What it shows |
|---|---|---|
| `PgPublicationRace` (122 005 states) | 2 sessions, owners and payloads, a deletable page of 2 texts, clock to 2, generation to 3, `OneMore` | the active snapshot is whole (`ActiveIsWhole`), its revision is that of the pages of its generation (`GenerationNamesRevision`), links said to be current are (`CurrentLinksAreDerived`); publication is a compare-and-swap register (`ImplementsRegister`); a session that was not left for the retention keeps its row and its result (`ResultKept`); every call returns (`CallsReturn`) |
| `PgSnapshotLifeRun` (315 266) | 2 sessions, refreshers and drainers, 1 reader, reverts, clock to 1, `OneMore` | the links of an active snapshot are all there (`LinksMatchRevision`), a cycle takes one batch at most from a snapshot made active again (`RevertLosesOneBatch`), what was superseded is gone in the end (`BacklogDrains`) |
| `MaintenanceRun` (157 424) | 5 keys, 2 submitters, 2 workers, a queue of 4, a stop | one job per domain (`OneJobPerKey`), whose key is released whatever happens (`KeysAreReleased`) |
| `PublishClientRemote` (16 953) | 2 clients, 2 batches each, every call may be lost or late | what a publisher reports happened (`ReportsAreTrue`) |
| `BuildJobsRun` (319 360) | 2 callers, a poller, 2 domains, a query and a forced build, 2 jobs, a history of 1, `OneMore` | an explicit build is not cut short by others (`ExplicitIsNotCutShort`), a forced build that its caller was told is over never publishes (`DoomedNeverPublishes`), callers are answered (`CallersAnswered`) |
| `MutationJournalSafe` (37 222) | 2 domains, one with an index that may fail, 2 changes, ordinary writes, 2 crashes | a change of several domains is whole or not at all (`AllOrNothing`), what crashes left is decided (`PendingIsResolved`) |
| `GitSyncClones` (29 022) | 2 clones, 2 domains, 3 writes, 2 attempts | commits stay on their branch (`CommitOnBranchStands`), what callers are told of commit and push is so (`AnswersAreTrue`), the remote grows by whole commits (`RemoteIsSharedLog`), commits reach it (`CommitsAreShared`) |
| `PgPagesRace` (557 283) | 2 callers, 2 slugs, 2 texts, 1 scenario, 2 attempts, 3 calls | an update replaces what was edited (`NoLostUpdate`), no two pages declare a scenario (`StrictDeclaresOnce`), a projection answered as ready has the rows of now and one that lags was announced, but for pages created again (`ProjectionIsHonest`), no page is without its chunk, and old ones are those of a reindexing (`ChunksAreKnown`), calls return through deadlocks (`CallsReturn`) |
| `LocalGraphShared` (250 910) | 2 processes of which one searches, 2 contents, 2 builds, 1 edit, 1 crash | a process does not disown a newer graph than it saw (`NewerIsNotDisowned`), answers have the rows of one revision whose sources and whose selectors were there during the search (`AnswersAreCurrent`), searches return (`SearchesReturn`) |
| `HostedAccessShared` (122 581) | 2 tokens, domains and sessions, 3 requests, a table of 1, 2 threads, `OneMore` | requests are served within grants (`ServedWithinGrants`), a revoked token has none (`RevokedHasNothing`), selections do not cross sessions or tokens (`SessionsAreSeparate`), requests return (`RequestsReturn`) |
| `WikiGraphShared` (889 681) | a searcher, a tool, a domain of 2 pages, 2 changes, 1 mishap, `OneMore` | a graph called ready agrees with its Markdown (`ReadyIsHonest`), an answer is of one moment (`AnswersAreOfOneMoment`), both but for editors' changes that the code does not notice, graphs are repaired (`GraphsAreRepaired`) |
| `TelegramBotRun` (261 606) | 3 users of which 2 are allowed, 4 updates, a preview, 2 mishaps, `OneOf` | a change is made once at most and as its user confirmed it (`WrittenAsConfirmed`), replies are and stay true (`RepliesAreTrue`), updates are answered (`UpdatesAreAnswered`) |

Why the bounds are enough to be interesting, and what they leave out:

* Some instances have a state constraint (`OneMore`, `OneOf`) that lets the rare
  things happen one or two at a time: the products of all of them are out of
  reach, and a failure is a meeting of few. Each constraint says what it lets
  meet. A behaviour that leaves the constraint is not followed further, so
  liveness is checked of those that stay within it.
* `PgPublicationRace`: two sessions are what a lost update and a cleanup race
  take. Lease and retention are one tick each and the clock goes to two, so a session
  can be left for the retention while its finalize holds its row, be chosen by the
  other's cleanup, which then waits for the row, be finalized, and be deleted. The
  page can be written, rewritten and deleted around a finalize.
* `PgSnapshotLifeRun`: two drainers are two servers, or a worker and a thread that
  outlived its runtime; refused and aborted publications are left to the former.
* `MaintenanceRun` has one key more than the queue and one in every hand, so a
  full queue, a drop and a resubmission meet. The queue is as large as workers and
  requests in flight together, an assumption that the module states and the code
  does not enforce: with a smaller queue a sentinel of `stop` can be refused, and a
  daemon thread is left.
* `BuildJobsRun`: a join, an expiry and a shutdown take two callers and a build; a
  history of one entry is evicted by the second build.
* `MutationJournalSafe`: two journaled changes suffice for a recovery of the second
  to endanger the first; a second crash hits the recovery of the first one.
* `GitSyncClones`: two clones race to push; a third change lets one of them be
  rebased over both; two attempts are a retry and its exhaustion (the code makes
  a fixed number of them).
* `PgPagesRace`: a text that declares a scenario and one that does not make every
  case of the strict check and of the projection; three calls let an update, a
  delete and a new page of the same name meet another caller's view or its reindexing.
  A caller reads a page for each call that names its revision. Two slugs are what a
  reindexing takes to wait for one page with the chunk of another.
* `LocalGraphShared`: two processes build twice in all while one of them searches;
  one edit, one crash.
* `HostedAccessShared`: a table of one entry makes every second session an
  eviction; a ceiling of two threads makes a third request wait for a thread while
  two wait for rows.
* `WikiGraphShared`: two pages make a walk of two reads; two changes are a page
  changed and changed back, a tool's change and an editor's, or those of two tools'
  calls; one mishap is a crash, a failed commit, or a store that breaks.
* `TelegramBotRun`: the conversations of `MCTelegramBot` are a question kept for a
  choice, a change confirmed twice, rejected and confirmed, or confirmed by
  another, and a denied user; two mishaps are, for instance, a lost session and the
  end of the process that replays the update.

### Fairness

Each fairness condition names what runs on in the code; clients that call once owe
nothing.

* `PgPublication`: the server executes every statement of a transaction it has
  begun (weak), and a waiter for a row lock is queued (strong, `BeginDrop`,
  because others take and release the row meanwhile).
* `PgSnapshotLife`: time passes, a started cycle goes on, requests schedule cycles
  again, and eventually one is not interrupted.
* `Maintenance`: threads run, a cycle ends since each of its statements has a
  timeout, someone starts a worker; nobody need stop the runtime.
* `BuildJobs`: callers and build threads run and deadlines pass; a publication
  target need never answer.
* `MutationJournal`: tools keep being called, a running tool goes on, and a graph
  store asked again and again answers at some point (strong, `RecoverForward`);
  crashes are finite.
* `GitSync`: tools run on, somebody asks for a sync again, and outages end (`Calm`).
* `PgPages`: a call runs on; waits for rows end because every transaction ends or
  is broken as a deadlock.
* `LocalGraph`, `WikiGraph`: threads run and clients go on searching; in `WikiGraph`
  these are the searching threads only, and a tool may stop anywhere. That a wait
  for a file lock times out is possible and never assumed. Mishaps are finite.
* `HostedAccess`: one strong condition per request: the event loop and threads run,
  a wait for a row has an end, and waiters for a session's lock or a thread are
  queued.
* `TelegramBot`: the bot's steps (weak): the supervisor starts the process again,
  awaits end, outages are finite.
* `PublishClient` is run for safety only.

## Proofs

Each theorem holds for every value of the constants that satisfies the named
assumption of its module (`PublicationAssumption`, `JournalAssumption`, ...), and
assumes nothing else. Every invariant was checked by TLC on its run before it was
proved. A proof module has a lemma for each action (or for each kind of action that
moves the same state), and under it a step for each conjunct that the action can
disturb; the temporal theorems combine them.

| Proof module | Theorems | Inductive invariant |
|---|---|---|
| `PgCodeGraphProofs` | publication: `TypeCorrect`, `ActiveWhole`, `GenerationsName`, `NothingLost`, `CurrentLinks`, `ResultsKept`, `Implements`; snapshot life: `LinksMatch`, `RevertLoses` | `PublicationInv`, `LinksInv`, `LapsedInv`, `LifeInv` |
| `LocalBuildsProofs` | build worker: `OneBuild`, `ExplicitKept`, `DoomedStay`; local graph: `GraphTypesHold`, `AnswersHoldSinceAsked`, `NewerStays` | `RegistryInv`, `AttemptsAreAnnounced`; `GraphInv` |
| `PublishClientProofs` | `ReportsTrue`, `ReadyTrue`, `AbortFinal`, `ReadyFollow` | `ClientInv`, `FinalizesAreAsked` |
| `MutationJournalProofs` | `ChangesAreWhole` | `JournalInv` |
| `HostedStoreProofs` | pages: `TypeCorrect`, `NoneLost`, `DeclaredOnce`, `ProjectionHonest`, `ChunksKnown`; background maintenance: `OneJob`, `NoneStranded` | `PagesInv`, `ChunksInv`; `MaintenanceInv` |
| `GitBaseProofs` | Git: `CommitsStay`, `AnswersTrue`, `RemoteIsLog`; link graph: `ReadyStaysHonest`, `AnswersHaveOneMoment` | `BaseInv`; `WikiInv` |
| `HostedAccessProofs` | `TypeCorrect`, `RevokedTokensHaveNothing`, `ServedIsGranted`, `SelectionsStayWithTheirSession` | `TypeOK`, `RowsHeld`, `RevokedHasNothing`, `AllWithinGrants`, `Separate` |
| `TelegramBotProofs` | `WritesAreConfirmed`, `RepliesStayTrue`, `NoneSkipped` | `BotInv` |

None of the properties is inductive by itself. What each argument turns on:

* **Publication.** `ActiveIsWhole` needs that a finalize in flight keeps its batches
  complete: the row lock (`CallsHoldRows`). `GenerationNamesRevision` needs that
  the view a finalize read is that of some generation since its begin and, once the
  generation was compared, of the generation of its begin (`ViewsAreHistory`): pages
  may change between the statements, but then the counter moved too.
  `NoLostPublication` needs that what was compared under the advisory lock stays so
  until the answer (`BaseStaysChecked`), because only a holder of the lock activates
  (`HoldersHold`). `CurrentLinks` needs that ids of pages are never used again and
  that the active snapshot's links are those of the pages that its generation had
  and nobody has deleted since (`LinksInv`). The refinement maps a session to an
  open ticket exactly while it is staging: a begin opens one and closes those its
  cleanup dropped (`BeginOpens`), an activation swaps (`ActivateSwaps`), an abort
  closes (`AbortCloses`), all else stutters. `ResultsKept` turns
  on the choice of a cleanup: whatever it has chosen, or deleted and not committed,
  was dead at some moment (`LapsedInv`). It says nothing of how long calls take, and
  nothing of what was dead once and is finalized all the same, which the code deletes.
* **Snapshot life.** A ready snapshot that is not active was superseded, and stays
  known as superseded (`ReadyOnesKnown`); a refresh works on what was active and a
  cycle on what was superseded (`RefreshesKnow`, `DrainsKnow`), so both are strangers
  to a snapshot that becomes active for the first time. A refresh counts the
  generation after it has read the pages, and derives the links of all it has read,
  as the foreign key drops only those of pages that are gone. A cycle that took a
  batch from what is now active must check again before it takes another
  (`LossesBounded`).
* **Maintenance.** The counts of `OneJobPerKey` are not inductive: a second job of a
  key could come from a later `submit`. The invariant says of each key that its job
  has one place (a request, the queue, a worker or the draining owner) and that the
  key is scheduled while it has one (`OnePlace`), until the runtime has stopped and
  accepts nothing (`KeysInPlace`).
* **Build worker.** A build without its terminal snapshot is the one in the slot
  (`SlotHoldsBuild`), because `finish` publishes the snapshot and frees the slot
  under one lock. A caller's build has the kind the caller asked for
  (`CallersKnowJobs`), because a join compares kinds, so the expired query that
  cancels its build cancels no explicit one (`QueriesAreCancelled`). A forced build
  announces its attempt before it passes the gate, so one that is not announced is
  not published, and one whose deadline has passed meets a closed gate
  (`AttemptsAreAnnounced`).
* **Local graph.** A query is told that a graph is ready when what is in the
  database was current since it asked (`ReadyIsCurrent`): a scan begins after its
  builder has captured the selectors and under a lock that keeps other builders
  from the database (`LocksHeld`, `ScansAreLate`), so what it puts was there since
  then (`PutIsThere`), and a query joins only builds that scan after it asked
  (`QueriesKnow`). The generations only grow, and a builder remembers the one it
  made (`GenerationsGrow`), so one that lost the lock tells its own graph from a
  newer one. Two moments are meant, one of the sources and one of the selectors:
  selectors that change and change back between their capture and the second look
  leave a graph whose sources and selectors were never there together, which the
  code cannot tell.
* **Publishing client.** What a client was told is so for ever because a session
  that left staging never returns to it: that a late begin cannot reopen it takes
  that each client asks once and that nothing else of its session is about before
  (`BeginsOnce`). Answers are about terminal states only, which the table keeps
  (`TerminalStays`). Of two that are ready neither began on the other's base, since
  what is active has been the base of nobody that was activated
  (`BasesAreReplaced`). A reported failure is true of the remote adapter because
  a client that has sent its finalize looks at the answer to whatever it still waits
  for (`FinalizesAreAsked`).
* **Journal.** Only the last change is under way (`LastIsUnderWay`), and the trailer
  of HEAD tells whether the change that the journal belongs to has landed. Of a
  journaled change that has not landed nothing is in HEAD, in a snapshot, or
  outside the paths of its plan (`UnlandedStayInside`); the snapshots hold what
  landed before (`SnapshotsStand`). So the recovery, which reads the trailer only,
  either restores everything or has everything. `ToolKnows` says for each label of
  the tool how far its plan has come.
* **Git-backed base.** A branch follows the remote up to some commit, and what comes
  after it is its clone's own and not in the remote (`BranchFits`): that commit is
  then the end of the longest common prefix (`ForkFits`), so a rebase loses no change
  and has none twice (`RebasedFits`), and a push takes no local commit from the other
  clones (`PushGrows`). What a working tree holds is its clone's own and in no commit
  (`TreeKnows`); the change of a tool is there just while it is to be committed, and
  afterwards on the branch, or adrift when HEAD was detached (`ToolKnows`), so what
  the tool answers is true. A step does one of five things to histories
  (`HistoryCases`), and all the rest follows from how they grow (`HistoriesGrow`).
* **Link graph.** Whoever changes the store's rows holds the lock of the base, from
  its first write to its answer, and so does whoever stages them (`HasLock`); so
  only editors get in between. A domain's rows are read between two looks at its
  fingerprint. Where they are not what the first look saw, the file was not either
  when they were read, so that the second look finds it changed, unless the change
  has been undone (`Rebuilding`). What a tool stages agrees with the files when it is
  put, and stays so to the end of the gap unless one is edited (`RowsStaged`). A walk
  of the graph is right as long as the domain bears the fingerprints of its beginning,
  which stand for one Markdown (`Walks`), and the last look finds that Markdown
  there. A search of the files reads them twice: one moment that was seen has all
  that was read and not yet found changed (`Reads`). Editors, and tools that
  restore the pages of a failed change, bring texts back: a page may be what it was,
  be something else and be it again between the two reads, and then the answer may
  mix two moments. `AnswersAreOfOneMoment` excepts this case (`back`) and graphs that
  are `doubted`; `ReadyIsHonest` excepts the latter. Whatever a tool or a rebuild puts
  anew, without such a change, is not doubted.
* **Pages.** A writer holds the row of its page from the comparison of the revision
  to its commit, and the revision of a page created once only grows, so the text
  that is replaced is the one that was edited. A projection is prepared before the
  transaction from a revision that it names, and has the rows of that revision;
  when it is stored for an older one the domain is announced as stale, and rows
  that are missing are of deleted pages (`RowsAreOfRevision`, `StaleIsAnnounced`).
  A page that is created again gets them back without its rows, or without an
  announcement; the exceptions of `ProjectionIsHonest` name the page, and say nothing
  of the others. What an update finds of its chunk is its own row, one that has its
  text already, or one that a reindexing has put there meanwhile (`HoldsChunk`); a
  reindexing has the row of every page it has passed, which cannot be deleted under it
  (`HoldsChunks`), and what it read is older than the page (`IndexIsOld`).
* **Hosted requests.** A transaction that has locked its rows holds them, and the
  target of a grant is alive while it does (`RowsHeld`), so no grant lands after a
  revocation has emptied the grants. What a request may do was granted while it was
  served (`AllWithinGrants`), and whatever is recorded, used or selected belongs to
  one session and token (`Separate`).
* **Telegram bot.** The offset stands behind what was answered (`OffsetStands`), and
  what a handler awaits belongs to the update it handles (`HandlersKnow`). A change
  is pending, in a handler's hand, on its way, or done, and never two of these
  (`OneClaim`); whoever holds it confirmed it (`ClaimsAreConfirmed`). A reply is
  true when it is chosen, and stays true because nothing makes a change that is
  neither pending nor in hand nor on its way (`RepliesHold`).

Only checked by TLC, on the instances above:

* liveness, which needs ENABLED, and fairness in general;
* what `BuildJobs` says of its history and its pollers: the entry that
  `_evict_locked` drops and the newest answer of a domain are chosen as least and
  greatest index, whose existence is an induction.

## Known disagreements

Where the model of the code contradicts a sentence of the repository, or what one
would expect of it. Each named property is a definition of its module that no run
lists and that TLC refutes on the instance of that module's run (with the bound
named, where another is needed).

Publication and snapshots:

* `links_stale` (`codegraph/linking.py:98`) reports links as current after a page
  was deleted, which cascades to its links, and created again with the same text:
  the revision is the same again, the links are gone. `CurrentLinksAreDerived`
  speaks of pages that were there at the snapshot's generation.
* A refresh reads pages and generation in two statements
  (`postgres/codegraph.py:581`), so a page change between them is stamped as
  described: `GenerationNamesRevision` does not hold with refreshes.
* Two refreshes: the second `DELETE` does not see the rows that the first inserted,
  and the links of both stay (`postgres/codegraph.py:595`). `LinksMatchRevision`
  says that none is missing.
* `RetentionHonoured`: candidates are chosen by the time of activation, so a long
  active snapshot is drained as soon as it is superseded
  (`postgres/codegraph.py:775`, against `docs/code-graph-publishing.md:41`).
* `NoTornRead`: a search reads the active id and the rows in different statements
  (`docs/architecture.md:203`).
* `RevertedIsNearlyWhole`: batches committed before a revert are gone, however
  many, and with two cycles a revert may lose a batch to each
  (`docs/code-graph-publishing.md:52` says at most one; after the revert it is one
  for each cycle, `RevertLosesOneBatch`).
* A cleanup deletes what it has chosen, whatever state the row has reached when it
  gets it (`postgres/codegraph.py:689`). A session that was left for the retention and
  is then finalized, by a call that had begun before, loses its row and its terminal
  result, which the design
  (`docs/superpowers/specs/2026-08-14-postgres-code-graph-distributed-indexing-design.md:259`)
  says a repeated finalize returns. The retention is a day by default and may be one
  second (`postgres/config.py:70`). `ResultKept` speaks of all other sessions.
* `FailedMeansNeverActivated`: with both answers lost, a failure is reported of a
  publication that happened (`docs/code-graph-publishing.md:219`).
  `AnsweredFailureIsTrue` with `Direct = TRUE`: the direct publisher ignores what
  its abort answered.

Builds:

* An incremental build that finds nothing changed is ready without passing the gate
  that looks at its deadline, and then publishes, after its caller was told busy and
  given no handle. `DoomedNeverPublishes` speaks of forced builds.
* `UnknownIsUnknown`, `WarningMatchesJob`, with a poller beside one build:
  `attach_job` reads history and slot, and a job's end, in several steps.
* `export_snapshot` (`codegraph/runtime.py:1291`) reads what it exports in several
  steps; it is not modelled.

Git and the journal:

* `RolledBackIsTrue`: a `git commit` that lands and then times out is completed by
  the recovery, and the caller is told `rolled_back: true`.
* A crash while a journal directory is made or removed leaves it without its
  manifest or its snapshots, and every guarded tool answers
  `manual_recovery_required` although nothing, or everything, had been done
  (`PendingIsResolved` excepts exactly this; `docs/tools-reference.md:55` speaks of
  restoring and finalizing). A crash between staging and commit leaves Git's index
  staged, and later plans of the domain are refused until an ordinary write stages
  it again.
* `LocalCommitStands` of `GitSync`: a commit made while a failed rebase was left
  behind is not on the branch (`docs/wiki-model.md:92`, `sync.py:467`). A failed
  commit leaves a dirty tree, and pulls of all domains are refused until it is
  committed.
* `WikiGraph`: the last step of a mutation takes the Markdown of its moment for what
  it staged (`indexer.py:249-292`), so an edit in that gap is called ready without
  being in the graph. A rebuild takes the fingerprint, then reads the files, then
  takes the fingerprint again (`graph.py:632-640`, `engine/graph_store.py:344-349`):
  an edit that was read and is undone before the second look leaves a ready graph
  with the rows of another text. Both stay until the domain changes again
  (`docs/wiki-model.md:40` counts on the fingerprint to tell).
  The model's editors do both; `doubted` marks these graphs, and `ReadyIsHonest` and
  `AnswersAreOfOneMoment` hold of all others.

Hosted server and bot:

* `StaleRevisionIsRefused` of `PgPages`: a page deleted and created again has
  revision 1 again, and a stale update is accepted (`resources.py:67-69`).
  `NoLostUpdate` speaks of pages created once.
* A specification page that is deleted and created again with its old text has
  revision 1 again, which an older projection may name: `specification_status`
  answers ready, although the rows of the page went with it, and if the projection of the new page
  failed, nothing more is announced (`postgres/store.py:1256-1260`).
  `ProjectionIsHonest` excepts these pages, and only these.
* Two `index_domain` calls, or one and an update that changes headings, may insert
  the same chunk ordinal of a page: the later one fails on the unique key
  (`postgres/migrations.py:848-866`), and all of its transaction with it. An
  `index_domain` may also put the chunks of an older text over those of an update,
  and they stay until the page is written or indexed again (`postgres/store.py:2214`).
  `ChunksAreKnown` says that no page is left without chunks and whose they are.
* `ReleasedStaysReleased` of `HostedAccess`: a request that is being served stores
  its binding when it responds, after the session was released
  (`docs/storage-modes.md:98-99`).
* `DeferredIsAnswered` of `TelegramBot`: the choice of a domain takes the kept
  question away before it is answered, and a session lost in between loses it
  (`docs/telegram-bot.md:166`).
* A permanent error of Telegram in answering one update ends the process, which
  meets the update again after every restart, so that nobody is answered. A
  confirmation replayed after a lost session is answered "Confirmation is invalid."
  although the change may have been made. An update reads the section's revision
  again at its confirmation, so a change between preview and confirmation is
  overwritten. `UpdatesAreAnswered` assumes that errors of Telegram pass.

## Not modelled, and the plan

Every safety property that a run checks is proved. No module has a recursive
operator, so what is added to one can be proved about as well.

Not modelled:

* **The idle exit** of the stdio process (`engine/idle.py`) against detached builds:
  the next part to model.
* **Import and export** of pages between the backends, and `export_snapshot`: one
  transaction, or a sequence of reads, over what is modelled here.
* **Row-level security and the migration runner**: the database's own guards of
  single rows, and a linear script run once by an operator.
* **Quarantine of damaged files, identity of staging files and durability** in
  `codegraph/store.py`: they are about what a file system may do, which the sources
  state in comments only.
* **The context query and `build_rows`**: reads that compose an answer.
* **Retrieval, ranking, page text, source analysis**: functions of one snapshot of
  data, without a state of their own. HTTP, JSON and MCP framing are input and
  output.
