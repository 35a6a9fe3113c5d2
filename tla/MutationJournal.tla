--------------------------- MODULE MutationJournal ---------------------------
(***************************************************************************)
(* Multi-domain mutations of a Git-backed base under a durable journal     *)
(* (src/iwiki_mcp/cross_domain.py), among the tools that guard themselves  *)
(* with its recovery (server.py, _mutation_guard) and commit without one.  *)
(*                                                                         *)
(* A tool holds the base's file lock from its guard to its answer, so one  *)
(* process acts at a time; it may die between any two steps, and the next  *)
(* tool, of whatever process, meets what it left.  The n-th change writes  *)
(* n: a file's content names the change that wrote it.                     *)
(***************************************************************************)
EXTENDS Naturals, FiniteSets

CONSTANTS
    Domains,
    SoftDomains,  \* domains whose edit may fail without failing the plan
    MaxWrites,    \* bound: changes begun
    MaxCrashes    \* bound: processes that die

ASSUME JournalAssumption ==
    SoftDomains \subseteq Domains /\ {MaxWrites, MaxCrashes} \subseteq Nat

VARIABLES
    worktree,  \* file -> content
    staged,    \* Git's index: file -> content
    tree,      \* HEAD's tree: file -> content
    head,      \* HEAD, as the number of commits
    trailer,   \* Iwiki-Transaction of HEAD's message, 0 if it has none
    journal,   \* the directory under .iwiki/transactions
    pc,        \* where the tool that holds the lock is
    tx,        \* the change it makes, 0 for a guard's recovery
    todo,      \* domains its loop has left
    undo,      \* its recovery follows a failure of its own plan
    plan,      \* change -> domains of a journaled one, {} of another
    begun,     \* changes begun
    landed,    \* changes that were committed
    told,      \* change -> what its caller was told
    crashes

git == <<staged, tree, head, trailer>>
past == <<plan, begun, landed>>
vars == <<worktree, git, journal, pc, tx, todo, undo, past, told, crashes>>

Writes == 1..MaxWrites
Contents == 0..MaxWrites
Files == Domains \X {"page", "index"}
FilesOf(D) == D \X {"page", "index"}
Page(d) == <<d, "page">>
Index(d) == <<d, "index">>

NoJournal == [state |-> "none", tx |-> 0, base |-> 0, commit |-> 0,
              kept |-> TRUE, saved |-> [f \in Files |-> 0]]

\* Overwrite the files in F with what g holds.
Copied(h, F, g) == [f \in Files |-> IF f \in F THEN g[f] ELSE h[f]]

Init ==
    /\ worktree = [f \in Files |-> 0]
    /\ staged = worktree /\ tree = worktree
    /\ head = 0 /\ trailer = 0
    /\ journal = NoJournal
    /\ pc = "idle" /\ tx = 0 /\ todo = {} /\ undo = FALSE
    /\ plan = [n \in Writes |-> {}]
    /\ begun = 0 /\ landed = {}
    /\ told = [n \in Writes |-> "nothing"]
    /\ crashes = 0

Quiet == pc = "idle" /\ journal.state = "none"

Goto(label) == pc' = label /\ UNCHANGED <<tx, todo, undo>>

\* Faulty: the answer is the manifest's state.
TellState(answer) ==
    /\ told' = IF tx = 0 THEN told ELSE [told EXCEPT ![tx] = journal.state]
    /\ pc' = "idle" /\ tx' = 0 /\ todo' = {} /\ undo' = FALSE

\* The tool answers and releases the lock.
Tell(answer) ==
    /\ told' = IF tx = 0 THEN told ELSE [told EXCEPT ![tx] = answer]
    /\ pc' = "idle" /\ tx' = 0 /\ todo' = {} /\ undo' = FALSE

NextChange(D) ==
    /\ begun < MaxWrites
    /\ begun' = begun + 1
    /\ tx' = begun + 1
    /\ plan' = [plan EXCEPT ![begun + 1] = D]

-----------------------------------------------------------------------------
(* execute_plan *)

\* Nothing may be staged, and only the pages the caller edits may be dirty.
Acceptable(D) ==
    /\ \A f \in FilesOf(D) : staged[f] = tree[f]
    /\ \A d \in D : worktree[Index(d)] = staged[Index(d)]
    /\ \A d \in D \cap SoftDomains : worktree[Page(d)] = staged[Page(d)]

Begin(D) ==
    /\ Quiet
    /\ Acceptable(D)
    /\ NextChange(D)
    /\ pc' = "opening" /\ undo' = FALSE /\ todo' = {}
    /\ UNCHANGED <<worktree, git, journal, landed, told, crashes>>

Refuse(D) ==
    /\ Quiet
    /\ ~Acceptable(D)
    /\ begun < MaxWrites
    /\ begun' = begun + 1
    /\ plan' = [plan EXCEPT ![begun + 1] = D]
    /\ told' = [told EXCEPT ![begun + 1] = "rolled_back"]
    /\ UNCHANGED <<worktree, git, journal, pc, tx, todo, undo, landed, crashes>>

\* create_transaction: the directory and the snapshots come first ...
OpenJournal ==
    /\ pc = "opening"
    /\ journal' = [state |-> "torn", tx |-> tx, base |-> head, commit |-> 0,
                   kept |-> TRUE, saved |-> worktree]
    /\ Goto("snapshots")
    /\ UNCHANGED <<worktree, git, past, told, crashes>>

\* ... and the manifest last.
WriteManifest ==
    /\ pc = "snapshots"
    /\ journal' = [journal EXCEPT !.state = "prepared"]
    /\ pc' = "applying" /\ todo' = plan[tx]
    /\ UNCHANGED <<worktree, git, tx, undo, past, told, crashes>>

ApplyEdit(d) ==
    /\ pc = "applying" /\ d \in todo
    /\ worktree' = [worktree EXCEPT ![Page(d)] = tx]
    /\ todo' = todo \ {d}
    /\ UNCHANGED <<git, journal, pc, tx, undo, past, told, crashes>>

\* A projection edit that fails is put back from its snapshot.
EditFailsSoft(d) ==
    /\ pc = "applying" /\ d \in todo \cap SoftDomains
    /\ worktree' = [worktree EXCEPT ![Page(d)] = journal.saved[Page(d)]]
    /\ todo' = todo \ {d}
    /\ UNCHANGED <<git, journal, pc, tx, undo, past, told, crashes>>

Applied ==
    /\ pc = "applying" /\ todo = {}
    /\ journal' = [journal EXCEPT !.state = "applied"]
    /\ pc' = "indexing" /\ todo' = plan[tx]
    /\ UNCHANGED <<worktree, git, tx, undo, past, told, crashes>>

\* index_domain derives the index from the page.
Reindex(d) ==
    /\ pc = "indexing" /\ d \in todo
    /\ worktree' = [worktree EXCEPT ![Index(d)] = worktree[Page(d)]]
    /\ todo' = todo \ {d}
    /\ UNCHANGED <<git, journal, pc, tx, undo, past, told, crashes>>

\* Faulty: the derived index is left to the next ordinary commit.
PagesOnly(n) == plan[n] \X {"page"}

\* _affected_files
Paths(n) == FilesOf(plan[n])

GitAdd ==
    /\ pc = "indexing" /\ todo = {}
    /\ staged' = Copied(staged, Paths(tx), worktree)
    /\ Goto("committing")
    /\ UNCHANGED <<worktree, tree, head, trailer, journal, past, told, crashes>>

\* The commit may land and its command still time out: commit_locked then
\* answers that nothing was committed.
GitCommit ==
    /\ pc = "committing"
    /\ \E f \in Paths(tx) : worktree[f] # tree[f]
    /\ tree' = Copied(tree, Paths(tx), worktree)
    /\ staged' = Copied(staged, Paths(tx), worktree)
    /\ head' = head + 1 /\ trailer' = tx
    /\ landed' = landed \cup {tx}
    /\ \/ Goto("recording")
       \/ pc' = "recovering" /\ undo' = TRUE /\ UNCHANGED <<tx, todo>>
    /\ UNCHANGED <<worktree, journal, plan, begun, told, crashes>>

\* Every edit failed softly.
NothingToCommit ==
    /\ pc = "committing"
    /\ \A f \in Paths(tx) : worktree[f] = tree[f]
    /\ pc' = "recovering" /\ undo' = TRUE
    /\ UNCHANGED <<worktree, git, journal, tx, todo, past, told, crashes>>

Record ==
    /\ pc = "recording"
    /\ journal' = [journal EXCEPT !.state = "committed", !.commit = head]
    /\ Goto("finalizing")
    /\ UNCHANGED <<worktree, git, past, told, crashes>>

Finalize ==
    /\ pc = "finalizing"
    /\ journal' = [journal EXCEPT !.state = "finalized"]
    /\ Goto("removing")
    /\ UNCHANGED <<worktree, git, past, told, crashes>>

\* A failed open removes its directory if it can.
Fail ==
    /\ pc \in {"opening", "snapshots", "applying", "indexing", "committing"}
    /\ journal' \in {journal} \cup (IF pc = "snapshots" THEN {NoJournal} ELSE {})
    /\ pc' = "recovering" /\ undo' = TRUE
    /\ UNCHANGED <<worktree, git, tx, todo, past, told, crashes>>

\* After the commit nothing is undone.
FailLate ==
    /\ pc \in {"recording", "finalizing", "clearing"} /\ ~undo
    /\ Tell("manual")
    /\ UNCHANGED <<worktree, git, journal, past, crashes>>

-----------------------------------------------------------------------------
(* recover_pending_transactions, for a guard and for a failed plan *)

Enter ==
    /\ pc = "idle" /\ journal.state # "none"
    /\ pc' = "recovering" /\ undo' = FALSE
    /\ UNCHANGED <<worktree, git, journal, tx, todo, past, told, crashes>>

\* Faulty: only the manifest is believed.
ManifestSays == journal.state = "committed"

\* The manifest, or the trailer of HEAD's message.
Landed == journal.state = "committed" \/ trailer = journal.tx

\* What recovery cannot decide, and stops at.
Ambiguous ==
    \/ journal.state = "torn"
    \/ journal.state = "committed" /\ journal.commit # head /\ trailer # journal.tx
    \/ /\ journal.state \in {"prepared", "applied"} /\ ~Landed
       /\ journal.base # head \/ ~journal.kept

RecoverNothing ==
    /\ pc = "recovering" /\ journal.state = "none"
    /\ Goto("resetting")
    /\ UNCHANGED <<worktree, git, journal, past, told, crashes>>

RecoverRemoval ==
    /\ pc = "recovering" /\ journal.state = "finalized"
    /\ Goto("removing")
    /\ UNCHANGED <<worktree, git, journal, past, told, crashes>>

Pending == journal.state \in {"prepared", "applied", "committed"}

\* The graph is marked dirty, and the manifest catches up with HEAD.
RecoverForward ==
    /\ pc = "recovering" /\ Pending /\ ~Ambiguous /\ Landed
    /\ IF journal.state = "committed"
       THEN journal' = [journal EXCEPT !.state = "finalized"] /\ Goto("removing")
       ELSE /\ journal' = [journal EXCEPT !.state = "committed", !.commit = head]
            /\ Goto("recovering")
    /\ UNCHANGED <<worktree, git, past, told, crashes>>

RestoreFile(f) ==
    /\ pc = "recovering" /\ Pending /\ ~Ambiguous /\ ~Landed
    /\ f \in Paths(journal.tx) /\ worktree[f] # journal.saved[f]
    /\ worktree' = [worktree EXCEPT ![f] = journal.saved[f]]
    /\ UNCHANGED <<git, journal, pc, tx, todo, undo, past, told, crashes>>

\* Faulty: the derived index is not looked at.
PagesAsSaved == \A d \in plan[journal.tx] : worktree[Page(d)] = journal.saved[Page(d)]

AsSaved == \A f \in Paths(journal.tx) : worktree[f] = journal.saved[f]

Restored ==
    /\ pc = "recovering" /\ Pending /\ ~Ambiguous /\ ~Landed
    /\ AsSaved
    /\ Goto("removing")
    /\ UNCHANGED <<worktree, git, journal, past, told, crashes>>

\* manual_recovery_required; the graph store of a landed change may refuse too.
RecoverStops ==
    /\ pc = "recovering" /\ journal.state # "none"
    /\ Ambiguous \/ (Pending /\ Landed)
    /\ Tell("manual")
    /\ UNCHANGED <<worktree, git, journal, past, crashes>>

\* rmtree removes the manifest or the snapshots first ...
RemoveSome ==
    /\ pc = "removing"
    /\ \/ journal' = [journal EXCEPT !.state = "torn"]
       \/ journal' = [journal EXCEPT !.kept = FALSE]
    /\ Goto("clearing")
    /\ UNCHANGED <<worktree, git, past, told, crashes>>

\* ... and then the rest.
RemoveRest ==
    /\ pc = "clearing"
    /\ journal' = NoJournal
    /\ IF undo THEN Goto("resetting") /\ UNCHANGED told ELSE Tell("committed")
    /\ UNCHANGED <<worktree, git, past, crashes>>

\* git reset -q HEAD -- paths
Unstaged == Copied(staged, Paths(tx), tree)

Reset ==
    /\ pc = "resetting"
    /\ staged' = Unstaged
    /\ Tell("rolled_back")
    /\ UNCHANGED <<worktree, tree, head, trailer, journal, past, crashes>>

ResetFails ==
    /\ pc = "resetting"
    /\ Tell("manual")
    /\ UNCHANGED <<worktree, git, journal, past, crashes>>

-----------------------------------------------------------------------------
(* A guarded tool without a journal: wiki_write_page, of a new page *)

WritePage(d) ==
    /\ Quiet
    /\ worktree[Page(d)] = 0
    /\ NextChange({})
    /\ worktree' = [worktree EXCEPT ![Page(d)] = begun + 1]
    /\ pc' = "writing" /\ todo' = {d} /\ undo' = FALSE
    /\ UNCHANGED <<git, journal, landed, told, crashes>>

WriteIndex ==
    /\ pc = "writing"
    /\ worktree' = [f \in Files |-> IF f[1] \in todo THEN tx ELSE worktree[f]]
    /\ Goto("written")
    /\ UNCHANGED <<git, journal, past, told, crashes>>

\* The page is removed again, if that succeeds.
WriteFails ==
    /\ pc = "writing"
    /\ worktree' \in {worktree, [f \in Files |->
                          IF f \in todo \X {"page"} THEN 0 ELSE worktree[f]]}
    /\ Tell("nothing")
    /\ UNCHANGED <<git, journal, past, crashes>>

\* commit_and_push stages and commits the whole domain.
WriteCommit ==
    /\ pc = "written"
    /\ tree' = Copied(tree, FilesOf(todo), worktree)
    /\ staged' = Copied(staged, FilesOf(todo), worktree)
    /\ head' = head + 1 /\ trailer' = 0
    /\ landed' = landed \cup {tx}
    /\ Tell("committed")
    /\ UNCHANGED <<worktree, journal, plan, begun, crashes>>

\* A commit that fails is a warning: the files stay, staged or not.
CommitFails ==
    /\ pc = "written"
    /\ staged' \in {staged, Copied(staged, FilesOf(todo), worktree)}
    /\ Tell("nothing")
    /\ UNCHANGED <<worktree, tree, head, trailer, journal, past, crashes>>

\* ensure_fresh or pull --rebase brings a change of another clone; Git refuses
\* over local changes.
Pull(d) ==
    /\ Quiet
    /\ worktree = tree /\ staged = tree
    /\ begun < MaxWrites
    /\ begun' = begun + 1
    /\ tree' = [f \in Files |-> IF f \in FilesOf({d}) THEN begun + 1 ELSE tree[f]]
    /\ worktree' = tree' /\ staged' = tree'
    /\ head' = head + 1 /\ trailer' = 0
    /\ landed' = landed \cup {begun + 1}
    /\ UNCHANGED <<journal, pc, tx, todo, undo, plan, told, crashes>>

-----------------------------------------------------------------------------

\* The process dies: the operating system releases its file lock.
Crash ==
    /\ pc # "idle"
    /\ crashes < MaxCrashes
    /\ crashes' = crashes + 1
    /\ pc' = "idle" /\ tx' = 0 /\ todo' = {} /\ undo' = FALSE
    /\ UNCHANGED <<worktree, git, journal, past, told>>

PlanStep ==
    \/ OpenJournal \/ WriteManifest
    \/ \E d \in Domains : ApplyEdit(d) \/ EditFailsSoft(d) \/ Reindex(d)
    \/ Applied \/ GitAdd \/ GitCommit \/ NothingToCommit
    \/ Record \/ Finalize

RecoveryStep ==
    \/ RecoverNothing \/ RecoverRemoval
    \/ \E f \in Files : RestoreFile(f)
    \/ Restored \/ RemoveSome \/ RemoveRest \/ Reset

Next ==
    \/ \E D \in (SUBSET Domains) \ {{}} : Begin(D) \/ Refuse(D)
    \/ PlanStep \/ Fail \/ FailLate
    \/ Enter \/ RecoveryStep \/ RecoverForward \/ RecoverStops \/ ResetFails
    \/ \E d \in Domains : WritePage(d) \/ Pull(d)
    \/ WriteIndex \/ WriteFails \/ WriteCommit \/ CommitFails
    \/ Crash

Spec == Init /\ [][Next]_vars

\* Tools keep being called, a tool that runs goes on, and a graph store that is
\* asked again and again is able to answer at some point.
FairSpec ==
    /\ Spec
    /\ WF_vars(Enter)
    /\ WF_vars(PlanStep \/ RecoveryStep \/ WriteIndex \/ WriteCommit)
    /\ SF_vars(RecoverForward)

-----------------------------------------------------------------------------
(* Properties *)

Labels == {"idle", "opening", "snapshots", "applying", "indexing", "committing",
           "recording", "finalizing", "recovering", "removing", "clearing",
           "resetting", "writing", "written"}

JournalRecords ==
    [state : {"none", "torn", "prepared", "applied", "committed", "finalized"},
     tx : Contents, base : Nat, commit : Nat, kept : BOOLEAN, saved : [Files -> Contents]]

\* Every variable stays in its type.
TypeOK ==
    /\ worktree \in [Files -> Contents] /\ staged \in [Files -> Contents]
    /\ tree \in [Files -> Contents]
    /\ head \in Nat /\ trailer \in Contents
    /\ journal \in JournalRecords
    /\ pc \in Labels /\ tx \in Contents
    /\ todo \subseteq Domains /\ undo \in BOOLEAN
    /\ plan \in [Writes -> SUBSET Domains]
    /\ begun \in Contents /\ landed \subseteq Writes
    /\ told \in [Writes -> {"nothing", "committed", "rolled_back", "manual"}]
    /\ crashes \in 0..MaxCrashes

\* Files in which journaled change n left its content.
Traces(g, n) == {f \in Files : g[f] = n}

\* A journaled change that landed is there whole, in HEAD and on disk, under
\* later changes only: no recovery of any journal takes part of it back.
LandedStays ==
    \A n \in landed : \A f \in FilesOf(plan[n] \ SoftDomains) :
        tree[f] >= n /\ worktree[f] >= n

\* Once no journal is pending, a journaled change that did not land has left
\* nothing on disk, wherever its process died.
NothingHalfDone ==
    Quiet => \A n \in Writes \ landed :
        plan[n] # {} => Traces(worktree, n) = {}

\* A caller told rolled_back, of a change that indeed did not land, finds
\* nothing of it on disk or in Git's index.
RollbackIsClean ==
    \A n \in Writes \ landed : told[n] = "rolled_back" =>
        Traces(worktree, n) \cup Traces(staged, n) = {}

\* A change of several domains is all or nothing, across crashes, half-failed
\* steps and recoveries of other journals; and whoever is told that it was
\* rolled back, when it was, finds nothing of it.
AllOrNothing == LandedStays /\ NothingHalfDone /\ RollbackIsClean

\* "pre-commit failure recovered" (docs/superpowers/specs/
\* 2026-08-04-cross-domain-link-rewrite-design.md): a caller told rolled_back
\* will not find its change committed.
RolledBackIsTrue == \A n \in landed : told[n] # "rolled_back"

\* A directory that a process died making or removing.
HalfDirectory == journal.state = "torn" \/ ~journal.kept

\* A pending journal is resolved in the end, unless its directory is halved.
PendingIsResolved == Pending ~> journal.state = "none" \/ HalfDirectory

-----------------------------------------------------------------------------
(* Why changes are all or nothing: the parts of the invariant *)

HasJournal == journal.state # "none"

\* Changes are numbered as they begin, and only the last one is under way; a
\* journal is its journal, and HEAD's trailer tells whether it landed.
LastIsUnderWay ==
    /\ \A f \in Files : /\ worktree[f] <= begun /\ staged[f] <= begun
                       /\ tree[f] <= begun /\ journal.saved[f] <= begun
    /\ landed \subseteq 1..begun
    /\ \A n \in Writes : /\ n > begun => plan[n] = {} /\ told[n] = "nothing"
                         /\ told[n] = "rolled_back" => plan[n] # {}
    /\ tx # 0 => tx = begun /\ told[tx] = "nothing"
    /\ trailer # 0 => trailer \in landed
    /\ HasJournal =>
          /\ journal.tx = begun /\ begun # 0 /\ plan[begun] # {}
          /\ told[begun] # "rolled_back"
          /\ begun \in landed => trailer = begun
    /\ journal.state \in {"committed", "finalized"} => begun \in landed

\* Of a journaled change that did not land there is nothing in HEAD or in the
\* snapshots, and nothing outside its paths; on disk only while its journal is
\* there, and in Git's index until its caller is told of its end.
Inside(n, f) ==
    /\ tree[f] # n /\ journal.saved[f] # n
    /\ f \in Paths(n) \/ (worktree[f] # n /\ staged[f] # n)
    /\ (HasJournal /\ journal.tx = n) \/ worktree[f] # n
    /\ told[n] = "rolled_back" => staged[f] # n

UnlandedStayInside ==
    \A n \in Writes \ landed : plan[n] # {} => \A f \in Files : Inside(n, f)

\* The snapshots have what landed before, as the disk has.
SnapshotsStand ==
    HasJournal => \A n \in landed \ {journal.tx} :
        \A f \in FilesOf(plan[n] \ SoftDomains) : journal.saved[f] >= n

InPlan == tx # 0 /\ plan[tx] # {}
Opened(state) == InPlan /\ journal.state = state /\ journal.tx = tx

\* The hard domains among D have what the change under way writes.
PagesWritten(D) == \A d \in D \ SoftDomains : worktree[Page(d)] = tx
IndexesWritten(D) == \A d \in D \ SoftDomains : worktree[Index(d)] = tx

\* What the tool knows where it is.
ToolKnows ==
    /\ undo => InPlan
    /\ pc = "idle" => tx = 0
    /\ pc = "opening" => InPlan /\ ~HasJournal /\ tx \notin landed
    /\ pc = "snapshots" => Opened("torn") /\ tx \notin landed /\ \A f \in Files : worktree[f] # tx
    /\ pc = "applying" =>
          /\ Opened("prepared") /\ tx \notin landed
          /\ todo \subseteq plan[tx] /\ PagesWritten(plan[tx] \ todo)
    /\ pc = "indexing" =>
          /\ Opened("applied") /\ tx \notin landed
          /\ todo \subseteq plan[tx] /\ PagesWritten(plan[tx])
          /\ IndexesWritten(plan[tx] \ todo)
    /\ pc = "committing" =>
          /\ Opened("applied") /\ tx \notin landed
          /\ PagesWritten(plan[tx]) /\ IndexesWritten(plan[tx])
    /\ pc = "recording" => Opened("applied") /\ tx \in landed
    /\ pc = "finalizing" => Opened("committed")
    /\ pc = "recovering" => tx # 0 \/ HasJournal
    /\ pc = "recovering" /\ tx # 0 => InPlan
    /\ pc \in {"removing", "clearing"} =>
          HasJournal /\ (journal.tx \notin landed => AsSaved)
    /\ pc = "resetting" => InPlan /\ ~HasJournal
    /\ pc \in {"writing", "written"} => tx # 0 /\ plan[tx] = {} /\ ~HasJournal
    /\ pc = "writing" => \A n \in landed : todo \cap (plan[n] \ SoftDomains) = {}

JournalInv ==
    TypeOK /\ LastIsUnderWay /\ UnlandedStayInside /\ LandedStays /\ SnapshotsStand
        /\ ToolKnows
=============================================================================
