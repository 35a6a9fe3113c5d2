------------------------------- MODULE GitSync -------------------------------
(***************************************************************************)
(* The Git-backed base between clones and their remote                     *)
(* (src/iwiki_mcp/sync.py: ensure_fresh, auto_commit, sync, commit_and_push*)
(* as the page tools of server.py call them).                              *)
(*                                                                         *)
(* A tool holds its clone's file lock from its guard to its answer, so     *)
(* each clone makes one step of one tool at a time, beside the other       *)
(* clones.  A commit is the set of changes it brings; a history names a    *)
(* commit, as a hash does, so a rebased commit is another commit.          *)
(***************************************************************************)
EXTENDS Naturals, Sequences, SequencesExt

CONSTANTS
    Clones,
    Domains,
    MaxWrites,  \* bound: changes begun
    Attempts    \* push_retries, at most 3

ASSUME SyncAssumption == MaxWrites \in Nat \ {0, 1} /\ Attempts \in 1..3

VARIABLES
    remote,    \* the remote branch
    branch,    \* each clone's branch
    dirty,     \* changes in the working tree, tracked and not committed
    stuck,     \* a rebase was left behind, HEAD is detached
    detached,  \* HEAD then
    pc, job, attempt,  \* the clone's tool; job 0 is wiki_sync
    begun, author, place,  \* the changes, and whose and where they are
    told,      \* what the caller of each change was told
    adrift,    \* changes committed while HEAD was detached
    calm       \* the connection holds and no command is killed any more

repository == <<branch, dirty, stuck, detached>>
tool == <<pc, job, attempt>>
changes == <<begun, author, place>>
vars == <<remote, repository, tool, changes, told, adrift, calm>>

Changes == 1..MaxWrites
ChangesOf(s) == UNION Range(s)

\* Two clones have written: one has pushed, the other is behind and ahead.
Init ==
    /\ remote = <<{1}>>
    /\ begun = 2
    /\ \E first, second \in Clones : \E d \in Domains :
          /\ first = CHOOSE c \in Clones : TRUE
          /\ second # first
          /\ author = [n \in Changes |-> IF n = 2 THEN second ELSE first]
          /\ place = [n \in Changes |-> IF n = 2 THEN d ELSE CHOOSE e \in Domains : TRUE]
    /\ branch = [c \in Clones |-> IF c = author[2] THEN <<{2}>> ELSE remote]
    /\ told = [n \in Changes |-> IF n = 1 THEN "pushed"
                                ELSE IF n = 2 THEN "committed" ELSE "nothing"]
    /\ dirty = [c \in Clones |-> {}]
    /\ stuck = [c \in Clones |-> FALSE]
    /\ detached = [c \in Clones |-> <<>>]
    /\ pc = [c \in Clones |-> "idle"]
    /\ job = [c \in Clones |-> 0] /\ attempt = job
    /\ adrift = {}
    /\ calm = FALSE

Goto(c, label) == pc' = [pc EXCEPT ![c] = label] /\ UNCHANGED <<job, attempt>>

\* The tool answers and releases the lock.
Tell(c, answer) ==
    /\ told' = IF job[c] = 0 THEN told ELSE [told EXCEPT ![job[c]] = answer]
    /\ pc' = [pc EXCEPT ![c] = "idle"]
    /\ job' = [job EXCEPT ![c] = 0]
    /\ attempt' = [attempt EXCEPT ![c] = 0]

Behind(c, upstream) == ~IsPrefix(upstream, branch[c])
Ahead(c, upstream) == ~IsPrefix(branch[c], upstream)

\* The local commits, and those of the remote that the branch does not have.
Fork(c) == LongestCommonPrefix({branch[c], remote})
Local(c) == SubSeq(branch[c], Len(Fork(c)) + 1, Len(branch[c]))
Foreign(c) == SubSeq(remote, Len(Fork(c)) + 1, Len(remote))

\* Two commits of one domain both append to its log and rewrite its index.
MayConflict(c) ==
    \E m \in ChangesOf(Local(c)), n \in ChangesOf(Foreign(c)) : place[m] = place[n]

-----------------------------------------------------------------------------
(* A page tool: ensure_fresh, the edit, auto_commit *)

StartWrite(c, d) ==
    /\ pc[c] = "idle"
    /\ begun < MaxWrites
    /\ begun' = begun + 1
    /\ author' = [author EXCEPT ![begun + 1] = c]
    /\ place' = [place EXCEPT ![begun + 1] = d]
    /\ job' = [job EXCEPT ![c] = begun + 1]
    /\ pc' = [pc EXCEPT ![c] = "checking"]
    /\ UNCHANGED <<remote, repository, attempt, told, adrift, calm>>

\* With HEAD detached there is no upstream to compare with.
Diverged(c) == ~stuck[c] /\ Behind(c, remote) /\ Ahead(c, remote)

RefuseDiverged(c) ==
    /\ pc[c] = "checking"
    /\ Diverged(c)
    /\ Tell(c, "refused")
    /\ UNCHANGED <<remote, branch, dirty, stuck, detached, changes, adrift, calm>>

CanFastForward(c) ==
    ~stuck[c] /\ Behind(c, remote) /\ ~Ahead(c, remote) /\ dirty[c] = {}

FastForward(c) ==
    /\ pc[c] = "checking"
    /\ CanFastForward(c)
    /\ branch' = [branch EXCEPT ![c] = remote]
    /\ Goto(c, "writing")
    /\ UNCHANGED <<remote, dirty, stuck, detached, changes, told, adrift, calm>>

\* Nothing to fast-forward, local changes, or no connection: the tool goes on.
GoOn(c) ==
    /\ pc[c] = "checking"
    /\ Goto(c, "writing")
    /\ UNCHANGED <<remote, repository, changes, told, adrift, calm>>

WritePage(c) ==
    /\ pc[c] = "writing"
    /\ dirty' = [dirty EXCEPT ![c] = @ \cup {job[c]}]
    /\ Goto(c, "committing")
    /\ UNCHANGED <<remote, branch, stuck, detached, changes, told, adrift, calm>>

\* The tool refuses what it was given, or finds nothing to change.
RejectInput(c) ==
    /\ pc[c] = "writing"
    /\ Tell(c, "refused")
    /\ UNCHANGED <<remote, repository, changes, adrift, calm>>

\* Indexing fails: the page and the log are put back.
WriteFails(c) ==
    /\ pc[c] = "writing"
    /\ Tell(c, "failed")
    /\ UNCHANGED <<remote, repository, changes, adrift, calm>>

\* The pathspec is the domain: what an earlier tool left there goes along.
Staged(c) == {n \in dirty[c] : place[n] = place[job[c]]}

CommitLands(c) ==
    /\ dirty' = [dirty EXCEPT ![c] = @ \ Staged(c)]
    /\ IF stuck[c]
       THEN /\ detached' = [detached EXCEPT ![c] = Append(@, Staged(c))]
            /\ adrift' = adrift \cup Staged(c)
            /\ UNCHANGED branch
       ELSE /\ branch' = [branch EXCEPT ![c] = Append(@, Staged(c))]
            /\ UNCHANGED <<detached, adrift>>
    /\ UNCHANGED <<remote, stuck, changes, calm>>

Commit(c) ==
    /\ pc[c] = "committing"
    /\ CommitLands(c)
    /\ pc' = [pc EXCEPT ![c] = "pulling"]
    /\ attempt' = [attempt EXCEPT ![c] = 1]
    /\ UNCHANGED <<job, told>>

\* Faulty: a commit that failed is published as if it had not.
CommittedAnyway(c) == Tell(c, "committed")

SayUncommitted(c) == Tell(c, "uncommitted")

\* git refuses or times out, and then the commit may have landed.
CommitFails(c) ==
    /\ pc[c] = "committing" /\ ~calm
    /\ SayUncommitted(c)
    /\ \/ UNCHANGED <<remote, repository, changes, adrift, calm>>
       \/ CommitLands(c)

-----------------------------------------------------------------------------
(* sync *)

StartSync(c) ==
    /\ pc[c] = "idle"
    /\ pc' = [pc EXCEPT ![c] = "pulling"]
    /\ attempt' = [attempt EXCEPT ![c] = 1]
    /\ UNCHANGED <<remote, repository, job, changes, told, adrift, calm>>

\* After a failure of a recoverable class the loop begins again.
Retry(c) ==
    /\ attempt[c] < Attempts
    /\ attempt' = [attempt EXCEPT ![c] = @ + 1]
    /\ pc' = [pc EXCEPT ![c] = "pulling"]
    /\ UNCHANGED <<job, told>>

\* Faulty: a push that was not answered counts.
SayPushed(c) == Tell(c, "pushed")

\* The commit stands, whatever failed.
GiveUp(c) == Tell(c, "committed")

Rebased(c) == remote \o Local(c)

Pull(c) ==
    /\ pc[c] = "pulling" /\ ~stuck[c] /\ dirty[c] = {}
    /\ branch' = [branch EXCEPT ![c] = Rebased(c)]
    /\ Goto(c, "pushing")
    /\ UNCHANGED <<remote, dirty, stuck, detached, changes, told, adrift, calm>>

\* pull --rebase stops between two commits, with HEAD detached.
RebaseStops(c) ==
    /\ pc[c] = "pulling" /\ ~stuck[c] /\ dirty[c] = {}
    /\ stuck' = [stuck EXCEPT ![c] = TRUE]
    /\ \E k \in 0..(Len(Local(c)) - 1) :
          detached' = [detached EXCEPT ![c] = remote \o SubSeq(Local(c), 1, k)]
    /\ UNCHANGED <<remote, branch, dirty, changes, adrift, calm>>

PullConflict(c) ==
    /\ MayConflict(c)
    /\ RebaseStops(c)
    /\ Goto(c, "aborting")
    /\ UNCHANGED told

\* The timeout kills git while it rebases; no abort follows.
PullTimesOut(c) ==
    /\ ~calm
    /\ Foreign(c) # <<>>
    /\ RebaseStops(c)
    /\ GiveUp(c)

\* Faulty: only a conflict of this very pull is aborted.
RebaseIgnored(c) == FALSE

\* _has_rebase_state
RebaseFound(c) == stuck[c]

\* No connection, local changes, or a rebase found in progress.
PullFails(c) ==
    /\ pc[c] = "pulling"
    /\ calm => stuck[c] \/ dirty[c] # {}
    /\ IF RebaseFound(c)
       THEN Goto(c, "aborting") /\ UNCHANGED told
       ELSE (dirty[c] = {} /\ Retry(c)) \/ GiveUp(c)
    /\ UNCHANGED <<remote, repository, changes, adrift, calm>>

\* Faulty: the branch stays where the rebase had come to.
QuitRebase(c) == detached[c]

OriginalBranch(c) == branch[c]

\* rebase --abort resets the working tree; untracked files stay.
Abort(c) ==
    /\ pc[c] = "aborting"
    /\ branch' = [branch EXCEPT ![c] = OriginalBranch(c)]
    /\ stuck' = [stuck EXCEPT ![c] = FALSE]
    /\ detached' = [detached EXCEPT ![c] = <<>>]
    /\ \E kept \in SUBSET dirty[c] : dirty' = [dirty EXCEPT ![c] = kept]
    /\ GiveUp(c)
    /\ UNCHANGED <<remote, changes, adrift, calm>>

AbortFails(c) ==
    /\ pc[c] = "aborting" /\ ~calm
    /\ GiveUp(c)
    /\ UNCHANGED <<remote, repository, changes, adrift, calm>>

\* Faulty: push --force.
Forced(c) == TRUE

IsFastForward(c) == IsPrefix(remote, branch[c])

Push(c) ==
    /\ pc[c] = "pushing" /\ IsFastForward(c)
    /\ remote' = branch[c]
    /\ Tell(c, "pushed")
    /\ UNCHANGED <<branch, dirty, stuck, detached, changes, adrift, calm>>

\* Rejected as non-fast-forward, or no connection.
PushFails(c) ==
    /\ pc[c] = "pushing"
    /\ calm => ~IsFastForward(c)
    /\ Retry(c) \/ GiveUp(c)
    /\ UNCHANGED <<remote, repository, changes, adrift, calm>>

\* The answer is lost: the remote may have taken the commits.
PushTimesOut(c) ==
    /\ pc[c] = "pushing" /\ ~calm
    /\ GiveUp(c)
    /\ \/ IsFastForward(c) /\ remote' = branch[c]
       \/ UNCHANGED remote
    /\ UNCHANGED <<repository, changes, adrift, calm>>

\* The process dies and its lock with it.
Crash(c) ==
    /\ pc[c] # "idle" /\ ~calm
    /\ pc' = [pc EXCEPT ![c] = "idle"]
    /\ job' = [job EXCEPT ![c] = 0]
    /\ attempt' = [attempt EXCEPT ![c] = 0]
    /\ UNCHANGED <<remote, repository, changes, told, adrift, calm>>

\* The hint's "resolve the conflicting commits in the base repo", by hand.
Resolve(c) ==
    /\ pc[c] = "idle" /\ ~stuck[c] /\ dirty[c] = {} /\ MayConflict(c)
    /\ branch' = [branch EXCEPT ![c] = Rebased(c)]
    /\ UNCHANGED <<remote, dirty, stuck, detached, tool, changes, told, adrift, calm>>

\* From here on nothing outside the tools goes wrong.
Calm ==
    /\ ~calm
    /\ calm' = TRUE
    /\ UNCHANGED <<remote, repository, tool, changes, told, adrift>>

-----------------------------------------------------------------------------

ToolStep(c) ==
    \/ RefuseDiverged(c) \/ FastForward(c) \/ GoOn(c)
    \/ WritePage(c) \/ RejectInput(c) \/ WriteFails(c) \/ Commit(c) \/ CommitFails(c)
    \/ Pull(c) \/ PullConflict(c) \/ PullTimesOut(c) \/ PullFails(c)
    \/ Abort(c) \/ AbortFails(c)
    \/ Push(c) \/ PushFails(c) \/ PushTimesOut(c)

Next ==
    \/ Calm
    \/ \E c \in Clones :
        \/ \E d \in Domains : StartWrite(c, d)
        \/ StartSync(c) \/ ToolStep(c) \/ Crash(c) \/ Resolve(c)

Spec == Init /\ [][Next]_vars

\* Somebody asks for a sync again and again, tools run on, and outages end.
FairSpec ==
    /\ Spec
    /\ \A c \in Clones : WF_vars(StartSync(c) \/ ToolStep(c))
    /\ WF_vars(Calm)

-----------------------------------------------------------------------------
(* Properties *)

Histories == Seq((SUBSET Changes) \ {{}})

\* Every variable stays in its type.
TypeOK ==
    /\ remote \in Histories
    /\ branch \in [Clones -> Histories] /\ detached \in [Clones -> Histories]
    /\ dirty \in [Clones -> SUBSET Changes] /\ stuck \in [Clones -> BOOLEAN]
    /\ pc \in [Clones -> {"idle", "checking", "writing", "committing", "pulling",
                          "aborting", "pushing"}]
    /\ job \in [Clones -> 0..MaxWrites] /\ attempt \in [Clones -> 0..Attempts]
    /\ begun \in 0..MaxWrites
    /\ author \in [Changes -> Clones] /\ place \in [Changes -> Domains]
    /\ told \in [Changes -> {"nothing", "refused", "failed", "uncommitted",
                             "committed", "pushed"}]
    /\ adrift \subseteq Changes /\ calm \in BOOLEAN

\* "Failed pushes remain fail-soft warnings and preserve the local commit"
\* (docs/wiki-model.md): what was reported committed is on its clone's branch.
LocalCommitStands ==
    \A n \in Changes : told[n] \in {"committed", "pushed"} => n \in ChangesOf(branch[author[n]])

\* The same, of commits that were made on the branch: neither a rebase, nor its
\* abort or interruption, nor a retry loses one, whatever else failed.
CommitOnBranchStands ==
    \A n \in Changes :
        told[n] \in {"committed", "pushed"} /\ n \notin adrift
            => n \in ChangesOf(branch[author[n]])

\* What was reported pushed is on the remote for good, also after the pushes,
\* rebases and lost answers of everybody else.
PushedIsShared == \A n \in Changes : told[n] = "pushed" => n \in ChangesOf(remote)

\* Between tools a clone's working tree holds only changes whose callers do not
\* believe them committed.
LeftoversAreKnown ==
    \A c \in Clones : pc[c] = "idle" =>
        \A n \in dirty[c] : told[n] \in {"uncommitted", "nothing"}

\* A caller knows what became of its change: pushed is pushed, and what stays
\* behind uncommitted is nobody's commit.
AnswersAreTrue == PushedIsShared /\ LeftoversAreKnown

Shared == INSTANCE SharedLog WITH log <- remote

\* The remote is one growing log without a change twice, although each clone
\* rebases, retries and does not know which of its pushes arrived.
RemoteIsSharedLog == Shared!Spec

\* A commit on a branch reaches the remote, unless a conflict or a leftover
\* change of another domain keeps its clone from pulling.
CommitsAreShared ==
    \A n \in Changes :
        n \in ChangesOf(branch[author[n]])
            ~> n \in ChangesOf(remote) \/ MayConflict(author[n]) \/ dirty[author[n]] # {}

-----------------------------------------------------------------------------
(* Why these hold: the inductive invariant of the proofs *)

\* A tool's change is its clone's own and not answered yet.  It is in the working
\* tree just while it is to be committed; before, it is in no commit; afterwards it
\* is on the branch, or adrift when HEAD was detached.
ToolKnows(c) ==
    /\ pc[c] = "idle" => job[c] = 0
    /\ pc[c] \in {"checking", "writing", "committing"} => job[c] # 0
    /\ job[c] # 0 =>
          /\ job[c] <= begun /\ author[job[c]] = c /\ told[job[c]] = "nothing"
          /\ pc[c] = "committing" <=> job[c] \in dirty[c]
          /\ pc[c] \in {"checking", "writing"} =>
                job[c] \notin ChangesOf(branch[c]) \cup ChangesOf(remote)
          /\ pc[c] \in {"pulling", "aborting", "pushing"} =>
                \/ job[c] \in ChangesOf(branch[c])
                \/ pc[c] # "pushing" /\ stuck[c] /\ job[c] \in adrift

\* What is left in a working tree is its clone's own and in no commit.
TreeKnows(c) ==
    \A n \in dirty[c] :
        /\ n <= begun /\ author[n] = c /\ told[n] \in {"uncommitted", "nothing"}
        /\ n \notin ChangesOf(branch[c]) \cup ChangesOf(remote)

\* A branch follows the remote up to some commit; what comes after is its clone's
\* own, and the remote has none of it.
BranchFits(c) ==
    \E k \in 0..Len(branch[c]) :
        /\ k <= Len(remote)
        /\ \A i \in 1..k : branch[c][i] = remote[i]
        /\ \A i \in (k + 1)..Len(branch[c]) :
              \A n \in branch[c][i] : author[n] = c /\ n \notin ChangesOf(remote)

\* What has not begun is in no commit, and nobody was told of it.
UnbegunAreNowhere ==
    \A n \in Changes : n > begun =>
        /\ told[n] = "nothing" /\ n \notin ChangesOf(remote)
        /\ \A c \in Clones : n \notin ChangesOf(branch[c])

ChangesAreOnce ==
    /\ Shared!Distinct(remote)
    /\ \A c \in Clones : Shared!Distinct(branch[c])

BaseInv ==
    /\ TypeOK /\ UnbegunAreNowhere /\ ChangesAreOnce
    /\ \A c \in Clones : ToolKnows(c) /\ TreeKnows(c) /\ BranchFits(c)
    /\ CommitOnBranchStands /\ PushedIsShared
=============================================================================
