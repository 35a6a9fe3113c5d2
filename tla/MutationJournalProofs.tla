------------------------- MODULE MutationJournalProofs -------------------------
(***************************************************************************)
(* What the journal promises for any number of domains, changes and        *)
(* crashes.                                                                *)
(***************************************************************************)
EXTENDS MutationJournal, TLAPS

LEMMA FilesAreOfDomains ==
    /\ \A d \in Domains : Page(d) \in Files /\ Index(d) \in Files
    /\ \A d, e : /\ Page(d) # Index(e)
                 /\ Page(d) = Page(e) => d = e
                 /\ Index(d) = Index(e) => d = e
    /\ \A D : \A f : f \in FilesOf(D) <=> \E d \in D : f = Page(d) \/ f = Index(d)
    /\ Files = FilesOf(Domains)
BY DEF Page, Index, Files, FilesOf

LEMMA ChangesAreNumbers ==
    /\ \A n \in Writes : n \in Nat /\ n # 0 /\ n \in Contents /\ n <= MaxWrites
    /\ \A n \in Contents : n \in Nat /\ n <= MaxWrites /\ (n # 0 => n \in Writes)
    /\ 0 \in Contents
    /\ \A n \in Contents : n < MaxWrites => n + 1 \in Writes /\ n + 1 \in Contents
BY JournalAssumption DEF Writes, Contents

\* The files of a change are files, and those of fewer domains are fewer.
LEMMA FilesOfPlans ==
    ASSUME TypeOK, NEW n \in Writes
    PROVE  /\ plan[n] \subseteq Domains /\ Paths(n) \subseteq Files
           /\ FilesOf(plan[n] \ SoftDomains) \subseteq Paths(n)
<1>1. plan[n] \subseteq Domains
  BY DEF TypeOK
<1> QED BY <1>1, FilesAreOfDomains DEF Paths

LEMMA UnderWay ==
    ASSUME JournalInv, tx # 0
    PROVE  tx \in Writes /\ tx = begun /\ told[tx] = "nothing"
BY ChangesAreNumbers DEF JournalInv, TypeOK, LastIsUnderWay

\* An answer ends the tool and tells its caller only.
LEMMA Answered ==
    ASSUME JournalInv, NEW answer \in {"nothing", "committed", "rolled_back", "manual"},
           Tell(answer)
    PROVE  /\ pc' = "idle" /\ tx' = 0 /\ todo' = {} /\ undo' = FALSE
           /\ told' \in [Writes -> {"nothing", "committed", "rolled_back", "manual"}]
           /\ \A n \in Writes : told'[n] = IF n = tx THEN answer ELSE told[n]
           /\ \A n \in Writes : n > begun => told'[n] = "nothing"
           /\ answer # "rolled_back" => \A n \in Writes :
                 told'[n] = "rolled_back" => told[n] = "rolled_back"
<1>1. /\ pc' = "idle" /\ tx' = 0 /\ todo' = {} /\ undo' = FALSE
      /\ told' \in [Writes -> {"nothing", "committed", "rolled_back", "manual"}]
      /\ \A n \in Writes : told'[n] = IF n = tx THEN answer ELSE told[n]
  <2>1. CASE tx = 0
    BY <2>1, ChangesAreNumbers DEF Tell, JournalInv, TypeOK
  <2>2. CASE tx # 0
    BY <2>2, UnderWay DEF Tell, JournalInv, TypeOK
  <2> QED BY <2>1, <2>2
<1>2. ASSUME NEW n \in Writes, n > begun
      PROVE  told'[n] = "nothing"
  <2>1. n # tx
    BY <1>2, UnderWay, ChangesAreNumbers DEF JournalInv, TypeOK
  <2> QED BY <1>1, <1>2, <2>1 DEF JournalInv, LastIsUnderWay
<1> QED BY <1>1, <1>2

\* A change that begins is new.
LEMMA Fresh ==
    ASSUME JournalInv, begun < MaxWrites
    PROVE  /\ begun + 1 \in Writes /\ begun + 1 \in Contents
           /\ begun + 1 \notin landed /\ told[begun + 1] = "nothing"
           /\ \A f \in Files : /\ worktree[f] # begun + 1 /\ staged[f] # begun + 1
                               /\ tree[f] # begun + 1 /\ journal.saved[f] # begun + 1
<1>1. begun \in Nat /\ begun + 1 \in Writes /\ begun + 1 \in Contents
  BY ChangesAreNumbers DEF JournalInv, TypeOK
<1>2. begun + 1 \notin landed /\ told[begun + 1] = "nothing"
  BY <1>1 DEF JournalInv, LastIsUnderWay
<1>3. ASSUME NEW f \in Files
      PROVE  /\ worktree[f] # begun + 1 /\ staged[f] # begun + 1
             /\ tree[f] # begun + 1 /\ journal.saved[f] # begun + 1
  BY <1>1 DEF JournalInv, LastIsUnderWay
<1> QED BY <1>1, <1>2, <1>3

\* What landed is in its files or was written over later.
LEMMA InLanded ==
    ASSUME JournalInv, NEW n \in landed, NEW f \in FilesOf(plan[n] \ SoftDomains)
    PROVE  /\ n \in Writes /\ n \in Nat /\ n # 0 /\ n <= begun /\ f \in Files
           /\ tree[f] >= n /\ worktree[f] >= n
           /\ HasJournal /\ n # journal.tx => journal.saved[f] >= n
           /\ \E d \in plan[n] \ SoftDomains : f = Page(d) \/ f = Index(d)
<1>1. n \in Writes /\ n \in Nat /\ n # 0 /\ n <= begun
  BY ChangesAreNumbers DEF JournalInv, LastIsUnderWay, TypeOK
<1>2. f \in Files
  BY <1>1, FilesOfPlans DEF JournalInv
<1>3. tree[f] >= n /\ worktree[f] >= n
  BY DEF JournalInv, LandedStays
<1>4. HasJournal /\ n # journal.tx => journal.saved[f] >= n
  BY DEF JournalInv, SnapshotsStand
<1> QED BY <1>1, <1>2, <1>3, <1>4, FilesAreOfDomains

LEMMA InitInv == Init => JournalInv
<1> SUFFICES ASSUME Init PROVE JournalInv
  OBVIOUS
<1>0. NoJournal \in JournalRecords
  BY ChangesAreNumbers DEF NoJournal, JournalRecords
<1>1. TypeOK
  <2>1. [f \in Files |-> 0] \in [Files -> Contents]
    BY ChangesAreNumbers
  <2>2. crashes \in 0..MaxCrashes
    BY JournalAssumption DEF Init
  <2> QED BY <1>0, <2>1, <2>2, ChangesAreNumbers DEF Init, TypeOK, Labels
<1>2. LastIsUnderWay
  BY DEF Init, LastIsUnderWay, NoJournal, HasJournal
<1>3. UnlandedStayInside
  BY ChangesAreNumbers DEF Init, UnlandedStayInside
<1>4. LandedStays /\ SnapshotsStand
  BY DEF Init, LandedStays, SnapshotsStand
<1>5. ToolKnows
  BY DEF Init, ToolKnows
<1> QED BY <1>1, <1>2, <1>3, <1>4, <1>5 DEF JournalInv

-----------------------------------------------------------------------------
(* Steps that touch no file *)

\* Steps of the manifest and of the tool: nobody is told rolled_back, and the
\* journal keeps what it is about.
LEMMA FilesStand ==
    ASSUME JournalInv, UNCHANGED <<worktree, git, past>>,
           journal'.tx = journal.tx, journal'.saved = journal.saved,
           HasJournal' <=> HasJournal,
           \A n \in Writes : told'[n] = "rolled_back" => told[n] = "rolled_back"
    PROVE  UnlandedStayInside' /\ LandedStays' /\ SnapshotsStand'
<1> USE DEF git, past
<1>1. ASSUME NEW n \in Writes \ landed, plan[n] # {}, NEW f \in Files
      PROVE  Inside(n, f)'
  <2>1. Inside(n, f)
    BY <1>1 DEF JournalInv, UnlandedStayInside
  <2> QED BY <2>1 DEF Inside, Paths
<1>2. LandedStays' /\ SnapshotsStand'
  BY DEF JournalInv, LandedStays, SnapshotsStand
<1> QED BY <1>1, <1>2 DEF UnlandedStayInside

LEMMA WriteManifestInv ==
    ASSUME JournalInv, WriteManifest
    PROVE  JournalInv'
<1>1. TypeOK'
  BY UnderWay, ChangesAreNumbers DEF WriteManifest, git, past, JournalInv, TypeOK, JournalRecords, Labels, ToolKnows, Opened, InPlan
<1>2. LastIsUnderWay'
  BY UnderWay DEF WriteManifest, git, past, JournalInv, LastIsUnderWay, HasJournal, ToolKnows, Opened, TypeOK, JournalRecords
<1>3. UnlandedStayInside' /\ LandedStays' /\ SnapshotsStand'
  BY FilesStand DEF WriteManifest, git, past, HasJournal, JournalInv, TypeOK, JournalRecords, ToolKnows, Opened
<1>4. ToolKnows'
  BY UnderWay DEF WriteManifest, git, past, JournalInv, ToolKnows, LastIsUnderWay, HasJournal, Opened, InPlan, PagesWritten, IndexesWritten, AsSaved, Paths, TypeOK, JournalRecords
<1> QED BY <1>1, <1>2, <1>3, <1>4 DEF JournalInv

LEMMA AppliedInv ==
    ASSUME JournalInv, Applied
    PROVE  JournalInv'
<1>1. TypeOK'
  BY UnderWay, ChangesAreNumbers DEF Applied, git, past, JournalInv, TypeOK, JournalRecords, Labels, ToolKnows, Opened, InPlan
<1>2. LastIsUnderWay'
  BY UnderWay DEF Applied, git, past, JournalInv, LastIsUnderWay, HasJournal, ToolKnows, Opened, TypeOK, JournalRecords
<1>3. UnlandedStayInside' /\ LandedStays' /\ SnapshotsStand'
  BY FilesStand DEF Applied, git, past, HasJournal, JournalInv, TypeOK, JournalRecords, ToolKnows, Opened
<1>4. ToolKnows'
  BY UnderWay DEF Applied, git, past, JournalInv, ToolKnows, LastIsUnderWay, HasJournal, Opened, InPlan, PagesWritten, IndexesWritten, AsSaved, Paths, TypeOK, JournalRecords
<1> QED BY <1>1, <1>2, <1>3, <1>4 DEF JournalInv

LEMMA NothingToCommitInv ==
    ASSUME JournalInv, NothingToCommit
    PROVE  JournalInv'
<1>1. TypeOK'
  BY UnderWay, ChangesAreNumbers DEF NothingToCommit, git, past, JournalInv, TypeOK, JournalRecords, Labels, ToolKnows, Opened, InPlan
<1>2. LastIsUnderWay'
  BY UnderWay DEF NothingToCommit, git, past, JournalInv, LastIsUnderWay, HasJournal, ToolKnows, Opened, TypeOK, JournalRecords
<1>3. UnlandedStayInside' /\ LandedStays' /\ SnapshotsStand'
  BY FilesStand DEF NothingToCommit, git, past, HasJournal, JournalInv, TypeOK, JournalRecords, ToolKnows, Opened
<1>4. ToolKnows'
  BY UnderWay DEF NothingToCommit, git, past, JournalInv, ToolKnows, LastIsUnderWay, HasJournal, Opened, InPlan, PagesWritten, IndexesWritten, AsSaved, Paths, TypeOK, JournalRecords
<1> QED BY <1>1, <1>2, <1>3, <1>4 DEF JournalInv

LEMMA RecordInv ==
    ASSUME JournalInv, Record
    PROVE  JournalInv'
<1>1. TypeOK'
  BY UnderWay, ChangesAreNumbers DEF Record, Goto, git, past, JournalInv, TypeOK, JournalRecords, Labels, ToolKnows, Opened, InPlan
<1>2. LastIsUnderWay'
  BY UnderWay DEF Record, Goto, git, past, JournalInv, LastIsUnderWay, HasJournal, ToolKnows, Opened, TypeOK, JournalRecords
<1>3. UnlandedStayInside' /\ LandedStays' /\ SnapshotsStand'
  BY FilesStand DEF Record, Goto, git, past, HasJournal, JournalInv, TypeOK, JournalRecords, ToolKnows, Opened
<1>4. ToolKnows'
  BY UnderWay DEF Record, Goto, git, past, JournalInv, ToolKnows, LastIsUnderWay, HasJournal, Opened, InPlan, PagesWritten, IndexesWritten, AsSaved, Paths, TypeOK, JournalRecords
<1> QED BY <1>1, <1>2, <1>3, <1>4 DEF JournalInv

LEMMA FinalizeInv ==
    ASSUME JournalInv, Finalize
    PROVE  JournalInv'
<1>1. TypeOK'
  BY UnderWay, ChangesAreNumbers DEF Finalize, Goto, git, past, JournalInv, TypeOK, JournalRecords, Labels, ToolKnows, Opened, InPlan
<1>2. LastIsUnderWay'
  BY UnderWay DEF Finalize, Goto, git, past, JournalInv, LastIsUnderWay, HasJournal, ToolKnows, Opened, TypeOK, JournalRecords
<1>3. UnlandedStayInside' /\ LandedStays' /\ SnapshotsStand'
  BY FilesStand DEF Finalize, Goto, git, past, HasJournal, JournalInv, TypeOK, JournalRecords, ToolKnows, Opened
<1>4. ToolKnows'
  BY UnderWay DEF Finalize, Goto, git, past, JournalInv, ToolKnows, LastIsUnderWay, HasJournal, Opened, InPlan, PagesWritten, IndexesWritten, AsSaved, Paths, TypeOK, JournalRecords
<1> QED BY <1>1, <1>2, <1>3, <1>4 DEF JournalInv

LEMMA EnterInv ==
    ASSUME JournalInv, Enter
    PROVE  JournalInv'
<1>1. TypeOK'
  BY UnderWay, ChangesAreNumbers DEF Enter, git, past, JournalInv, TypeOK, JournalRecords, Labels, ToolKnows, Opened, InPlan
<1>2. LastIsUnderWay'
  BY UnderWay DEF Enter, git, past, JournalInv, LastIsUnderWay, HasJournal, ToolKnows, Opened, TypeOK, JournalRecords
<1>3. UnlandedStayInside' /\ LandedStays' /\ SnapshotsStand'
  BY FilesStand DEF Enter, git, past, HasJournal, JournalInv, TypeOK, JournalRecords, ToolKnows, Opened
<1>4. ToolKnows'
  BY UnderWay DEF Enter, git, past, JournalInv, ToolKnows, LastIsUnderWay, HasJournal, Opened, InPlan, PagesWritten, IndexesWritten, AsSaved, Paths, TypeOK, JournalRecords
<1> QED BY <1>1, <1>2, <1>3, <1>4 DEF JournalInv

LEMMA RecoverNothingInv ==
    ASSUME JournalInv, RecoverNothing
    PROVE  JournalInv'
<1>1. TypeOK'
  BY UnderWay, ChangesAreNumbers DEF RecoverNothing, Goto, git, past, JournalInv, TypeOK, JournalRecords, Labels, ToolKnows, Opened, InPlan
<1>2. LastIsUnderWay'
  BY UnderWay DEF RecoverNothing, Goto, git, past, JournalInv, LastIsUnderWay, HasJournal, ToolKnows, Opened, TypeOK, JournalRecords
<1>3. UnlandedStayInside' /\ LandedStays' /\ SnapshotsStand'
  BY FilesStand DEF RecoverNothing, Goto, git, past, HasJournal, JournalInv, TypeOK, JournalRecords, ToolKnows, Opened
<1>4. ToolKnows'
  BY UnderWay DEF RecoverNothing, Goto, git, past, JournalInv, ToolKnows, LastIsUnderWay, HasJournal, Opened, InPlan, PagesWritten, IndexesWritten, AsSaved, Paths, TypeOK, JournalRecords
<1> QED BY <1>1, <1>2, <1>3, <1>4 DEF JournalInv

LEMMA RecoverRemovalInv ==
    ASSUME JournalInv, RecoverRemoval
    PROVE  JournalInv'
<1>1. TypeOK'
  BY UnderWay, ChangesAreNumbers DEF RecoverRemoval, Goto, git, past, JournalInv, TypeOK, JournalRecords, Labels, ToolKnows, Opened, InPlan
<1>2. LastIsUnderWay'
  BY UnderWay DEF RecoverRemoval, Goto, git, past, JournalInv, LastIsUnderWay, HasJournal, ToolKnows, Opened, TypeOK, JournalRecords
<1>3. UnlandedStayInside' /\ LandedStays' /\ SnapshotsStand'
  BY FilesStand DEF RecoverRemoval, Goto, git, past, HasJournal, JournalInv, TypeOK, JournalRecords, ToolKnows, Opened
<1>4. ToolKnows'
  BY UnderWay DEF RecoverRemoval, Goto, git, past, JournalInv, ToolKnows, LastIsUnderWay, HasJournal, Opened, InPlan, PagesWritten, IndexesWritten, AsSaved, Paths, TypeOK, JournalRecords
<1> QED BY <1>1, <1>2, <1>3, <1>4 DEF JournalInv

LEMMA RecoverForwardInv ==
    ASSUME JournalInv, RecoverForward
    PROVE  JournalInv'
<1>0. /\ journal' \in JournalRecords /\ pc' \in Labels
      /\ journal'.tx = journal.tx /\ journal'.saved = journal.saved
      /\ HasJournal /\ HasJournal'
  <2>1. CASE journal.state = "committed"
    BY <2>1 DEF RecoverForward, Goto, JournalInv, TypeOK, JournalRecords, Labels, HasJournal
  <2>2. CASE journal.state # "committed"
    <3>1. journal' = [journal EXCEPT !.state = "committed", !.commit = head] /\ pc' = "recovering"
      BY <2>2 DEF RecoverForward, Goto
    <3>2. journal \in JournalRecords /\ head \in Nat /\ HasJournal
      BY DEF RecoverForward, Pending, HasJournal, JournalInv, TypeOK
    <3> QED BY <3>1, <3>2 DEF JournalRecords, Labels, HasJournal
  <2> QED BY <2>1, <2>2
<1>1. TypeOK'
  BY <1>0 DEF RecoverForward, Goto, git, past, JournalInv, TypeOK
<1>2. LastIsUnderWay'
  BY UnderWay DEF RecoverForward, Goto, Landed, Pending, git, past, JournalInv, LastIsUnderWay, HasJournal, ToolKnows, Opened, TypeOK, JournalRecords
<1>3. UnlandedStayInside' /\ LandedStays' /\ SnapshotsStand'
  BY <1>0, FilesStand DEF RecoverForward, git, past
<1>4. ToolKnows'
  <2>1. /\ pc = "recovering" /\ undo' = undo /\ tx' = tx /\ journal.tx \in landed
        /\ landed' = landed /\ plan' = plan
    <3>1. CASE journal.state = "committed"
      BY <3>1 DEF RecoverForward, Goto, past, JournalInv, LastIsUnderWay, HasJournal
    <3>2. CASE trailer = journal.tx
      BY <3>2, <1>0 DEF RecoverForward, Goto, past, JournalInv, LastIsUnderWay
    <3> QED BY <3>1, <3>2 DEF RecoverForward, Landed
  <2>2. pc' \in {"removing", "recovering"}
    BY DEF RecoverForward, Goto
  <2> QED BY <1>0, <2>1, <2>2 DEF JournalInv, ToolKnows, InPlan
<1> QED BY <1>1, <1>2, <1>3, <1>4 DEF JournalInv

LEMMA RestoredInv ==
    ASSUME JournalInv, Restored
    PROVE  JournalInv'
<1>1. TypeOK'
  BY UnderWay, ChangesAreNumbers DEF Restored, Goto, Landed, Pending, git, past, JournalInv, TypeOK, JournalRecords, Labels, ToolKnows, Opened, InPlan
<1>2. LastIsUnderWay'
  BY UnderWay DEF Restored, Goto, Landed, Pending, git, past, JournalInv, LastIsUnderWay, HasJournal, ToolKnows, Opened, TypeOK, JournalRecords
<1>3. UnlandedStayInside' /\ LandedStays' /\ SnapshotsStand'
  BY FilesStand DEF Restored, Goto, Landed, Pending, git, past, HasJournal, JournalInv, TypeOK, JournalRecords, ToolKnows, Opened
<1>4. ToolKnows'
  BY UnderWay DEF Restored, Goto, Landed, Pending, git, past, JournalInv, ToolKnows, LastIsUnderWay, HasJournal, Opened, InPlan, PagesWritten, IndexesWritten, AsSaved, Paths, TypeOK, JournalRecords
<1> QED BY <1>1, <1>2, <1>3, <1>4 DEF JournalInv

LEMMA RemoveSomeInv ==
    ASSUME JournalInv, RemoveSome
    PROVE  JournalInv'
<1>1. TypeOK'
  BY UnderWay, ChangesAreNumbers DEF RemoveSome, Goto, git, past, JournalInv, TypeOK, JournalRecords, Labels, ToolKnows, Opened, InPlan
<1>2. LastIsUnderWay'
  BY UnderWay DEF RemoveSome, Goto, git, past, JournalInv, LastIsUnderWay, HasJournal, ToolKnows, Opened, TypeOK, JournalRecords
<1>3. UnlandedStayInside' /\ LandedStays' /\ SnapshotsStand'
  BY FilesStand DEF RemoveSome, Goto, git, past, HasJournal, JournalInv, TypeOK, JournalRecords, ToolKnows, Opened
<1>4. ToolKnows'
  BY UnderWay DEF RemoveSome, Goto, git, past, JournalInv, ToolKnows, LastIsUnderWay, HasJournal, Opened, InPlan, PagesWritten, IndexesWritten, AsSaved, Paths, TypeOK, JournalRecords
<1> QED BY <1>1, <1>2, <1>3, <1>4 DEF JournalInv

LEMMA CrashInv ==
    ASSUME JournalInv, Crash
    PROVE  JournalInv'
<1>0. crashes' \in 0..MaxCrashes
  BY JournalAssumption DEF Crash, JournalInv, TypeOK
<1>1. TypeOK'
  BY <1>0, ChangesAreNumbers DEF Crash, git, past, JournalInv, TypeOK, Labels
<1>2. LastIsUnderWay'
  BY UnderWay DEF Crash, git, past, JournalInv, LastIsUnderWay, HasJournal, ToolKnows, Opened, TypeOK, JournalRecords
<1>3. UnlandedStayInside' /\ LandedStays' /\ SnapshotsStand'
  BY FilesStand DEF Crash, git, past, HasJournal, JournalInv, TypeOK, JournalRecords, ToolKnows, Opened
<1>4. ToolKnows'
  BY UnderWay DEF Crash, git, past, JournalInv, ToolKnows, LastIsUnderWay, HasJournal, Opened, InPlan, PagesWritten, IndexesWritten, AsSaved, Paths, TypeOK, JournalRecords
<1> QED BY <1>1, <1>2, <1>3, <1>4 DEF JournalInv

LEMMA FailLateInv ==
    ASSUME JournalInv, FailLate
    PROVE  JournalInv'
<1> USE DEF FailLate, git, past
<1>0. Tell("manual")
  OBVIOUS
<1>1. TypeOK'
  BY <1>0, Answered, ChangesAreNumbers DEF JournalInv, TypeOK, Labels
<1>2. LastIsUnderWay'
  BY <1>0, Answered, ChangesAreNumbers DEF JournalInv, TypeOK, LastIsUnderWay, HasJournal
<1>3. UnlandedStayInside' /\ LandedStays' /\ SnapshotsStand'
  BY <1>0, Answered, FilesStand DEF HasJournal
<1>4. ToolKnows'
  BY <1>0, Answered DEF ToolKnows, InPlan
<1> QED BY <1>1, <1>2, <1>3, <1>4 DEF JournalInv

LEMMA RecoverStopsInv ==
    ASSUME JournalInv, RecoverStops
    PROVE  JournalInv'
<1> USE DEF RecoverStops, git, past
<1>0. Tell("manual")
  OBVIOUS
<1>1. TypeOK'
  BY <1>0, Answered, ChangesAreNumbers DEF JournalInv, TypeOK, Labels
<1>2. LastIsUnderWay'
  BY <1>0, Answered, ChangesAreNumbers DEF JournalInv, TypeOK, LastIsUnderWay, HasJournal
<1>3. UnlandedStayInside' /\ LandedStays' /\ SnapshotsStand'
  BY <1>0, Answered, FilesStand DEF HasJournal
<1>4. ToolKnows'
  BY <1>0, Answered DEF ToolKnows, InPlan
<1> QED BY <1>1, <1>2, <1>3, <1>4 DEF JournalInv

LEMMA ResetFailsInv ==
    ASSUME JournalInv, ResetFails
    PROVE  JournalInv'
<1> USE DEF ResetFails, git, past
<1>0. Tell("manual")
  OBVIOUS
<1>1. TypeOK'
  BY <1>0, Answered, ChangesAreNumbers DEF JournalInv, TypeOK, Labels
<1>2. LastIsUnderWay'
  BY <1>0, Answered, ChangesAreNumbers DEF JournalInv, TypeOK, LastIsUnderWay, HasJournal
<1>3. UnlandedStayInside' /\ LandedStays' /\ SnapshotsStand'
  BY <1>0, Answered, FilesStand DEF HasJournal
<1>4. ToolKnows'
  BY <1>0, Answered DEF ToolKnows, InPlan
<1> QED BY <1>1, <1>2, <1>3, <1>4 DEF JournalInv

LEMMA ApplyEditInv ==
    ASSUME NEW d \in Domains, JournalInv, ApplyEdit(d)
    PROVE  JournalInv'
<1> USE DEF git, past
<1>0. /\ Opened("prepared") /\ tx \notin landed /\ todo \subseteq plan[tx]
      /\ tx \in Writes /\ tx = begun /\ tx \in Nat
      /\ worktree \in [Files -> Contents] /\ Page(d) \in Files
      /\ worktree' = [worktree EXCEPT ![Page(d)] = tx]
  BY UnderWay, ChangesAreNumbers, FilesAreOfDomains DEF ApplyEdit, JournalInv, ToolKnows, Opened, InPlan, TypeOK
<1>1. TypeOK'
  BY <1>0, ChangesAreNumbers DEF ApplyEdit, JournalInv, TypeOK
<1>2. LastIsUnderWay'
  BY <1>0 DEF ApplyEdit, JournalInv, LastIsUnderWay, HasJournal
<1>3. UnlandedStayInside'
  <2> SUFFICES ASSUME NEW n \in Writes \ landed', plan'[n] # {}, NEW f \in Files
               PROVE  Inside(n, f)'
    BY DEF UnlandedStayInside
  <2>1. plan[n] # {} /\ Inside(n, f)
    BY DEF ApplyEdit, JournalInv, UnlandedStayInside
  <2>2. CASE f = Page(d) /\ n = tx
    <3>1. f \in Paths(n)
      BY <1>0, <2>2, FilesAreOfDomains DEF ApplyEdit, Paths
    <3> QED BY <1>0, <2>1, <2>2, <3>1 DEF ApplyEdit, Inside, Paths, Opened, HasJournal
  <2>3. CASE f # Page(d) \/ n # tx
    BY <1>0, <2>1, <2>3 DEF ApplyEdit, Inside, Paths, HasJournal
  <2> QED BY <2>2, <2>3
<1>4. LandedStays'
  <2> SUFFICES ASSUME NEW n \in landed', NEW f \in FilesOf(plan'[n] \ SoftDomains)
               PROVE  tree'[f] >= n /\ worktree'[f] >= n
    BY DEF LandedStays
  <2> QED BY <1>0, InLanded DEF ApplyEdit
<1>5. SnapshotsStand'
  BY DEF ApplyEdit, JournalInv, SnapshotsStand, HasJournal
<1>6. ToolKnows'
  BY <1>0, FilesAreOfDomains DEF ApplyEdit, JournalInv, ToolKnows, Opened, InPlan, PagesWritten, HasJournal, TypeOK
<1> QED BY <1>1, <1>2, <1>3, <1>4, <1>5, <1>6 DEF JournalInv

LEMMA EditFailsSoftInv ==
    ASSUME NEW d \in Domains, JournalInv, EditFailsSoft(d)
    PROVE  JournalInv'
<1> USE DEF git, past
<1>0. /\ Opened("prepared") /\ tx \notin landed /\ todo \subseteq plan[tx]
      /\ tx \in Writes /\ tx = begun
      /\ worktree \in [Files -> Contents] /\ Page(d) \in Files
      /\ journal.saved \in [Files -> Contents]
      /\ worktree' = [worktree EXCEPT ![Page(d)] = journal.saved[Page(d)]]
  BY UnderWay, FilesAreOfDomains DEF EditFailsSoft, JournalInv, ToolKnows, Opened, InPlan, TypeOK, JournalRecords
<1>1. TypeOK'
  BY <1>0 DEF EditFailsSoft, JournalInv, TypeOK
<1>2. LastIsUnderWay'
  BY <1>0 DEF EditFailsSoft, JournalInv, LastIsUnderWay, HasJournal
<1>3. UnlandedStayInside'
  <2> SUFFICES ASSUME NEW n \in Writes \ landed', plan'[n] # {}, NEW f \in Files
               PROVE  Inside(n, f)'
    BY DEF UnlandedStayInside
  <2>1. plan[n] # {} /\ Inside(n, f)
    BY DEF EditFailsSoft, JournalInv, UnlandedStayInside
  <2> QED BY <1>0, <2>1 DEF EditFailsSoft, Inside, Paths, HasJournal
<1>4. LandedStays'
  <2> SUFFICES ASSUME NEW n \in landed', NEW f \in FilesOf(plan'[n] \ SoftDomains)
               PROVE  tree'[f] >= n /\ worktree'[f] >= n
    BY DEF LandedStays
  <2>1. f # Page(d)
    BY InLanded, FilesAreOfDomains DEF EditFailsSoft
  <2> QED BY <1>0, <2>1, InLanded DEF EditFailsSoft
<1>5. SnapshotsStand'
  BY DEF EditFailsSoft, JournalInv, SnapshotsStand, HasJournal
<1>6. ToolKnows'
  BY <1>0, FilesAreOfDomains DEF EditFailsSoft, JournalInv, ToolKnows, Opened, InPlan, PagesWritten, HasJournal, TypeOK
<1> QED BY <1>1, <1>2, <1>3, <1>4, <1>5, <1>6 DEF JournalInv

LEMMA ReindexInv ==
    ASSUME NEW d \in Domains, JournalInv, Reindex(d)
    PROVE  JournalInv'
<1> USE DEF git, past
<1>0. /\ Opened("applied") /\ tx \notin landed /\ todo \subseteq plan[tx] /\ d \in plan[tx]
      /\ tx \in Writes /\ tx = begun
      /\ worktree \in [Files -> Contents] /\ Page(d) \in Files /\ Index(d) \in Files
      /\ worktree' = [worktree EXCEPT ![Index(d)] = worktree[Page(d)]]
      /\ PagesWritten(plan[tx])
  BY UnderWay, FilesAreOfDomains DEF Reindex, JournalInv, ToolKnows, Opened, InPlan, TypeOK
<1>1. TypeOK'
  BY <1>0 DEF Reindex, JournalInv, TypeOK
<1>2. LastIsUnderWay'
  BY <1>0 DEF Reindex, JournalInv, LastIsUnderWay, HasJournal
<1>3. UnlandedStayInside'
  <2> SUFFICES ASSUME NEW n \in Writes \ landed', plan'[n] # {}, NEW f \in Files
               PROVE  Inside(n, f)'
    BY DEF UnlandedStayInside
  <2>1. plan[n] # {} /\ Inside(n, f)
    BY DEF Reindex, JournalInv, UnlandedStayInside
  <2>2. CASE f = Index(d)
    <3>1. Inside(n, Page(d))
      BY <1>0, <2>1 DEF Reindex, JournalInv, UnlandedStayInside
    <3>2. Page(d) \in Paths(n) => Index(d) \in Paths(n)
      BY FilesAreOfDomains DEF Paths
    <3> QED BY <1>0, <2>1, <2>2, <3>1, <3>2 DEF Reindex, Inside, Paths, HasJournal
  <2>3. CASE f # Index(d)
    BY <1>0, <2>1, <2>3 DEF Reindex, Inside, Paths, HasJournal
  <2> QED BY <2>2, <2>3
<1>4. LandedStays'
  <2> SUFFICES ASSUME NEW n \in landed', NEW f \in FilesOf(plan'[n] \ SoftDomains)
               PROVE  tree'[f] >= n /\ worktree'[f] >= n
    BY DEF LandedStays
  <2>1. CASE f = Index(d)
    <3>1. Page(d) \in FilesOf(plan[n] \ SoftDomains)
      BY <2>1, InLanded, FilesAreOfDomains DEF Reindex
    <3> QED BY <1>0, <2>1, <3>1, InLanded DEF Reindex
  <2>2. CASE f # Index(d)
    BY <1>0, <2>2, InLanded DEF Reindex
  <2> QED BY <2>1, <2>2
<1>5. SnapshotsStand'
  BY DEF Reindex, JournalInv, SnapshotsStand, HasJournal
<1>6. ToolKnows'
  BY <1>0, FilesAreOfDomains DEF Reindex, JournalInv, ToolKnows, Opened, InPlan, PagesWritten, IndexesWritten, HasJournal, TypeOK
<1> QED BY <1>1, <1>2, <1>3, <1>4, <1>5, <1>6 DEF JournalInv

LEMMA RestoreFileInv ==
    ASSUME NEW f \in Files, JournalInv, RestoreFile(f)
    PROVE  JournalInv'
<1> USE DEF git, past
<1>0. /\ HasJournal /\ journal.tx \notin landed /\ journal.tx = begun /\ begun # 0
      /\ worktree \in [Files -> Contents]
      /\ journal.saved \in [Files -> Contents]
      /\ worktree' = [worktree EXCEPT ![f] = journal.saved[f]]
  BY DEF RestoreFile, Pending, Landed, JournalInv, LastIsUnderWay, HasJournal, TypeOK, JournalRecords
<1>1. TypeOK'
  BY <1>0 DEF RestoreFile, JournalInv, TypeOK
<1>2. LastIsUnderWay'
  BY <1>0 DEF RestoreFile, JournalInv, LastIsUnderWay, HasJournal
<1>3. UnlandedStayInside'
  <2> SUFFICES ASSUME NEW n \in Writes \ landed', plan'[n] # {}, NEW g \in Files
               PROVE  Inside(n, g)'
    BY DEF UnlandedStayInside
  <2>1. plan[n] # {} /\ Inside(n, g)
    BY DEF RestoreFile, JournalInv, UnlandedStayInside
  <2> QED BY <1>0, <2>1 DEF RestoreFile, Inside, Paths, HasJournal
<1>4. LandedStays'
  <2> SUFFICES ASSUME NEW n \in landed', NEW g \in FilesOf(plan'[n] \ SoftDomains)
               PROVE  tree'[g] >= n /\ worktree'[g] >= n
    BY DEF LandedStays
  <2>1. n \in landed /\ g \in FilesOf(plan[n] \ SoftDomains)
    BY DEF RestoreFile
  <2>2. journal.saved[g] >= n /\ tree[g] >= n /\ worktree[g] >= n
    BY <1>0, <2>1, InLanded
  <2> QED BY <1>0, <2>1, <2>2, InLanded DEF RestoreFile
<1>5. SnapshotsStand'
  BY DEF RestoreFile, JournalInv, SnapshotsStand, HasJournal
<1>6. ToolKnows'
  BY <1>0 DEF RestoreFile, JournalInv, ToolKnows, Opened, InPlan, HasJournal
<1> QED BY <1>1, <1>2, <1>3, <1>4, <1>5, <1>6 DEF JournalInv

LEMMA CopiedIs ==
    ASSUME NEW h \in [Files -> Contents], NEW g \in [Files -> Contents], NEW F
    PROVE  /\ Copied(h, F, g) \in [Files -> Contents]
           /\ \A f \in Files : Copied(h, F, g)[f] = IF f \in F THEN g[f] ELSE h[f]
BY DEF Copied

LEMMA OpenJournalInv ==
    ASSUME JournalInv, OpenJournal
    PROVE  JournalInv'
<1> USE DEF git, past
<1>0. /\ InPlan /\ ~HasJournal /\ tx \notin landed /\ tx \in Writes /\ tx = begun
      /\ told[tx] = "nothing" /\ tx \in Contents /\ head \in Nat
      /\ worktree \in [Files -> Contents]
      /\ journal' = [state |-> "torn", tx |-> tx, base |-> head, commit |-> 0,
                     kept |-> TRUE, saved |-> worktree]
  BY UnderWay, ChangesAreNumbers DEF OpenJournal, JournalInv, ToolKnows, InPlan, TypeOK
<1>1. TypeOK'
  <2>1. journal' \in JournalRecords
    BY <1>0, ChangesAreNumbers DEF JournalRecords
  <2> QED BY <2>1 DEF OpenJournal, Goto, JournalInv, TypeOK, Labels
<1>2. LastIsUnderWay'
  BY <1>0 DEF OpenJournal, Goto, JournalInv, LastIsUnderWay, HasJournal, InPlan
<1>3. UnlandedStayInside'
  <2> SUFFICES ASSUME NEW n \in Writes \ landed', plan'[n] # {}, NEW f \in Files
               PROVE  Inside(n, f)'
    BY DEF UnlandedStayInside
  <2>1. plan[n] # {} /\ Inside(n, f)
    BY DEF OpenJournal, JournalInv, UnlandedStayInside
  <2>2. worktree[f] # n
    BY <1>0, <2>1 DEF Inside
  <2> QED BY <1>0, <2>1, <2>2 DEF OpenJournal, Inside, Paths, HasJournal
<1>4. LandedStays'
  BY DEF OpenJournal, JournalInv, LandedStays
<1>5. SnapshotsStand'
  BY <1>0 DEF OpenJournal, JournalInv, LandedStays, SnapshotsStand, HasJournal
<1>6. ToolKnows'
  <2>1. \A f \in Files : worktree[f] # tx
    BY <1>0 DEF JournalInv, UnlandedStayInside, Inside, InPlan
  <2> QED BY <1>0, <2>1 DEF OpenJournal, Goto, JournalInv, ToolKnows, InPlan, Opened, HasJournal
<1> QED BY <1>1, <1>2, <1>3, <1>4, <1>5, <1>6 DEF JournalInv

LEMMA FailInv ==
    ASSUME JournalInv, Fail
    PROVE  JournalInv'
<1> USE DEF git, past
<1>0. InPlan /\ tx \in Writes /\ tx \notin landed
  BY UnderWay DEF Fail, JournalInv, ToolKnows, Opened, InPlan
<1>a. CASE journal' = journal
  <2>1. TypeOK'
    BY <1>a DEF Fail, JournalInv, TypeOK, Labels
  <2>2. LastIsUnderWay'
    BY <1>a DEF Fail, JournalInv, LastIsUnderWay, HasJournal
  <2>3. UnlandedStayInside' /\ LandedStays' /\ SnapshotsStand'
    BY <1>a, FilesStand DEF Fail, HasJournal
  <2>4. ToolKnows'
    BY <1>a, <1>0 DEF Fail, ToolKnows, InPlan
  <2> QED BY <2>1, <2>2, <2>3, <2>4 DEF JournalInv
<1>b. CASE journal' = NoJournal /\ pc = "snapshots"
  <2>1. TypeOK'
    <3>1. NoJournal \in JournalRecords
      BY ChangesAreNumbers DEF NoJournal, JournalRecords
    <3> QED BY <1>b, <3>1 DEF Fail, JournalInv, TypeOK, Labels
  <2>2. LastIsUnderWay'
    BY <1>b, ChangesAreNumbers DEF Fail, JournalInv, LastIsUnderWay, HasJournal, NoJournal, TypeOK
  <2>3. UnlandedStayInside'
    <3> SUFFICES ASSUME NEW n \in Writes \ landed, plan[n] # {}, NEW f \in Files
                 PROVE  Inside(n, f)'
      BY DEF UnlandedStayInside, Fail
    <3>1. Inside(n, f)
      BY DEF JournalInv, UnlandedStayInside
    <3>2. worktree[f] # n
      BY <1>b, <3>1 DEF Inside, JournalInv, ToolKnows, Opened
    <3> QED BY <1>b, <3>1, <3>2, ChangesAreNumbers DEF Fail, Inside, Paths, NoJournal
  <2>4. LandedStays' /\ SnapshotsStand'
    BY <1>b DEF Fail, JournalInv, LandedStays, SnapshotsStand, HasJournal, NoJournal
  <2>5. ToolKnows'
    BY <1>b, <1>0 DEF Fail, ToolKnows, InPlan, NoJournal, HasJournal
  <2> QED BY <2>1, <2>2, <2>3, <2>4, <2>5 DEF JournalInv
<1> QED BY <1>a, <1>b DEF Fail

LEMMA GitAddInv ==
    ASSUME JournalInv, GitAdd
    PROVE  JournalInv'
<1> USE DEF git, past
<1>0. /\ Opened("applied") /\ tx \notin landed /\ tx \in Writes /\ tx = begun
      /\ told[tx] = "nothing"
      /\ worktree \in [Files -> Contents] /\ staged \in [Files -> Contents]
      /\ staged' = Copied(staged, Paths(tx), worktree)
  BY UnderWay DEF GitAdd, JournalInv, ToolKnows, Opened, InPlan, TypeOK
<1>1. TypeOK'
  BY <1>0, CopiedIs DEF GitAdd, Goto, JournalInv, TypeOK, Labels
<1>2. LastIsUnderWay'
  BY <1>0, CopiedIs DEF GitAdd, Goto, JournalInv, LastIsUnderWay, HasJournal
<1>3. UnlandedStayInside'
  <2> SUFFICES ASSUME NEW n \in Writes \ landed', plan'[n] # {}, NEW f \in Files
               PROVE  Inside(n, f)'
    BY DEF UnlandedStayInside
  <2>1. plan[n] # {} /\ Inside(n, f)
    BY DEF GitAdd, JournalInv, UnlandedStayInside
  <2> QED BY <1>0, <2>1, CopiedIs DEF GitAdd, Goto, Inside, Paths, HasJournal, Opened
<1>4. LandedStays'
  BY DEF GitAdd, JournalInv, LandedStays
<1>5. SnapshotsStand'
  BY DEF GitAdd, JournalInv, SnapshotsStand, HasJournal
<1>6. ToolKnows'
  BY <1>0 DEF GitAdd, Goto, JournalInv, ToolKnows, InPlan, Opened, HasJournal, PagesWritten, IndexesWritten
<1> QED BY <1>1, <1>2, <1>3, <1>4, <1>5, <1>6 DEF JournalInv

LEMMA GitCommitInv ==
    ASSUME JournalInv, GitCommit
    PROVE  JournalInv'
<1> USE DEF git, past
<1>0. /\ Opened("applied") /\ tx \notin landed /\ tx \in Writes /\ tx = begun
      /\ told[tx] = "nothing" /\ tx \in Nat /\ tx \in Contents
      /\ PagesWritten(plan[tx]) /\ IndexesWritten(plan[tx])
      /\ worktree \in [Files -> Contents] /\ staged \in [Files -> Contents]
      /\ tree \in [Files -> Contents]
      /\ tree' = Copied(tree, Paths(tx), worktree)
      /\ staged' = Copied(staged, Paths(tx), worktree)
      /\ trailer' = tx /\ landed' = landed \cup {tx}
      /\ UNCHANGED <<worktree, journal, plan, begun, told, crashes, tx, todo>>
      /\ (pc' = "recording" /\ undo' = undo) \/ (pc' = "recovering" /\ undo' = TRUE)
  BY UnderWay, ChangesAreNumbers DEF GitCommit, Goto, JournalInv, ToolKnows, Opened, InPlan, TypeOK
<1>1. TypeOK'
  <2>1. tree' \in [Files -> Contents] /\ staged' \in [Files -> Contents]
    BY <1>0, CopiedIs
  <2>2. head' \in Nat
    BY DEF GitCommit, JournalInv, TypeOK
  <2>3. pc' \in Labels
    BY <1>0 DEF Labels
  <2> QED BY <1>0, <2>1, <2>2, <2>3 DEF JournalInv, TypeOK
<1>2. LastIsUnderWay'
  <2>1. \A f \in Files : tree'[f] <= begun /\ staged'[f] <= begun
    BY <1>0, CopiedIs DEF JournalInv, LastIsUnderWay
  <2>2. landed' \subseteq 1..begun
    <3>1. tx \in 1..begun /\ landed \subseteq 1..begun
      BY <1>0 DEF JournalInv, LastIsUnderWay, Opened, InPlan
    <3> QED BY <1>0, <3>1
  <2> QED BY <1>0, <2>1, <2>2 DEF JournalInv, LastIsUnderWay, HasJournal
<1>3. UnlandedStayInside'
  <2> SUFFICES ASSUME NEW n \in Writes \ landed', plan'[n] # {}, NEW f \in Files
               PROVE  Inside(n, f)'
    BY DEF UnlandedStayInside
  <2>1. plan[n] # {} /\ n \notin landed /\ n # tx /\ Inside(n, f)
    BY <1>0 DEF JournalInv, UnlandedStayInside
  <2> QED BY <1>0, <2>1, CopiedIs DEF Inside, Paths, HasJournal, Opened
<1>4. LandedStays'
  <2> SUFFICES ASSUME NEW n \in landed', NEW f \in FilesOf(plan'[n] \ SoftDomains)
               PROVE  tree'[f] >= n /\ worktree'[f] >= n
    BY DEF LandedStays
  <2>1. CASE n = tx
    <3>1. f \in Paths(tx) /\ f \in Files
      BY <1>0, <2>1, FilesOfPlans DEF JournalInv
    <3>2. worktree[f] = tx
      BY <1>0, <2>1, FilesAreOfDomains DEF PagesWritten, IndexesWritten
    <3> QED BY <1>0, <2>1, <3>1, <3>2, CopiedIs
  <2>2. CASE n # tx
    <3>1. n \in landed /\ f \in FilesOf(plan[n] \ SoftDomains)
      BY <1>0, <2>2
    <3> QED BY <1>0, <3>1, InLanded, CopiedIs
  <2> QED BY <2>1, <2>2
<1>5. SnapshotsStand'
  BY <1>0 DEF JournalInv, SnapshotsStand, HasJournal, Opened
<1>6. ToolKnows'
  BY <1>0 DEF JournalInv, ToolKnows, InPlan, Opened, HasJournal
<1> QED BY <1>1, <1>2, <1>3, <1>4, <1>5, <1>6 DEF JournalInv

LEMMA RemoveRestInv ==
    ASSUME JournalInv, RemoveRest
    PROVE  JournalInv'
<1> USE DEF git, past
<1>0. /\ HasJournal /\ journal.tx = begun /\ begun \in Writes
      /\ journal.tx \notin landed => AsSaved
      /\ journal' = NoJournal /\ NoJournal \in JournalRecords
  BY ChangesAreNumbers DEF RemoveRest, JournalInv, TypeOK, ToolKnows, LastIsUnderWay, HasJournal, NoJournal, JournalRecords
<1>1. /\ told' \in [Writes -> {"nothing", "committed", "rolled_back", "manual"}]
      /\ \A n \in Writes : n > begun => told'[n] = "nothing"
      /\ \A n \in Writes : told'[n] = "rolled_back" => told[n] = "rolled_back"
      /\ tx' \in {tx, 0} /\ todo' \in {todo, {}} /\ undo' \in {undo, FALSE}
      /\ tx' # 0 => told'[tx'] = told[tx'] /\ tx' = tx
      /\ \/ pc' = "resetting" /\ undo /\ tx' = tx
         \/ pc' = "idle" /\ tx' = 0 /\ undo' = FALSE
  <2>1. CASE undo
    BY <2>1 DEF RemoveRest, Goto, JournalInv, TypeOK, LastIsUnderWay
  <2>2. CASE ~undo
    BY <2>2, Answered DEF RemoveRest
  <2> QED BY <2>1, <2>2
<1>2. TypeOK'
  <2>1. pc' \in Labels /\ tx' \in Contents /\ todo' \subseteq Domains /\ undo' \in BOOLEAN
    BY <1>1, ChangesAreNumbers DEF JournalInv, TypeOK, Labels
  <2> QED BY <1>0, <1>1, <2>1 DEF RemoveRest, JournalInv, TypeOK
<1>3. LastIsUnderWay'
  <2>1. begun \in Nat
    BY <1>0, ChangesAreNumbers
  <2>2. tx' # 0 => tx' = begun /\ told'[tx'] = "nothing"
    BY <1>1 DEF JournalInv, LastIsUnderWay
  <2> QED BY <1>0, <1>1, <2>1, <2>2 DEF RemoveRest, JournalInv, LastIsUnderWay, HasJournal, NoJournal
<1>4. UnlandedStayInside'
  <2> SUFFICES ASSUME NEW n \in Writes \ landed, plan[n] # {}, NEW f \in Files
               PROVE  Inside(n, f)'
    BY DEF UnlandedStayInside, RemoveRest
  <2>1. Inside(n, f)
    BY DEF JournalInv, UnlandedStayInside
  <2>2. worktree[f] # n
    BY <1>0, <2>1 DEF Inside, AsSaved
  <2> QED BY <1>0, <1>1, <2>1, <2>2, ChangesAreNumbers DEF RemoveRest, Inside, Paths, NoJournal
<1>5. LandedStays' /\ SnapshotsStand'
  BY <1>0 DEF RemoveRest, JournalInv, LandedStays, SnapshotsStand, HasJournal, NoJournal
<1>6. ToolKnows'
  BY <1>0, <1>1 DEF RemoveRest, JournalInv, ToolKnows, InPlan, HasJournal, NoJournal
<1> QED BY <1>1, <1>2, <1>3, <1>4, <1>5, <1>6 DEF JournalInv

LEMMA ResetInv ==
    ASSUME JournalInv, Reset
    PROVE  JournalInv'
<1> USE DEF git, past
<1>0. /\ InPlan /\ ~HasJournal /\ tx \in Writes /\ Tell("rolled_back")
      /\ staged \in [Files -> Contents] /\ tree \in [Files -> Contents]
      /\ staged' = Copied(staged, Paths(tx), tree)
  BY UnderWay DEF Reset, Unstaged, JournalInv, ToolKnows, InPlan, TypeOK
<1>1. TypeOK'
  <2>1. staged' \in [Files -> Contents]
    BY <1>0, CopiedIs
  <2> QED BY <1>0, <2>1, Answered, ChangesAreNumbers DEF Reset, JournalInv, TypeOK, Labels
<1>2. LastIsUnderWay'
  <2>1. \A f \in Files : staged'[f] <= begun
    BY <1>0, CopiedIs DEF JournalInv, LastIsUnderWay
  <2>2. \A n \in Writes : told'[n] = "rolled_back" => plan[n] # {}
    BY <1>0, Answered DEF JournalInv, LastIsUnderWay, InPlan
  <2>3. \A n \in Writes : n > begun => plan[n] = {} /\ told'[n] = "nothing"
    BY <1>0, Answered DEF JournalInv, LastIsUnderWay
  <2> QED BY <1>0, <2>1, <2>2, <2>3, Answered DEF Reset, JournalInv, LastIsUnderWay, HasJournal
<1>3. UnlandedStayInside'
  <2> SUFFICES ASSUME NEW n \in Writes \ landed', plan'[n] # {}, NEW f \in Files
               PROVE  Inside(n, f)'
    BY DEF UnlandedStayInside
  <2>1. plan[n] # {} /\ Inside(n, f)
    BY DEF Reset, JournalInv, UnlandedStayInside
  <2>2. told'[n] = "rolled_back" => n = tx \/ told[n] = "rolled_back"
    BY <1>0, Answered
  <2> QED BY <1>0, <2>1, <2>2, CopiedIs DEF Reset, Inside, Paths, HasJournal
<1>4. LandedStays'
  BY DEF Reset, JournalInv, LandedStays
<1>5. SnapshotsStand'
  BY DEF Reset, JournalInv, SnapshotsStand, HasJournal
<1>6. ToolKnows'
  BY <1>0, Answered DEF ToolKnows, InPlan
<1> QED BY <1>1, <1>2, <1>3, <1>4, <1>5, <1>6 DEF JournalInv

\* What was numbered before stays below the next change.
LEMMA BoundsGrow ==
    ASSUME JournalInv
    PROVE  /\ begun \in Nat /\ landed \subseteq 1..(begun + 1)
           /\ \A f \in Files : /\ worktree[f] <= begun + 1 /\ staged[f] <= begun + 1
                               /\ tree[f] <= begun + 1 /\ journal.saved[f] <= begun + 1
           /\ \A n \in Writes : n > begun + 1 => plan[n] = {} /\ told[n] = "nothing"
           /\ begun < MaxWrites => plan[begun + 1] = {}
<1>1. begun \in Nat
  BY ChangesAreNumbers DEF JournalInv, TypeOK
<1>2. landed \subseteq 1..(begun + 1)
  BY <1>1 DEF JournalInv, LastIsUnderWay
<1>3. ASSUME NEW f \in Files
      PROVE  /\ worktree[f] <= begun + 1 /\ staged[f] <= begun + 1
             /\ tree[f] <= begun + 1 /\ journal.saved[f] <= begun + 1
  <2>1. /\ worktree[f] \in Nat /\ staged[f] \in Nat /\ tree[f] \in Nat
        /\ journal.saved[f] \in Nat
    BY ChangesAreNumbers DEF JournalInv, TypeOK, JournalRecords
  <2> QED BY <1>1, <2>1 DEF JournalInv, LastIsUnderWay
<1>4. \A n \in Writes : n > begun + 1 => plan[n] = {} /\ told[n] = "nothing"
  BY <1>1, ChangesAreNumbers DEF JournalInv, LastIsUnderWay
<1>5. begun < MaxWrites => plan[begun + 1] = {}
  BY <1>1, Fresh DEF JournalInv, LastIsUnderWay
<1> QED BY <1>1, <1>2, <1>3, <1>4, <1>5

\* The plans of what landed stand when another change begins.
LEMMA PlansStay ==
    ASSUME JournalInv, begun < MaxWrites, NEW D,
           plan' = [plan EXCEPT ![begun + 1] = D]
    PROVE  \A n \in landed : plan'[n] = plan[n]
BY Fresh DEF JournalInv, TypeOK

LEMMA BeginInv ==
    ASSUME NEW D \in (SUBSET Domains) \ {{}}, JournalInv, Begin(D)
    PROVE  JournalInv'
<1> USE DEF git, past
<1>0. /\ ~HasJournal /\ begun < MaxWrites /\ begun \in Nat /\ begun' = begun + 1
      /\ begun' \in Writes /\ tx' = begun' /\ pc' = "opening" /\ todo' = {} /\ undo' = FALSE
      /\ plan \in [Writes -> SUBSET Domains] /\ plan' = [plan EXCEPT ![begun'] = D]
      /\ UNCHANGED <<worktree, staged, tree, head, trailer, journal, landed, told, crashes>>
      /\ begun' \notin landed /\ told[begun'] = "nothing"
  BY Fresh, ChangesAreNumbers DEF Begin, Quiet, NextChange, HasJournal, JournalInv, TypeOK
<1>1. TypeOK'
  BY <1>0, ChangesAreNumbers DEF JournalInv, TypeOK, Labels
<1>2. LastIsUnderWay'
  BY <1>0, BoundsGrow DEF JournalInv, LastIsUnderWay, HasJournal, TypeOK
<1>3. UnlandedStayInside'
  <2> SUFFICES ASSUME NEW n \in Writes \ landed', plan'[n] # {}, NEW f \in Files
               PROVE  Inside(n, f)'
    BY DEF UnlandedStayInside
  <2>1. CASE n = begun'
    BY <1>0, <2>1, Fresh DEF Inside
  <2>2. CASE n # begun'
    <3>1. plan[n] # {} /\ plan'[n] = plan[n] /\ Inside(n, f)
      BY <1>0, <2>2 DEF JournalInv, UnlandedStayInside
    <3> QED BY <1>0, <3>1 DEF Inside, Paths, HasJournal
  <2> QED BY <2>1, <2>2
<1>4. LandedStays'
  BY <1>0, PlansStay DEF JournalInv, LandedStays
<1>5. SnapshotsStand'
  BY <1>0 DEF SnapshotsStand, HasJournal
<1>6. ToolKnows'
  <2>1. D # {}
    OBVIOUS
  <2>2. plan'[tx'] = D /\ tx' # 0
    BY <1>0, ChangesAreNumbers
  <2> QED BY <1>0, <2>1, <2>2 DEF ToolKnows, InPlan, HasJournal
<1> QED BY <1>1, <1>2, <1>3, <1>4, <1>5, <1>6 DEF JournalInv

LEMMA RefuseInv ==
    ASSUME NEW D \in (SUBSET Domains) \ {{}}, JournalInv, Refuse(D)
    PROVE  JournalInv'
<1> USE DEF git, past
<1>0. /\ ~HasJournal /\ begun < MaxWrites /\ begun \in Nat /\ begun' = begun + 1
      /\ begun' \in Writes /\ begun' \in Contents /\ pc = "idle" /\ tx = 0 /\ ~undo
      /\ plan \in [Writes -> SUBSET Domains] /\ plan' = [plan EXCEPT ![begun'] = D]
      /\ told' = [told EXCEPT ![begun'] = "rolled_back"]
      /\ told \in [Writes -> {"nothing", "committed", "rolled_back", "manual"}]
      /\ UNCHANGED <<worktree, staged, tree, head, trailer, journal, pc, tx, todo, undo, landed, crashes>>
      /\ begun' \notin landed
  BY Fresh, ChangesAreNumbers DEF Refuse, Quiet, HasJournal, JournalInv, TypeOK, ToolKnows, InPlan
<1>1. TypeOK'
  BY <1>0 DEF JournalInv, TypeOK
<1>2. LastIsUnderWay'
  <2>1. ASSUME NEW n \in Writes
        PROVE  /\ n > begun' => plan'[n] = {} /\ told'[n] = "nothing"
               /\ told'[n] = "rolled_back" => plan'[n] # {}
    <3>1. CASE n = begun'
      <4>1. D # {} /\ ~(n > begun')
        BY <1>0, <3>1
      <4> QED BY <1>0, <3>1, <4>1
    <3>2. CASE n # begun'
      BY <1>0, <3>2, BoundsGrow DEF JournalInv, LastIsUnderWay
    <3> QED BY <3>1, <3>2
  <2> QED BY <1>0, <2>1, BoundsGrow DEF JournalInv, LastIsUnderWay, HasJournal
<1>3. UnlandedStayInside'
  <2> SUFFICES ASSUME NEW n \in Writes \ landed', plan'[n] # {}, NEW f \in Files
               PROVE  Inside(n, f)'
    BY DEF UnlandedStayInside
  <2>1. CASE n = begun'
    BY <1>0, <2>1, Fresh DEF Inside
  <2>2. CASE n # begun'
    <3>1. plan[n] # {} /\ plan'[n] = plan[n] /\ told'[n] = told[n] /\ Inside(n, f)
      BY <1>0, <2>2 DEF JournalInv, UnlandedStayInside
    <3> QED BY <1>0, <3>1 DEF Inside, Paths, HasJournal
  <2> QED BY <2>1, <2>2
<1>4. LandedStays'
  BY <1>0, PlansStay DEF JournalInv, LandedStays
<1>5. SnapshotsStand'
  BY <1>0 DEF SnapshotsStand, HasJournal
<1>6. ToolKnows'
  BY <1>0 DEF ToolKnows, HasJournal
<1> QED BY <1>1, <1>2, <1>3, <1>4, <1>5, <1>6 DEF JournalInv

LEMMA WritePageInv ==
    ASSUME NEW d \in Domains, JournalInv, WritePage(d)
    PROVE  JournalInv'
<1> USE DEF git, past
<1>0. /\ ~HasJournal /\ begun < MaxWrites /\ begun \in Nat /\ begun' = begun + 1
      /\ begun' \in Writes /\ begun' \in Contents /\ tx' = begun'
      /\ pc' = "writing" /\ todo' = {d} /\ undo' = FALSE
      /\ plan \in [Writes -> SUBSET Domains] /\ plan' = [plan EXCEPT ![begun'] = {}]
      /\ worktree \in [Files -> Contents] /\ Page(d) \in Files /\ worktree[Page(d)] = 0
      /\ worktree' = [worktree EXCEPT ![Page(d)] = begun']
      /\ UNCHANGED <<staged, tree, head, trailer, journal, landed, told, crashes>>
      /\ begun' \notin landed /\ told[begun'] = "nothing"
  BY Fresh, ChangesAreNumbers, FilesAreOfDomains DEF WritePage, Quiet, NextChange, HasJournal, JournalInv, TypeOK
<1>1. TypeOK'
  BY <1>0 DEF JournalInv, TypeOK, Labels
<1>2. LastIsUnderWay'
  <2>1. \A f \in Files : worktree'[f] <= begun'
    BY <1>0, BoundsGrow
  <2> QED BY <1>0, <2>1, BoundsGrow DEF JournalInv, LastIsUnderWay, HasJournal
<1>3. UnlandedStayInside'
  <2> SUFFICES ASSUME NEW n \in Writes \ landed', plan'[n] # {}, NEW f \in Files
               PROVE  Inside(n, f)'
    BY DEF UnlandedStayInside
  <2>1. n # begun'
    BY <1>0
  <2>2. plan[n] # {} /\ plan'[n] = plan[n] /\ Inside(n, f)
    BY <1>0, <2>1 DEF JournalInv, UnlandedStayInside
  <2> QED BY <1>0, <2>1, <2>2 DEF Inside, Paths, HasJournal
<1>4. LandedStays'
  <2> SUFFICES ASSUME NEW n \in landed', NEW f \in FilesOf(plan'[n] \ SoftDomains)
               PROVE  tree'[f] >= n /\ worktree'[f] >= n
    BY DEF LandedStays
  <2>1. n \in landed /\ f \in FilesOf(plan[n] \ SoftDomains)
    BY <1>0, PlansStay
  <2> QED BY <1>0, <2>1, InLanded
<1>5. SnapshotsStand'
  BY <1>0 DEF SnapshotsStand, HasJournal
<1>6. ToolKnows'
  <2>1. plan'[tx'] = {} /\ tx' # 0
    BY <1>0, ChangesAreNumbers
  <2>2. ASSUME NEW n \in landed
        PROVE  {d} \cap (plan'[n] \ SoftDomains) = {}
    <3>1. ASSUME d \in plan[n] \ SoftDomains PROVE FALSE
      <4>1. Page(d) \in FilesOf(plan[n] \ SoftDomains)
        BY <3>1, FilesAreOfDomains
      <4> QED BY <1>0, <4>1, InLanded
    <3> QED BY <1>0, <3>1, PlansStay
  <2> QED BY <1>0, <2>1, <2>2 DEF ToolKnows, HasJournal
<1> QED BY <1>1, <1>2, <1>3, <1>4, <1>5, <1>6 DEF JournalInv

LEMMA WriteIndexInv ==
    ASSUME JournalInv, WriteIndex
    PROVE  JournalInv'
<1> USE DEF git, past
<1>0. /\ ~HasJournal /\ tx # 0 /\ plan[tx] = {} /\ tx \in Writes /\ tx \in Contents /\ tx = begun
      /\ tx \in Nat /\ worktree \in [Files -> Contents]
      /\ worktree' = [f \in Files |-> IF f[1] \in todo THEN tx ELSE worktree[f]]
  BY UnderWay, ChangesAreNumbers DEF WriteIndex, JournalInv, ToolKnows, TypeOK
<1>1. TypeOK'
  BY <1>0 DEF WriteIndex, Goto, JournalInv, TypeOK, Labels
<1>2. LastIsUnderWay'
  BY <1>0 DEF WriteIndex, Goto, JournalInv, LastIsUnderWay, HasJournal
<1>3. UnlandedStayInside'
  <2> SUFFICES ASSUME NEW n \in Writes \ landed', plan'[n] # {}, NEW f \in Files
               PROVE  Inside(n, f)'
    BY DEF UnlandedStayInside
  <2>1. plan[n] # {} /\ Inside(n, f)
    BY DEF WriteIndex, JournalInv, UnlandedStayInside
  <2> QED BY <1>0, <2>1 DEF WriteIndex, Inside, Paths, HasJournal
<1>4. LandedStays'
  <2> SUFFICES ASSUME NEW n \in landed', NEW f \in FilesOf(plan'[n] \ SoftDomains)
               PROVE  tree'[f] >= n /\ worktree'[f] >= n
    BY DEF LandedStays
  <2>1. n \in landed /\ f \in FilesOf(plan[n] \ SoftDomains)
    BY DEF WriteIndex
  <2> QED BY <1>0, <2>1, InLanded DEF WriteIndex
<1>5. SnapshotsStand'
  BY <1>0 DEF WriteIndex, SnapshotsStand, HasJournal
<1>6. ToolKnows'
  BY <1>0 DEF WriteIndex, Goto, JournalInv, ToolKnows, HasJournal, InPlan
<1> QED BY <1>1, <1>2, <1>3, <1>4, <1>5, <1>6 DEF JournalInv

LEMMA WriteFailsInv ==
    ASSUME JournalInv, WriteFails
    PROVE  JournalInv'
<1> USE DEF git, past
<1>0. /\ ~HasJournal /\ tx # 0 /\ plan[tx] = {} /\ tx \in Writes
      /\ worktree \in [Files -> Contents] /\ Tell("nothing")
      /\ \A n \in landed : todo \cap (plan[n] \ SoftDomains) = {}
      /\ UNCHANGED <<staged, tree, head, trailer, journal, plan, begun, landed, crashes>>
  BY UnderWay DEF WriteFails, JournalInv, ToolKnows, TypeOK
<1>a. /\ worktree' \in [Files -> Contents]
      /\ \A f \in Files : \/ worktree'[f] = worktree[f]
                          \/ worktree'[f] = 0 /\ f \in todo \X {"page"}
  <2>1. CASE worktree' = worktree
    BY <1>0, <2>1
  <2>2. CASE worktree' = [f \in Files |-> IF f \in todo \X {"page"} THEN 0 ELSE worktree[f]]
    BY <1>0, <2>2, ChangesAreNumbers
  <2> QED BY <2>1, <2>2 DEF WriteFails
<1>1. TypeOK'
  BY <1>0, <1>a, Answered, ChangesAreNumbers DEF JournalInv, TypeOK, Labels
<1>2. LastIsUnderWay'
  <2>1. begun \in Nat
    BY ChangesAreNumbers DEF JournalInv, TypeOK
  <2>2. \A f \in Files : worktree'[f] <= begun
    BY <1>a, <2>1 DEF JournalInv, LastIsUnderWay
  <2> QED BY <1>0, <2>2, Answered DEF JournalInv, LastIsUnderWay, HasJournal
<1>3. UnlandedStayInside'
  <2> SUFFICES ASSUME NEW n \in Writes \ landed', plan'[n] # {}, NEW f \in Files
               PROVE  Inside(n, f)'
    BY DEF UnlandedStayInside
  <2>1. plan[n] # {} /\ n # 0 /\ Inside(n, f)
    BY <1>0, ChangesAreNumbers DEF JournalInv, UnlandedStayInside
  <2> QED BY <1>0, <1>a, <2>1, Answered DEF Inside, Paths, HasJournal
<1>4. LandedStays'
  <2> SUFFICES ASSUME NEW n \in landed', NEW f \in FilesOf(plan'[n] \ SoftDomains)
               PROVE  tree'[f] >= n /\ worktree'[f] >= n
    BY DEF LandedStays
  <2>1. n \in landed /\ f \in FilesOf(plan[n] \ SoftDomains)
    BY <1>0
  <2>2. f \notin todo \X {"page"}
    BY <1>0, <2>1 DEF FilesOf
  <2> QED BY <1>0, <1>a, <2>1, <2>2, InLanded
<1>5. SnapshotsStand'
  BY <1>0 DEF SnapshotsStand, HasJournal
<1>6. ToolKnows'
  BY <1>0, Answered DEF ToolKnows
<1> QED BY <1>1, <1>2, <1>3, <1>4, <1>5, <1>6 DEF JournalInv

LEMMA WriteCommitInv ==
    ASSUME JournalInv, WriteCommit
    PROVE  JournalInv'
<1> USE DEF git, past
<1>0. /\ ~HasJournal /\ tx # 0 /\ plan[tx] = {} /\ tx \in Writes /\ tx = begun
      /\ worktree \in [Files -> Contents] /\ tree \in [Files -> Contents]
      /\ staged \in [Files -> Contents] /\ Tell("committed")
      /\ tree' = Copied(tree, FilesOf(todo), worktree)
      /\ staged' = Copied(staged, FilesOf(todo), worktree)
      /\ head' \in Nat /\ trailer' = 0 /\ landed' = landed \cup {tx}
      /\ UNCHANGED <<worktree, journal, plan, begun, crashes>>
  BY UnderWay DEF WriteCommit, JournalInv, ToolKnows, TypeOK
<1>1. TypeOK'
  <2>1. tree' \in [Files -> Contents] /\ staged' \in [Files -> Contents]
    BY <1>0, CopiedIs
  <2> QED BY <1>0, <2>1, Answered, ChangesAreNumbers DEF JournalInv, TypeOK, Labels
<1>2. LastIsUnderWay'
  <2>1. \A f \in Files : tree'[f] <= begun /\ staged'[f] <= begun
    BY <1>0, CopiedIs DEF JournalInv, LastIsUnderWay
  <2>2. landed' \subseteq 1..begun
    <3>1. tx \in 1..begun /\ landed \subseteq 1..begun
      BY <1>0, ChangesAreNumbers DEF JournalInv, LastIsUnderWay
    <3> QED BY <1>0, <3>1
  <2> QED BY <1>0, <2>1, <2>2, Answered DEF JournalInv, LastIsUnderWay, HasJournal
<1>3. UnlandedStayInside'
  <2> SUFFICES ASSUME NEW n \in Writes \ landed', plan'[n] # {}, NEW f \in Files
               PROVE  Inside(n, f)'
    BY DEF UnlandedStayInside
  <2>1. plan[n] # {} /\ n \notin landed /\ Inside(n, f)
    BY <1>0 DEF JournalInv, UnlandedStayInside
  <2> QED BY <1>0, <2>1, Answered, CopiedIs DEF Inside, Paths, HasJournal
<1>4. LandedStays'
  <2> SUFFICES ASSUME NEW n \in landed', NEW f \in FilesOf(plan'[n] \ SoftDomains)
               PROVE  tree'[f] >= n /\ worktree'[f] >= n
    BY DEF LandedStays
  <2>1. n # tx /\ n \in landed /\ f \in FilesOf(plan[n] \ SoftDomains)
    BY <1>0 DEF FilesOf
  <2> QED BY <1>0, <2>1, InLanded, CopiedIs
<1>5. SnapshotsStand'
  BY <1>0 DEF SnapshotsStand, HasJournal
<1>6. ToolKnows'
  BY <1>0, Answered DEF ToolKnows
<1> QED BY <1>1, <1>2, <1>3, <1>4, <1>5, <1>6 DEF JournalInv

LEMMA CommitFailsInv ==
    ASSUME JournalInv, CommitFails
    PROVE  JournalInv'
<1> USE DEF git, past
<1>0. /\ ~HasJournal /\ tx # 0 /\ plan[tx] = {} /\ tx \in Writes
      /\ worktree \in [Files -> Contents] /\ staged \in [Files -> Contents]
      /\ Tell("nothing")
      /\ UNCHANGED <<worktree, tree, head, trailer, journal, plan, begun, landed, crashes>>
  BY UnderWay DEF CommitFails, JournalInv, ToolKnows, TypeOK
<1>a. /\ staged' \in [Files -> Contents]
      /\ \A f \in Files : staged'[f] \in {staged[f], worktree[f]}
  BY <1>0, CopiedIs DEF CommitFails
<1>1. TypeOK'
  BY <1>0, <1>a, Answered, ChangesAreNumbers DEF JournalInv, TypeOK, Labels
<1>2. LastIsUnderWay'
  <2>1. \A f \in Files : staged'[f] <= begun
    BY <1>a DEF JournalInv, LastIsUnderWay
  <2> QED BY <1>0, <2>1, Answered DEF JournalInv, LastIsUnderWay, HasJournal
<1>3. UnlandedStayInside'
  <2> SUFFICES ASSUME NEW n \in Writes \ landed', plan'[n] # {}, NEW f \in Files
               PROVE  Inside(n, f)'
    BY DEF UnlandedStayInside
  <2>1. plan[n] # {} /\ Inside(n, f)
    BY <1>0 DEF JournalInv, UnlandedStayInside
  <2> QED BY <1>0, <1>a, <2>1, Answered DEF Inside, Paths, HasJournal
<1>4. LandedStays'
  BY <1>0 DEF JournalInv, LandedStays
<1>5. SnapshotsStand'
  BY <1>0 DEF SnapshotsStand, HasJournal
<1>6. ToolKnows'
  BY <1>0, Answered DEF ToolKnows
<1> QED BY <1>1, <1>2, <1>3, <1>4, <1>5, <1>6 DEF JournalInv

LEMMA PullInv ==
    ASSUME NEW d \in Domains, JournalInv, Pull(d)
    PROVE  JournalInv'
<1> USE DEF git, past
<1>0. /\ ~HasJournal /\ begun < MaxWrites /\ begun \in Nat /\ begun' = begun + 1
      /\ begun' \in Writes /\ begun' \in Contents /\ pc = "idle" /\ tx = 0 /\ ~undo
      /\ worktree = tree /\ staged = tree /\ tree \in [Files -> Contents]
      /\ tree' = [f \in Files |-> IF f \in FilesOf({d}) THEN begun' ELSE tree[f]]
      /\ worktree' = tree' /\ staged' = tree' /\ head' \in Nat /\ trailer' = 0
      /\ landed' = landed \cup {begun'}
      /\ UNCHANGED <<journal, pc, tx, todo, undo, plan, told, crashes>>
      /\ begun' \notin landed
  BY Fresh, ChangesAreNumbers DEF Pull, Quiet, HasJournal, JournalInv, TypeOK, ToolKnows, InPlan
<1>1. TypeOK'
  <2>1. tree' \in [Files -> Contents]
    BY <1>0
  <2> QED BY <1>0, <2>1 DEF JournalInv, TypeOK
<1>2. LastIsUnderWay'
  <2>1. \A f \in Files : tree'[f] <= begun'
    BY <1>0, BoundsGrow
  <2>2. landed' \subseteq 1..begun'
    BY <1>0, BoundsGrow
  <2> QED BY <1>0, <2>1, <2>2, BoundsGrow DEF JournalInv, LastIsUnderWay, HasJournal
<1>3. UnlandedStayInside'
  <2> SUFFICES ASSUME NEW n \in Writes \ landed', plan'[n] # {}, NEW f \in Files
               PROVE  Inside(n, f)'
    BY DEF UnlandedStayInside
  <2>1. plan[n] # {} /\ n # begun' /\ Inside(n, f)
    BY <1>0 DEF JournalInv, UnlandedStayInside
  <2> QED BY <1>0, <2>1 DEF Inside, Paths, HasJournal
<1>4. LandedStays'
  <2> SUFFICES ASSUME NEW n \in landed', NEW f \in FilesOf(plan'[n] \ SoftDomains)
               PROVE  tree'[f] >= n /\ worktree'[f] >= n
    BY DEF LandedStays
  <2>1. CASE n = begun'
    <3>1. plan[n] = {}
      BY <1>0, <2>1, BoundsGrow
    <3> QED BY <1>0, <3>1 DEF FilesOf
  <2>2. CASE n # begun'
    <3>1. n \in landed /\ f \in FilesOf(plan[n] \ SoftDomains)
      BY <1>0, <2>2
    <3> QED BY <1>0, <3>1, InLanded
  <2> QED BY <2>1, <2>2
<1>5. SnapshotsStand'
  BY <1>0 DEF SnapshotsStand, HasJournal
<1>6. ToolKnows'
  BY <1>0 DEF ToolKnows, HasJournal
<1> QED BY <1>1, <1>2, <1>3, <1>4, <1>5, <1>6 DEF JournalInv

-----------------------------------------------------------------------------
(* Theorems *)

LEMMA NextInv == JournalInv /\ [Next]_vars => JournalInv'
<1> SUFFICES ASSUME JournalInv, [Next]_vars PROVE JournalInv'
  OBVIOUS
<1>1. CASE UNCHANGED vars
  BY <1>1 DEF vars, git, past, JournalInv, TypeOK, LastIsUnderWay, UnlandedStayInside, Inside,
     LandedStays, SnapshotsStand, ToolKnows, HasJournal, InPlan, Opened, PagesWritten,
     IndexesWritten, AsSaved, Paths
<1>2. ASSUME NEW D \in (SUBSET Domains) \ {{}}, Begin(D) \/ Refuse(D) PROVE JournalInv'
  BY <1>2, BeginInv, RefuseInv
<1>3. CASE PlanStep
  BY <1>3, OpenJournalInv, WriteManifestInv, ApplyEditInv, EditFailsSoftInv, ReindexInv,
     AppliedInv, GitAddInv, GitCommitInv, NothingToCommitInv, RecordInv, FinalizeInv
     DEF PlanStep
<1>4. CASE RecoveryStep
  BY <1>4, RecoverNothingInv, RecoverRemovalInv, RestoreFileInv, RestoredInv, RemoveSomeInv,
     RemoveRestInv, ResetInv DEF RecoveryStep
<1>5. CASE Fail \/ FailLate \/ Enter \/ RecoverForward \/ RecoverStops \/ ResetFails
  BY <1>5, FailInv, FailLateInv, EnterInv, RecoverForwardInv, RecoverStopsInv, ResetFailsInv
<1>6. ASSUME NEW d \in Domains, WritePage(d) \/ Pull(d) PROVE JournalInv'
  BY <1>6, WritePageInv, PullInv
<1>7. CASE WriteIndex \/ WriteFails \/ WriteCommit \/ CommitFails \/ Crash
  BY <1>7, WriteIndexInv, WriteFailsInv, WriteCommitInv, CommitFailsInv, CrashInv
<1> QED BY <1>1, <1>2, <1>3, <1>4, <1>5, <1>6, <1>7 DEF Next

\* Whatever step a process dies at, the journal, the files, Git and what callers
\* were told stay consistent (cross_domain.py).
THEOREM InvariantHolds == Spec => []JournalInv
BY InitInv, NextInv, PTL DEF Spec

LEMMA InvariantSuffices == JournalInv => AllOrNothing
<1> SUFFICES ASSUME JournalInv PROVE AllOrNothing
  OBVIOUS
<1>1. LandedStays
  BY DEF JournalInv
<1>2. ASSUME NEW n \in Writes \ landed, plan[n] # {}, ~HasJournal, NEW f \in Files
      PROVE  worktree[f] # n
  BY <1>2 DEF JournalInv, UnlandedStayInside, Inside
<1>3. NothingHalfDone
  BY <1>2 DEF NothingHalfDone, Quiet, HasJournal, Traces
<1>4. ASSUME NEW n \in Writes \ landed, told[n] = "rolled_back", NEW f \in Files
      PROVE  worktree[f] # n /\ staged[f] # n
  <2>1. plan[n] # {} /\ ~(HasJournal /\ journal.tx = n)
    BY <1>4 DEF JournalInv, LastIsUnderWay
  <2> QED BY <1>4, <2>1 DEF JournalInv, UnlandedStayInside, Inside
<1>5. RollbackIsClean
  BY <1>4 DEF RollbackIsClean, Traces
<1> QED BY <1>1, <1>3, <1>5 DEF AllOrNothing

\* A change of several domains is there whole or not at all, wherever a process
\* died and whatever another change's recovery did since; and who is told that it
\* was rolled back finds nothing of it, unless it landed.
THEOREM ChangesAreWhole == Spec => []AllOrNothing
BY InvariantHolds, InvariantSuffices, PTL

=============================================================================
