--------------------------- MODULE PgCodeGraphProofs ---------------------------
(***************************************************************************)
(* Theorems of PgPublication, and of PgSnapshotLife that extends it, for   *)
(* every value of their constants: any number of publishers, owners and    *)
(* pages, and of refreshes, cleanup cycles and searches, with or without   *)
(* reverts.                                                                *)
(***************************************************************************)
EXTENDS PgSnapshotLife, TLAPS

-----------------------------------------------------------------------------
(* The answers are answers *)

\* _guard answers with one of two errors, or lets the call go on.
LEMMA RejectionType ==
    ASSUME NEW s, NEW o, NEW now
    PROVE  Rejection(s, o, now) \in {"none", "unauthorized", "session_expired"}
BY DEF Rejection

\* _materialize finds the batches complete or names what is wrong.
LEMMA MaterializedType ==
    ASSUME NEW s
    PROVE  Materialized(s) \in {"complete", "invalid_batch", "snapshot_incomplete",
                                "revision_mismatch"}
BY DEF Materialized

\* publish_batch accepts a batch only into a staging session.
LEMMA BatchVerdictType ==
    ASSUME NEW s, NEW o, NEW now, NEW x, NEW content
    PROVE  /\ BatchVerdict(s, o, now, x, content) \in Replies
           /\ BatchVerdict(s, o, now, x, content) = "accepted" =>
                 /\ x \in Slots
                 /\ session[s].state = "staging"
BY RejectionType DEF BatchVerdict, Replies

\* finalize goes on only for a staging session whose batches are complete.
LEMMA FinalizeVerdictType ==
    ASSUME NEW s \in Sessions, NEW o, NEW now, TypeOK
    PROVE  /\ FinalizeVerdict(s, o, now) \in Replies \cup {"complete"}
           /\ FinalizeVerdict(s, o, now) = "complete" =>
                 /\ session[s].state = "staging"
                 /\ Materialized(s) = "complete"
<1>1. Rejection(s, o, now) \in {"none", "unauthorized", "session_expired"}
  BY RejectionType
<1>2. Materialized(s) \in {"complete", "invalid_batch", "snapshot_incomplete",
                           "revision_mismatch"}
  BY MaterializedType
<1>3. Rejection(s, o, now) = "none" =>
         session[s].state \in {"staging", "ready", "aborted"}
  BY DEF Rejection, Known
<1>4. CASE Rejection(s, o, now) # "none"
  BY <1>1, <1>4 DEF FinalizeVerdict, Replies
<1>5. CASE Rejection(s, o, now) = "none" /\ session[s].state # "staging"
  BY <1>3, <1>5 DEF FinalizeVerdict, Replies
<1>6. CASE Rejection(s, o, now) = "none" /\ session[s].state = "staging"
  BY <1>2, <1>6 DEF FinalizeVerdict, Replies
<1> QED
  BY <1>4, <1>5, <1>6

\* abort changes only a session that never became ready.
LEMMA AbortVerdictType ==
    ASSUME NEW s, NEW o
    PROVE  /\ AbortVerdict(s, o) \in {"unauthorized", "ready", "aborted"}
           /\ AbortVerdict(s, o) = "aborted" => session[s].state \in {"staging", "aborted"}
BY DEF AbortVerdict, Known

\* _active_revision returns a revision or NULL.
LEMMA ActiveRevisionType ==
    ASSUME TypeOK
    PROVE  ActiveRevision \in Revisions \cup {None}
BY DEF TypeOK, ActiveRevision, SnapshotRows

\* Materialized looks at the session's batches and its header only.
LEMMA MaterializedUnchanged ==
    ASSUME NEW s, batches'[s] = batches[s],
           snapshot'[s].payload = snapshot[s].payload
    PROVE  Materialized(s)' = Materialized(s)
BY DEF Materialized, Sent, ContentsOf

\* The texts of a view of the pages are what a revision hashes.
LEMMA TextsOfType ==
    ASSUME NEW view \in Views
    PROVE  TextsOf(view) \in MarkdownRevisions
BY DEF Views, PageRows, TextsOf, MarkdownRevisions

\* An empty domain is a view of the pages.
LEMMA NoPagesType == NoPages \in Views
BY DEF NoPages, Views, PageRows

\* _derive_links returns link rows.
LEMMA DeriveType ==
    ASSUME NEW view \in Views, None \notin Texts
    PROVE  Derive(view) \subseteq LinkRows
BY DEF Derive, Views, PageRows, LinkRows

-----------------------------------------------------------------------------
(* Type correctness *)

\* A session without a call in flight has a well-typed call record.
LEMMA IdleCallType == IdleCall \in Calls
BY NoPagesType DEF IdleCall, Calls, Phases

\* The migrated, empty schema is well typed.
LEMMA InitType == Init => TypeOK
<1> SUFFICES ASSUME Init PROVE TypeOK
  OBVIOUS
<1>1. NoSnapshot \in SnapshotRows
  BY NoPagesType, TextsOfType DEF NoSnapshot, SnapshotRows, SnapshotStates
<1>2. history \in [0..generation -> MarkdownRevisions]
  BY NoPagesType, TextsOfType DEF Init
<1>3. session \in [Sessions -> SessionRows]
  BY DEF Init, SessionRows, SessionStates
<1>4. rows \in [Sessions -> [Tables -> Nat]]
  BY DEF Init, NoRows
<1>5. batches \in [Sessions -> [Slots -> Payloads \cup {None}]]
  BY DEF Init
<1> QED
  BY <1>1, <1>2, <1>3, <1>4, <1>5, NoPagesType, IdleCallType DEF Init, TypeOK, Replies

\* A page mutation with its generation bump keeps every type.
LEMMA SetPageType ==
    ASSUME TypeOK, NEW p \in Pages, NEW row \in PageRows, SetPage(p, row)
    PROVE  /\ pages' \in Views
           /\ generation' \in Nat
           /\ history' \in [0..generation' -> MarkdownRevisions]
<1>1. pages' \in Views
  BY DEF TypeOK, SetPage, Views
<1>2. generation' \in Nat
  BY DEF TypeOK, SetPage
<1>3. TextsOf(pages') \in MarkdownRevisions
  BY <1>1, TextsOfType
<1>4. \A g \in 0..generation : history[g] \in MarkdownRevisions
  BY DEF TypeOK
<1>5. \A g \in 0..(generation + 1) : g <= generation => g \in 0..generation
  BY DEF TypeOK
<1> QED
  BY <1>1, <1>2, <1>3, <1>4, <1>5 DEF SetPage

\* write_page, update_page and delete_page keep every type.
LEMMA PageStepType ==
    ASSUME TypeOK, PageStep
    PROVE  TypeOK'
<1>1. PICK p \in Pages : (\E t \in Texts : WritePage(p, t) \/ UpdatePage(p, t)) \/ DeletePage(p)
  BY DEF PageStep
<1>2. CASE \E t \in Texts : WritePage(p, t)
  <2>1. PICK t \in Texts : WritePage(p, t)
    BY <1>2
  <2>2. [text |-> t, id |-> generation + 1] \in PageRows
    BY DEF TypeOK, PageRows
  <2> QED
    BY <2>1, <2>2, SetPageType DEF WritePage, SetPage, TypeOK, clockVars
<1>3. CASE \E t \in Texts : UpdatePage(p, t)
  <2>1. PICK t \in Texts : UpdatePage(p, t)
    BY <1>3
  <2>2. [pages[p] EXCEPT !.text = t] \in PageRows
    BY DEF TypeOK, Views, PageRows
  <2> QED
    BY <2>1, <2>2, SetPageType DEF UpdatePage, SetPage, TypeOK, clockVars
<1>4. CASE DeletePage(p)
  <2>1. [text |-> None, id |-> 0] \in PageRows
    BY DEF PageRows
  <2>2. links' \in [Sessions -> SUBSET LinkRows]
    BY <1>4 DEF DeletePage, TypeOK
  <2> QED
    BY <1>4, <2>1, <2>2, SetPageType DEF DeletePage, SetPage, TypeOK, clockVars
<1> QED
  BY <1>1, <1>2, <1>3, <1>4

\* What has lapsed are sessions.
LEMMA LapsedType ==
    ASSUME TypeOK, RecordLapsed
    PROVE  lapsed' \subseteq Sessions
BY DEF TypeOK, RecordLapsed

\* The first statements of begin keep every type.
LEMMA BeginSelectType ==
    ASSUME TypeOK, NEW s \in Sessions, BeginSelect(s)
    PROVE  TypeOK'
<1>1. PICK now \in CallTimes : \E E \in OldestExpired(now) :
         call' = [call EXCEPT ![s] = [IdleCall EXCEPT !.phase = "cleaning",
                                                      !.now = now,
                                                      !.expired = E]]
  BY DEF BeginSelect
<1>2. PICK E \in OldestExpired(now) :
         call' = [call EXCEPT ![s] = [IdleCall EXCEPT !.phase = "cleaning",
                                                      !.now = now,
                                                      !.expired = E]]
  BY <1>1
<1>3. E \in SUBSET Sessions
  BY DEF OldestExpired, ExpiredStaging
<1>4. now \in Nat
  BY DEF TypeOK, CallTimes
<1>5. call' \in [Sessions -> Calls]
  BY <1>2, <1>3, <1>4, NoPagesType DEF TypeOK, Calls, IdleCall, Phases
<1> QED
  BY <1>5 DEF BeginSelect, TypeOK, clockVars, pageVars, storeVars

\* The later statements of begin, or its failure, move its own call record only.
LEMMA BeginProgressType ==
    ASSUME TypeOK, NEW s \in Sessions,
           BeginDrop(s) \/ BeginReadGeneration(s) \/ BeginFail(s)
    PROVE  /\ TypeOK'
           /\ \A t \in Sessions \ {s} : call'[t] = call[t]
           /\ UNCHANGED <<clockVars, pageVars, storeVars, lock, reply>>
<1>0. call[s] \in Calls
  BY DEF TypeOK
<1>1. CASE BeginDrop(s)
  <2>1. PICK e \in call[s].expired :
           call' = [call EXCEPT ![s].expired = @ \ {e},
                                ![s].dropped = IF session[e].state = "deleted"
                                               THEN @ ELSE @ \cup {e}]
    BY <1>1 DEF BeginDrop
  <2>2. \A D \in SUBSET Sessions :
           [call[s] EXCEPT !.expired = @ \ {e}, !.dropped = D] \in Calls
    BY <1>0 DEF Calls
  <2>3. e \in Sessions /\ call[s].dropped \subseteq Sessions
    BY <1>0 DEF Calls
  <2> DEFINE D == IF session[e].state = "deleted" THEN call[s].dropped
                  ELSE call[s].dropped \cup {e}
  <2>4. D \in SUBSET Sessions
    BY <2>3
  <2>5. call' = [call EXCEPT ![s] = [call[s] EXCEPT !.expired = @ \ {e}, !.dropped = D]]
    BY <2>1 DEF TypeOK
  <2>6. [call[s] EXCEPT !.expired = @ \ {e}, !.dropped = D] \in Calls
    BY <2>2, <2>4
  <2>7. call' \in [Sessions -> Calls] /\ \A t \in Sessions \ {s} : call'[t] = call[t]
    BY <2>5, <2>6 DEF TypeOK
  <2> QED
    BY <1>1, <2>7 DEF BeginDrop, TypeOK, clockVars, pageVars, storeVars
<1>2. CASE BeginReadGeneration(s)
  <2>1. [call[s] EXCEPT !.phase = "counted", !.gen = generation] \in Calls
    BY <1>0 DEF Calls, Phases, TypeOK
  <2> QED
    BY <1>2, <2>1 DEF BeginReadGeneration, TypeOK, clockVars, pageVars, storeVars
<1>3. CASE BeginFail(s)
  BY <1>3, IdleCallType DEF BeginFail, TypeOK, clockVars, pageVars, storeVars
<1> QED
  BY <1>1, <1>2, <1>3

\* The commit of begin keeps every type, cleanup included.
LEMMA BeginCommitType ==
    ASSUME TypeOK, NEW s \in Sessions, NEW o \in Owners, NEW p \in Payloads,
           BeginCommit(s, o, p)
    PROVE  TypeOK'
<1>1. call[s] \in Calls
  BY DEF TypeOK
<1>2. call[s].now + Ttl \in Nat
  BY <1>1, PublicationAssumption DEF Calls
<1>3. [state |-> "staging", owner |-> o, lease |-> call[s].now + Ttl,
       base |-> ActiveRevision, gen |-> call[s].gen] \in SessionRows
  BY <1>1, <1>2, ActiveRevisionType DEF SessionRows, SessionStates, Calls
<1>4. \A t \in Sessions : [session[t] EXCEPT !.state = "deleted"] \in SessionRows
  BY ZenonT(40) DEF TypeOK, SessionRows, SessionStates
<1>5. session' \in [Sessions -> SessionRows]
  BY <1>3, <1>4 DEF BeginCommit, DropSessions, TypeOK
<1>6. [NoSnapshot EXCEPT !.state = "staging", !.payload = p, !.mdGen = call[s].gen]
         \in SnapshotRows
  BY <1>1, NoPagesType, TextsOfType DEF NoSnapshot, SnapshotRows, SnapshotStates, Calls
<1>7. \A t \in Sessions : [snapshot[t] EXCEPT !.state = "deleted"] \in SnapshotRows
  BY ZenonT(40) DEF TypeOK, SnapshotRows, SnapshotStates
<1>8. snapshot' \in [Sessions -> SnapshotRows]
  BY <1>6, <1>7 DEF BeginCommit, DiscardSnapshots, TypeOK
<1>9. batches' \in [Sessions -> [Slots -> Payloads \cup {None}]]
  BY DEF BeginCommit, TypeOK
<1>10. call' \in [Sessions -> Calls] /\ reply' \in [Sessions -> Replies]
  BY IdleCallType DEF BeginCommit, TypeOK, Replies
<1> QED
  BY <1>5, <1>8, <1>9, <1>10, LapsedType DEF BeginCommit, TypeOK, pageVars

\* publish_batch keeps every type.
LEMMA PublishBatchType ==
    ASSUME TypeOK, NEW s \in Sessions, NEW o \in Owners, NEW x,
           NEW content \in Payloads, PublishBatch(s, o, x, content)
    PROVE  TypeOK'
<1>1. PICK now \in CallTimes :
         LET verdict == BatchVerdict(s, o, now, x, content) IN
         /\ reply' = [reply EXCEPT ![s] = verdict]
         /\ \/ /\ verdict = "accepted"
               /\ batches' = [batches EXCEPT ![s][x] = content]
               /\ session' = [session EXCEPT ![s].lease = now + Ttl]
            \/ /\ verdict # "accepted"
               /\ UNCHANGED <<batches, session>>
  BY DEF PublishBatch
<1>2. now + Ttl \in Nat
  BY PublicationAssumption DEF TypeOK, CallTimes
<1>3. reply' \in [Sessions -> Replies]
  BY <1>1, BatchVerdictType DEF TypeOK
<1>4. [session[s] EXCEPT !.lease = now + Ttl] \in SessionRows
  BY ZenonT(40), <1>2 DEF TypeOK, SessionRows
<1>5. session' \in [Sessions -> SessionRows] /\ batches' \in [Sessions -> [Slots -> Payloads \cup {None}]]
  <2>1. CASE BatchVerdict(s, o, now, x, content) = "accepted"
    <3>1. x \in Slots
      BY <2>1, BatchVerdictType
    <3>2. session' = [session EXCEPT ![s] = [session[s] EXCEPT !.lease = now + Ttl]]
      BY <1>1, <2>1
    <3>3. batches' = [batches EXCEPT ![s][x] = content]
      BY <1>1, <2>1
    <3> QED
      BY <1>4, <3>1, <3>2, <3>3 DEF TypeOK
  <2>2. CASE BatchVerdict(s, o, now, x, content) # "accepted"
    BY <1>1, <2>2 DEF TypeOK
  <2> QED
    BY <2>1, <2>2
<1> QED
  BY <1>3, <1>5, LapsedType DEF PublishBatch, TypeOK, pageVars

\* abort keeps every type.
LEMMA AbortType ==
    ASSUME TypeOK, NEW s \in Sessions, NEW o \in Owners, Abort(s, o)
    PROVE  TypeOK'
<1>1. reply' \in [Sessions -> Replies]
  BY AbortVerdictType DEF Abort, TypeOK, Replies
<1>2. CASE AbortVerdict(s, o) = "aborted"
  <2>1. [session[s] EXCEPT !.state = "aborted"] \in SessionRows
    BY ZenonT(40) DEF TypeOK, SessionRows, SessionStates
  <2>2. [snapshot[s] EXCEPT !.state = "failed"] \in SnapshotRows
    BY ZenonT(40) DEF TypeOK, SnapshotRows, SnapshotStates
  <2>3. session' \in [Sessions -> SessionRows]
    BY <1>2, <2>1 DEF Abort, TypeOK
  <2>4. snapshot' \in [Sessions -> SnapshotRows]
    BY <1>2, <2>2 DEF Abort, TypeOK
  <2>5. batches' = [batches EXCEPT ![s] = [x \in Slots |-> None]]
    BY <1>2 DEF Abort
  <2>6. batches' \in [Sessions -> [Slots -> Payloads \cup {None}]]
    BY <2>5 DEF TypeOK
  <2> QED
    BY <1>1, <2>3, <2>4, <2>6 DEF Abort, TypeOK, clockVars, pageVars
<1>3. CASE AbortVerdict(s, o) # "aborted"
  BY <1>1, <1>3 DEF Abort, TypeOK, clockVars, pageVars
<1> QED
  BY <1>2, <1>3

\* A finalize that rolls back keeps every type.
LEMMA ReturnType ==
    ASSUME TypeOK, NEW s \in Sessions, NEW answer \in Replies, Return(s, answer)
    PROVE  TypeOK'
BY IdleCallType DEF Return, TypeOK, clockVars, pageVars, storeVars

\* The row lock and the guard of finalize keep every type.
LEMMA FinalizeLockType ==
    ASSUME TypeOK, NEW s \in Sessions, NEW o \in Owners, FinalizeLock(s, o)
    PROVE  TypeOK'
<1>0. call[s] \in Calls
  BY DEF TypeOK
<1>1. PICK now \in CallTimes :
         LET verdict == FinalizeVerdict(s, o, now) IN
         \/ /\ verdict = "complete"
            /\ call' = [call EXCEPT ![s].phase = "locked", ![s].now = now]
            /\ UNCHANGED reply
         \/ /\ verdict # "complete"
            /\ reply' = [reply EXCEPT ![s] = verdict]
            /\ UNCHANGED call
  BY DEF FinalizeLock
<1>2. now \in Nat
  BY DEF TypeOK, CallTimes
<1>3. [call[s] EXCEPT !.phase = "locked", !.now = now] \in Calls
  BY <1>0, <1>2 DEF Calls, Phases
<1>4. CASE FinalizeVerdict(s, o, now) = "complete"
  BY ZenonT(40), <1>1, <1>3, <1>4 DEF FinalizeLock, TypeOK, clockVars, pageVars, storeVars
<1>5. CASE FinalizeVerdict(s, o, now) # "complete"
  <2>1. reply' \in [Sessions -> Replies]
    <3>1. FinalizeVerdict(s, o, now) \in Replies
      BY <1>5, FinalizeVerdictType
    <3> QED
      BY <1>1, <1>5, <3>1 DEF TypeOK
  <2> QED
    BY <1>1, <1>5, <2>1 DEF FinalizeLock, TypeOK, clockVars, pageVars, storeVars
<1> QED
  BY <1>4, <1>5

\* The steps of a finalize that is not answered yet, and is not there yet.
LEMMA FinalizeProgressType ==
    ASSUME TypeOK, NEW s \in Sessions,
           \/ FinalizeReadPages(s) \/ FinalizeAcquire(s)
           \/ FinalizeCheckBase(s) \/ FinalizeCheckGeneration(s)
    PROVE  TypeOK'
<1> USE DEF Replies
<1>0. call[s] \in Calls /\ pages \in Views
  BY DEF TypeOK
<1>1. \A ph \in Phases : [call[s] EXCEPT !.phase = ph] \in Calls
  BY <1>0 DEF Calls
<1>2. CASE FinalizeReadPages(s)
  <2>1. [call[s] EXCEPT !.phase = "read", !.view = pages] \in Calls
    BY <1>0 DEF Calls, Phases
  <2> QED
    BY <1>2, <2>1 DEF FinalizeReadPages, TypeOK, clockVars, pageVars, storeVars
<1>3. CASE FinalizeAcquire(s)
  BY <1>1, <1>3 DEF FinalizeAcquire, TypeOK, clockVars, pageVars, storeVars, Phases
<1>4. CASE FinalizeCheckBase(s)
  BY <1>1, <1>4, ReturnType DEF FinalizeCheckBase, TypeOK, clockVars, pageVars, storeVars, Phases
<1>5. CASE FinalizeCheckGeneration(s)
  BY <1>1, <1>5, ReturnType DEF FinalizeCheckGeneration, TypeOK, clockVars, pageVars, storeVars, Phases
<1> QED
  BY <1>2, <1>3, <1>4, <1>5

\* _activate keeps every type.
LEMMA FinalizeActivateType ==
    ASSUME TypeOK, RowsAgree, CallsHoldRows, NEW s \in Sessions, FinalizeActivate(s)
    PROVE  TypeOK'
<1>1. snapshot[s].payload \in Payloads
  BY DEF FinalizeActivate, CallsHoldRows, RowsAgree, RowLocked
<1>2. call[s] \in Calls
  BY DEF TypeOK
<1>3. TextsOf(call[s].view) \in MarkdownRevisions /\ Derive(call[s].view) \subseteq LinkRows
  BY <1>2, TextsOfType, DeriveType, PublicationAssumption DEF Calls
<1>4. [snapshot[s] EXCEPT !.state = "ready",
          !.revision = [payload |-> snapshot[s].payload,
                        markdown |-> TextsOf(call[s].view)],
          !.readyAt = call[s].now, !.mdRev = TextsOf(call[s].view)] \in SnapshotRows
  <2>1. snapshot[s] \in SnapshotRows
    BY DEF TypeOK
  <2>2. call[s].now \in Nat
    BY <1>2 DEF Calls
  <2>3. [payload |-> snapshot[s].payload, markdown |-> TextsOf(call[s].view)] \in Revisions
    BY <1>1, <1>3 DEF Revisions
  <2> QED
    BY <1>3, <2>1, <2>2, <2>3 DEF SnapshotRows, SnapshotStates
<1>5. snapshot' \in [Sessions -> SnapshotRows]
  BY <1>4 DEF FinalizeActivate, TypeOK
<1>6. [session[s] EXCEPT !.state = "ready"] \in SessionRows
  BY ZenonT(40) DEF TypeOK, SessionRows, SessionStates
<1>7. session' \in [Sessions -> SessionRows]
  BY <1>6 DEF FinalizeActivate, TypeOK
<1>8. rows' \in [Sessions -> [Tables -> Nat]]
  BY PublicationAssumption DEF FinalizeActivate, TypeOK, FullRows
<1>9. links' \in [Sessions -> SUBSET LinkRows]
  BY <1>3 DEF FinalizeActivate, TypeOK
<1>10. call' \in [Sessions -> Calls] /\ reply' \in [Sessions -> Replies]
  BY IdleCallType DEF FinalizeActivate, TypeOK, Replies
<1> QED
  BY <1>5, <1>7, <1>8, <1>9, <1>10 DEF FinalizeActivate, TypeOK, clockVars, pageVars

\* Every step keeps every type.
LEMMA NextType ==
    ASSUME TypeOK, RowsAgree, CallsHoldRows, [Next]_vars
    PROVE  TypeOK'
<1>1. CASE Tick
  BY <1>1, LapsedType DEF Tick, TypeOK, pageVars, storeVars
<1>2. CASE PageStep
  BY <1>2, PageStepType
<1>3. CASE \E s \in Sessions : PublisherStep(s)
  <2>1. PICK s \in Sessions : PublisherStep(s)
    BY <1>3
  <2>2. ASSUME NEW o \in Owners, NEW p \in Payloads, BeginCommit(s, o, p)
        PROVE  TypeOK'
    BY <2>2, BeginCommitType
  <2>6. ASSUME NEW o \in Owners, NEW x \in Slots \cup {BadSlot},
               NEW c \in Payloads, PublishBatch(s, o, x, c)
        PROVE  TypeOK'
    BY <2>6, PublishBatchType
  <2>7. ASSUME NEW o \in Owners, FinalizeLock(s, o) \/ Abort(s, o)
        PROVE  TypeOK'
    BY <2>7, FinalizeLockType, AbortType
  <2>3. CASE BeginSelect(s) \/ BeginDrop(s) \/ BeginReadGeneration(s) \/ BeginFail(s)
    BY <2>3, BeginSelectType, BeginProgressType
  <2>4. CASE FinalizeStep(s)
    <3>1. CASE FinalizePagesUnreadable(s)
      BY <3>1, ReturnType DEF FinalizePagesUnreadable, Replies
    <3>2. CASE FinalizeBusy(s)
      BY <3>2, ReturnType DEF FinalizeBusy, Replies
    <3>3. CASE FinalizeLinkRefused(s)
      BY <3>3, ReturnType DEF FinalizeLinkRefused, Replies
    <3>4. CASE FinalizeActivate(s)
      BY <3>4, FinalizeActivateType
    <3>5. CASE \/ FinalizeReadPages(s) \/ FinalizeAcquire(s)
               \/ FinalizeCheckBase(s) \/ FinalizeCheckGeneration(s)
      BY <3>5, FinalizeProgressType
    <3> QED
      BY <2>4, <3>1, <3>2, <3>3, <3>4, <3>5 DEF FinalizeStep
  <2>5. CASE FinalizeFail(s)
    BY <2>5, ReturnType DEF FinalizeFail, Replies
  <2> QED
    BY <2>1, <2>2, <2>3, <2>4, <2>5, <2>6, <2>7 DEF PublisherStep
<1>4. CASE UNCHANGED vars
  BY <1>4 DEF vars, TypeOK, clockVars, pageVars, storeVars
<1> QED
  BY <1>1, <1>2, <1>3, <1>4 DEF Next

-----------------------------------------------------------------------------
(* The invariant *)

\* The empty schema satisfies the inductive invariant.
LEMMA InitInv == Init => PublicationInv
<1> SUFFICES ASSUME Init PROVE PublicationInv
  OBVIOUS
<1>1. \A s \in Sessions : /\ session[s].state = "none" /\ snapshot[s].state = "none"
                         /\ call[s] = IdleCall
  BY DEF Init, NoSnapshot
<1>2. active = None /\ lock = None /\ None \notin Sessions
  BY PublicationAssumption DEF Init
<1>3. history[generation] = TextsOf(pages)
  BY DEF Init
<1>4. RowsAgree /\ GenerationNamesRevision
  BY <1>1 DEF RowsAgree, GenerationNamesRevision
<1>5. CallsHoldRows /\ BaseStaysChecked
  BY <1>1 DEF CallsHoldRows, BaseStaysChecked, IdleCall, RowLocked
<1>6. HoldersHold
  BY <1>1, <1>2 DEF HoldersHold, IdleCall
<1>7. ViewsAreHistory
  BY <1>1, <1>3 DEF ViewsAreHistory, IdleCall
<1> QED
  BY <1>2, <1>4, <1>5, <1>6, <1>7, InitType DEF PublicationInv, ActiveIsWhole

\* A step that moves no row, lock or call keeps the inductive invariant.
LEMMA QuietCallInv ==
    ASSUME PublicationInv, TypeOK', UNCHANGED <<pageVars, storeVars, lock, call>>
    PROVE  PublicationInv'
<1>3. \A s \in Sessions : Materialized(s)' = Materialized(s)
  BY MaterializedUnchanged DEF storeVars
<1>4. ActiveRevision' = ActiveRevision
  BY DEF ActiveRevision, storeVars
<1>5. RowsAgree' /\ GenerationNamesRevision' /\ HoldersHold'
  BY DEF PublicationInv, RowsAgree, GenerationNamesRevision, HoldersHold, storeVars, pageVars
<1>6. CallsHoldRows'
  BY <1>3 DEF PublicationInv, CallsHoldRows, RowLocked, storeVars, pageVars
<1>7. BaseStaysChecked'
  BY <1>4 DEF PublicationInv, BaseStaysChecked, storeVars
<1>8. ViewsAreHistory'
  BY DEF PublicationInv, ViewsAreHistory, storeVars, pageVars, TextsOf
<1>9. ActiveIsWhole'
  BY <1>3, PublicationAssumption DEF PublicationInv, ActiveIsWhole, storeVars, TypeOK
<1> QED
  BY <1>5, <1>6, <1>7, <1>8, <1>9 DEF PublicationInv

\* The clock moves no row, lock or call.
LEMMA TickInv ==
    ASSUME PublicationInv, Tick \/ UNCHANGED vars
    PROVE  PublicationInv'
<1>1. UNCHANGED <<pageVars, storeVars, lock, call>>
  BY DEF Tick, vars
<1>2. TypeOK'
  BY NextType DEF PublicationInv, Next
<1> QED
  BY <1>1, <1>2, QuietCallInv

\* A page step leaves the sessions and the calls alone; history only grows.
LEMMA PageStepInv ==
    ASSUME PublicationInv, PageStep
    PROVE  PublicationInv'
<1>0. PICK p \in Pages : \E row : SetPage(p, row)
  BY DEF PageStep, WritePage, UpdatePage, DeletePage
<1>1. PICK row : SetPage(p, row)
  BY <1>0
<1>2. UNCHANGED <<session, batches, snapshot, rows, active, lock, call>>
  BY <1>1 DEF SetPage
<1>3. /\ generation \in Nat /\ generation' = generation + 1
      /\ \A g \in 0..generation : history'[g] = history[g]
      /\ history'[generation'] = TextsOf(pages')
  BY <1>1 DEF SetPage, PublicationInv, TypeOK
<1>4. TypeOK'
  BY PageStepType DEF PublicationInv
<1>5. \A s \in Sessions : Materialized(s)' = Materialized(s)
  BY <1>2, MaterializedUnchanged
<1>6. ActiveRevision' = ActiveRevision
  BY <1>2 DEF ActiveRevision
<1>7. \A s \in Sessions : session[s].gen \in Nat /\ snapshot[s].mdGen \in Nat
  BY DEF PublicationInv, TypeOK, SessionRows, SnapshotRows
<1>8. RowsAgree'
  BY <1>2, <1>3, <1>7 DEF PublicationInv, RowsAgree
<1>9. CallsHoldRows' /\ HoldersHold'
  <2>1. \A s \in Sessions : call[s].gen \in Nat
    BY DEF PublicationInv, TypeOK, Calls
  <2> QED
    BY <1>2, <1>3, <1>5, <2>1 DEF PublicationInv, CallsHoldRows, RowLocked, HoldersHold
<1>10. BaseStaysChecked'
  BY <1>2, <1>6 DEF PublicationInv, BaseStaysChecked
<1>11. ActiveIsWhole'
  BY <1>2, <1>5, PublicationAssumption DEF PublicationInv, ActiveIsWhole, TypeOK
<1>12. GenerationNamesRevision'
  BY <1>2, <1>3, <1>7 DEF PublicationInv, GenerationNamesRevision, ViewsAreHistory
<1>13. ASSUME NEW s \in Sessions,
              call[s].phase \in {"read", "holding", "based"}
       PROVE  \E g \in session[s].gen..generation' : TextsOf(call[s].view) = history'[g]
  <2>1. PICK g \in session[s].gen..generation : TextsOf(call[s].view) = history[g]
    BY <1>13 DEF PublicationInv, ViewsAreHistory
  <2> QED
    BY <1>3, <1>7, <2>1
<1>14. ASSUME NEW s \in Sessions, call[s].phase = "checked"
       PROVE  TextsOf(call[s].view) = history'[session[s].gen]
  BY <1>3, <1>7, <1>14 DEF PublicationInv, ViewsAreHistory, CallsHoldRows, RowsAgree, RowLocked
<1>15. \A s \in Sessions : snapshot[s].state = "ready" => snapshot[s].mdGen <= generation'
  BY <1>3, <1>7 DEF PublicationInv, ViewsAreHistory
<1>16. \A s \in Sessions : TextsOf(call'[s].view) = TextsOf(call[s].view)
  BY <1>2
<1>17. ViewsAreHistory'
  BY <1>2, <1>3, <1>13, <1>14, <1>15, <1>16 DEF ViewsAreHistory, TextsOf
<1> QED
  BY <1>4, <1>8, <1>9, <1>10, <1>11, <1>12, <1>17 DEF PublicationInv

-----------------------------------------------------------------------------
(* Steps of a publisher on its own session *)

\* A finalize holds its row against every begin, and leaves what it dropped alone.
LEMMA DroppedStay ==
    ASSUME TypeOK, CallsHoldRows, NEW s \in Sessions,
           RowLocked(s) \/ ~BeingDropped(s),
           call'[s].dropped = call[s].dropped,
           \A t \in Sessions \ {s} : call'[t] = call[t]
    PROVE  ~BeingDropped(s) /\ \A e \in call'[s].dropped : ~RowLocked(e)'
<1>1. ~BeingDropped(s)
  BY DEF CallsHoldRows, BeingDropped
<1>2. s \notin call[s].dropped /\ call[s].dropped \subseteq Sessions
  BY <1>1 DEF BeingDropped, TypeOK, Calls
<1> QED
  BY <1>1, <1>2 DEF CallsHoldRows, RowLocked

\* What is to be shown of the one call that moves.
LEMMA CallsHeld ==
    ASSUME TypeOK, CallsHoldRows, NEW s \in Sessions,
           UNCHANGED <<pageVars, storeVars>>,
           \A t \in Sessions \ {s} : call'[t] = call[t],
           call'[s].phase \in {"cleaning", "counted"} => session[s].state = "none",
           \A e \in call'[s].expired \cup call'[s].dropped : session[e].state # "none",
           \A e \in call'[s].dropped : ~RowLocked(e)',
           RowLocked(s)' => ~BeingDropped(s),
           RowLocked(s)' => session[s].state = "staging" /\ Materialized(s) = "complete",
           call'[s].phase = "counted" => call'[s].gen <= generation
    PROVE  CallsHoldRows'
<1>1. UNCHANGED <<session, generation>>
      /\ \A t \in Sessions : Materialized(t)' = Materialized(t)
  BY MaterializedUnchanged DEF storeVars, pageVars
<1>2. \A t \in Sessions \ {s} : call'[t].dropped = call[t].dropped
                               /\ RowLocked(t)' = RowLocked(t)
                               /\ call[t].dropped \subseteq Sessions
  BY DEF RowLocked, TypeOK, Calls
<1>3. ASSUME NEW t \in Sessions, NEW e \in call'[t].dropped
      PROVE  ~RowLocked(e)'
  <2>1. CASE t = s
    BY <2>1
  <2>2. CASE t # s /\ e = s
    BY <1>2, <2>2 DEF BeingDropped
  <2>3. CASE t # s /\ e # s
    BY <1>2, <2>3 DEF CallsHoldRows
  <2> QED
    BY <2>1, <2>2, <2>3
<1>4. \A t \in Sessions : RowLocked(t)' => session'[t].state = "staging"
                                          /\ Materialized(t)' = "complete"
  BY <1>1, <1>2 DEF CallsHoldRows
<1>5. \A t \in Sessions : \A e \in call'[t].expired \cup call'[t].dropped :
         session'[e].state # "none"
  BY <1>1 DEF CallsHoldRows
<1>6. \A t \in Sessions :
         /\ call'[t].phase \in {"cleaning", "counted"} => session'[t].state = "none"
         /\ call'[t].phase = "counted" => call'[t].gen <= generation'
  BY <1>1 DEF CallsHoldRows
<1> QED
  BY <1>3, <1>4, <1>5, <1>6 DEF CallsHoldRows

\* What a begin holds before its commit: fresh ids, and rows nobody else holds.
LEMMA BeginStepHeld ==
    ASSUME TypeOK, CallsHoldRows, NEW s \in Sessions,
           BeginSelect(s) \/ BeginDrop(s) \/ BeginReadGeneration(s) \/ BeginFail(s)
    PROVE  /\ TypeOK' /\ UNCHANGED <<clockVars, pageVars, storeVars, lock>>
           /\ call[s].phase \in {"idle", "cleaning", "counted"}
           /\ call'[s].phase \in {"idle", "cleaning", "counted"}
           /\ call'[s].phase # "idle" => session[s].state = "none"
           /\ \A t \in Sessions \ {s} : call'[t] = call[t]
           /\ \A e \in call'[s].expired \cup call'[s].dropped : session[e].state # "none"
           /\ \A e \in call'[s].dropped : ~RowLocked(e)'
           /\ call'[s].phase = "counted" => call'[s].gen <= generation
           /\ ~RowLocked(s)'
<1>1. call[s] \in Calls /\ generation \in Nat
  BY DEF TypeOK
<1>2. CASE BeginSelect(s)
  <2>1. PICK now \in CallTimes : \E E \in OldestExpired(now) :
           call' = [call EXCEPT ![s] = [IdleCall EXCEPT !.phase = "cleaning",
                                                        !.now = now,
                                                        !.expired = E]]
    BY <1>2 DEF BeginSelect
  <2>2. PICK E \in OldestExpired(now) :
           call' = [call EXCEPT ![s] = [IdleCall EXCEPT !.phase = "cleaning",
                                                        !.now = now,
                                                        !.expired = E]]
    BY <2>1
  <2>3. \A e \in E : session[e].state # "none"
    BY DEF OldestExpired, ExpiredStaging, Dead
  <2>4. /\ call'[s].phase = "cleaning" /\ call'[s].expired = E /\ call'[s].dropped = {}
        /\ \A t \in Sessions \ {s} : call'[t] = call[t]
    BY <2>2 DEF IdleCall, TypeOK
  <2> QED
    BY <1>2, <2>3, <2>4, BeginSelectType DEF BeginSelect, RowLocked
<1>3. CASE BeginDrop(s)
  <2>1. TypeOK' /\ UNCHANGED <<clockVars, pageVars, storeVars, lock>>
        /\ \A t \in Sessions \ {s} : call'[t] = call[t]
    BY <1>3, BeginProgressType
  <2>2. PICK e \in call[s].expired :
           /\ Droppable(e)
           /\ call' = [call EXCEPT ![s].expired = @ \ {e},
                                   ![s].dropped = IF session[e].state = "deleted"
                                                  THEN @ ELSE @ \cup {e}]
    BY <1>3 DEF BeginDrop
  <2>3. /\ call'[s].phase = "cleaning" /\ call'[s].expired \subseteq call[s].expired
        /\ call'[s].dropped \subseteq call[s].dropped \cup {e}
    BY <1>1, <1>3, <2>2 DEF BeginDrop, TypeOK, Calls
  <2>4. \A x \in Sessions : RowLocked(x)' = RowLocked(x)
    BY <1>3, <2>1, <2>3 DEF RowLocked, BeginDrop
  <2>5. e \in Sessions /\ call[s].dropped \subseteq Sessions
    BY <1>1 DEF Calls
  <2>6. \A x \in call'[s].dropped : ~RowLocked(x)'
    BY <2>2, <2>3, <2>4, <2>5 DEF CallsHoldRows, Droppable
  <2>7. \A x \in call'[s].expired \cup call'[s].dropped : session[x].state # "none"
    BY <2>2, <2>3 DEF CallsHoldRows
  <2>8. call[s].phase = "cleaning" /\ session[s].state = "none"
    BY <1>3 DEF BeginDrop, CallsHoldRows
  <2> QED
    BY <2>1, <2>3, <2>6, <2>7, <2>8 DEF RowLocked
<1>4. CASE BeginReadGeneration(s)
  <2>1. TypeOK' /\ UNCHANGED <<clockVars, pageVars, storeVars, lock>>
        /\ \A t \in Sessions \ {s} : call'[t] = call[t]
    BY <1>4, BeginProgressType
  <2>2. /\ call'[s].phase = "counted" /\ call'[s].gen = generation
        /\ call'[s].expired = call[s].expired /\ call'[s].dropped = call[s].dropped
    BY <1>1, <1>4 DEF BeginReadGeneration, TypeOK, Calls
  <2>3. call[s].phase = "cleaning" /\ session[s].state = "none"
    BY <1>4 DEF BeginReadGeneration, CallsHoldRows
  <2>4. \A t \in Sessions \ {s} : RowLocked(t)' = RowLocked(t)
    BY <2>1 DEF RowLocked
  <2>5. ~RowLocked(s)'
    BY <2>2 DEF RowLocked
  <2>6. call[s].dropped \subseteq Sessions
    BY <1>1 DEF Calls
  <2>7. \A x \in call'[s].dropped : ~RowLocked(x)'
    BY <2>2, <2>4, <2>5, <2>6 DEF CallsHoldRows
  <2>8. \A x \in call'[s].expired \cup call'[s].dropped : session[x].state # "none"
    BY <2>2 DEF CallsHoldRows
  <2> QED
    BY <1>1, <2>1, <2>2, <2>3, <2>5, <2>7, <2>8
<1>5. CASE BeginFail(s)
  <2>1. TypeOK' /\ UNCHANGED <<clockVars, pageVars, storeVars, lock>>
        /\ \A t \in Sessions \ {s} : call'[t] = call[t]
    BY <1>5, BeginProgressType
  <2>2. call'[s] = IdleCall /\ call[s].phase \in {"cleaning", "counted"}
    BY <1>5 DEF BeginFail, TypeOK
  <2> QED
    BY <2>1, <2>2 DEF RowLocked, IdleCall
<1> QED
  BY <1>2, <1>3, <1>4, <1>5

\* Only the call of s moves: the others keep what they hold.
LEMMA CallOnlyInv ==
    ASSUME PublicationInv, TypeOK', NEW s \in Sessions,
           UNCHANGED <<pageVars, storeVars>>,
           \A t \in Sessions \ {s} : call'[t] = call[t] /\ (lock' = t <=> lock = t),
           call'[s].phase \in {"cleaning", "counted"} => session[s].state = "none",
           \A e \in call'[s].expired \cup call'[s].dropped : session[e].state # "none",
           \A e \in call'[s].dropped : ~RowLocked(e)',
           RowLocked(s)' => ~BeingDropped(s),
           call'[s].phase = "counted" => call'[s].gen <= generation,
           RowLocked(s)' => session[s].state = "staging" /\ Materialized(s) = "complete",
           lock' = s <=> call'[s].phase \in {"holding", "based", "checked"},
           call'[s].phase \in {"based", "checked"} => ActiveRevision = session[s].base,
           call'[s].phase \in {"read", "holding", "based"} =>
              \E g \in session[s].gen..generation : TextsOf(call'[s].view) = history[g],
           call'[s].phase = "checked" => TextsOf(call'[s].view) = history[session[s].gen]
    PROVE  PublicationInv'
<1>1. \A t \in Sessions : Materialized(t)' = Materialized(t)
  BY MaterializedUnchanged DEF storeVars
<1>2. ActiveRevision' = ActiveRevision
  BY DEF ActiveRevision, storeVars
<1>3. RowsAgree' /\ GenerationNamesRevision'
  BY DEF PublicationInv, RowsAgree, GenerationNamesRevision, storeVars, clockVars, pageVars
<1>4. CallsHoldRows'
  BY CallsHeld DEF PublicationInv
<1>5. HoldersHold'
  BY DEF PublicationInv, HoldersHold
<1>6. BaseStaysChecked'
  BY <1>2 DEF PublicationInv, BaseStaysChecked, storeVars
<1>7. ViewsAreHistory'
  <2>1. UNCHANGED <<session, snapshot, pages, generation, history>>
    BY DEF storeVars, clockVars, pageVars
  <2>2. \A t \in Sessions \ {s} : call'[t].phase = call[t].phase
                                 /\ TextsOf(call'[t].view) = TextsOf(call[t].view)
    OBVIOUS
  <2>3. ViewsAreHistory
    BY DEF PublicationInv
  <2>4. history'[generation'] = TextsOf(pages')
    BY <2>1, <2>3 DEF ViewsAreHistory
  <2>5. ASSUME NEW t \in Sessions,
               call'[t].phase \in {"read", "holding", "based"}
        PROVE  \E g \in session'[t].gen..generation' : TextsOf(call'[t].view) = history'[g]
    <3>1. CASE t = s
      BY <2>1, <2>5, <3>1
    <3>2. CASE t # s
      BY <2>1, <2>2, <2>3, <2>5, <3>2 DEF ViewsAreHistory
    <3> QED
      BY <3>1, <3>2
  <2>6. ASSUME NEW t \in Sessions, call'[t].phase = "checked"
        PROVE  TextsOf(call'[t].view) = history'[session'[t].gen]
    BY <2>1, <2>2, <2>3, <2>6 DEF ViewsAreHistory
  <2>7. \A t \in Sessions : snapshot'[t].state = "ready" => snapshot'[t].mdGen <= generation'
    BY <2>1, <2>3 DEF ViewsAreHistory
  <2> QED
    BY <2>4, <2>5, <2>6, <2>7 DEF ViewsAreHistory, TextsOf
<1>8. ActiveIsWhole'
  BY <1>1, PublicationAssumption DEF PublicationInv, ActiveIsWhole, storeVars, TypeOK
<1> QED
  BY <1>3, <1>4, <1>5, <1>6, <1>7, <1>8 DEF PublicationInv

\* A finalize that rolls back keeps the inductive invariant.
LEMMA ReturnInv ==
    ASSUME PublicationInv, NEW s \in Sessions, NEW answer \in Replies,
           Return(s, answer)
    PROVE  PublicationInv'
<1>1. TypeOK'
  BY ReturnType DEF PublicationInv
<1>2. call'[s] = IdleCall /\ \A t \in Sessions \ {s} : call'[t] = call[t]
  BY DEF Return, PublicationInv, TypeOK
<1>3. lock' # s /\ \A t \in Sessions \ {s} : (lock' = t) <=> (lock = t)
  BY PublicationAssumption DEF Return
<1> QED
  BY <1>1, <1>2, <1>3, CallOnlyInv DEF Return, IdleCall, RowLocked

\* A statement of finalize that writes no table keeps the inductive
\* invariant.
LEMMA CallStepInv ==
    ASSUME PublicationInv, NEW s \in Sessions,
           \/ BeginSelect(s) \/ BeginDrop(s) \/ BeginReadGeneration(s) \/ BeginFail(s)
           \/ \E o \in Owners : FinalizeLock(s, o)
           \/ FinalizeReadPages(s) \/ FinalizeAcquire(s)
           \/ FinalizeCheckBase(s) \/ FinalizeCheckGeneration(s)
    PROVE  PublicationInv'
<1>1. TypeOK /\ RowsAgree /\ CallsHoldRows /\ HoldersHold /\ ViewsAreHistory
  BY DEF PublicationInv
<1>2. call[s] \in Calls /\ None # s
  BY <1>1, PublicationAssumption DEF TypeOK
<1>3. CASE BeginSelect(s) \/ BeginDrop(s) \/ BeginReadGeneration(s) \/ BeginFail(s)
  <2>1. lock # s
    BY <1>1, <1>3, BeginStepHeld DEF HoldersHold
  <2> QED
    BY <1>1, <1>3, <2>1, BeginStepHeld, CallOnlyInv
<1>4. ASSUME NEW o \in Owners, FinalizeLock(s, o)
      PROVE  PublicationInv'
  <2>1. TypeOK'
    BY <1>1, <1>4, FinalizeLockType
  <2>2. PICK now \in CallTimes :
           LET verdict == FinalizeVerdict(s, o, now) IN
           \/ /\ verdict = "complete"
              /\ call' = [call EXCEPT ![s].phase = "locked", ![s].now = now]
           \/ /\ verdict # "complete"
              /\ UNCHANGED call
    BY <1>4 DEF FinalizeLock
  <2>3. CASE FinalizeVerdict(s, o, now) = "complete"
    <3>1. session[s].state = "staging" /\ Materialized(s) = "complete"
      BY <1>1, <2>3, FinalizeVerdictType
    <3>2. call' = [call EXCEPT ![s].phase = "locked", ![s].now = now]
      BY <2>2, <2>3
    <3>3. call'[s].phase = "locked" /\ call'[s].expired = call[s].expired
          /\ call'[s].dropped = call[s].dropped
          /\ \A t \in Sessions \ {s} : call'[t] = call[t]
      BY <1>1, <1>2, <3>2 DEF TypeOK, Calls
    <3>4. ~BeingDropped(s) /\ \A e \in call'[s].dropped : ~RowLocked(e)'
      BY <1>1, <1>4, <3>3, DroppedStay DEF FinalizeLock
    <3> QED
      BY <1>1, <1>4, <2>1, <3>1, <3>3, <3>4, CallOnlyInv
         DEF FinalizeLock, HoldersHold, CallsHoldRows
  <2>4. CASE FinalizeVerdict(s, o, now) # "complete"
    <3>1. UNCHANGED <<pageVars, storeVars, lock, call>>
      BY <1>4, <2>2, <2>4 DEF FinalizeLock
    <3> QED
      BY <2>1, <3>1, QuietCallInv
  <2> QED
    BY <2>3, <2>4
<1>5. CASE FinalizeReadPages(s)
  <2>1. TypeOK'
    BY <1>1, <1>5, FinalizeProgressType
  <2>2. /\ call'[s].phase = "read" /\ call'[s].view = pages
        /\ call'[s].expired = call[s].expired /\ call'[s].dropped = call[s].dropped
        /\ \A t \in Sessions \ {s} : call'[t] = call[t]
    BY <1>1, <1>2, <1>5 DEF FinalizeReadPages, TypeOK, Calls
  <2>3. session[s].state = "staging" /\ Materialized(s) = "complete"
    BY <1>1, <1>5 DEF FinalizeReadPages, CallsHoldRows, RowLocked
  <2>4. generation \in session[s].gen..generation
    BY <1>1, <2>3 DEF RowsAgree, TypeOK, SessionRows
  <2>5. TextsOf(call'[s].view) = history[generation]
    BY <1>1, <2>2 DEF ViewsAreHistory
  <2>6. ~BeingDropped(s) /\ \A e \in call'[s].dropped : ~RowLocked(e)'
    BY <1>1, <1>5, <2>2, DroppedStay DEF FinalizeReadPages, RowLocked
  <2> QED
    BY <1>1, <1>5, <2>1, <2>2, <2>3, <2>4, <2>5, <2>6, CallOnlyInv
       DEF FinalizeReadPages, HoldersHold, CallsHoldRows
<1>6. CASE FinalizeAcquire(s)
  <2>1. TypeOK'
    BY <1>1, <1>6, FinalizeProgressType
  <2>2. /\ call'[s].phase = "holding" /\ call'[s].view = call[s].view
        /\ call'[s].expired = call[s].expired /\ call'[s].dropped = call[s].dropped
        /\ \A t \in Sessions \ {s} : call'[t] = call[t]
    BY <1>1, <1>2, <1>6 DEF FinalizeAcquire, TypeOK, Calls
  <2>3. lock' = s /\ \A t \in Sessions \ {s} : lock' # t /\ lock # t
    BY <1>6, PublicationAssumption DEF FinalizeAcquire, LockFree
  <2>4. session[s].state = "staging" /\ Materialized(s) = "complete"
    BY <1>1, <1>6 DEF FinalizeAcquire, CallsHoldRows, RowLocked
  <2>5. \E g \in session[s].gen..generation : TextsOf(call'[s].view) = history[g]
    BY <1>1, <1>6, <2>2 DEF FinalizeAcquire, ViewsAreHistory
  <2>6. ~BeingDropped(s) /\ \A e \in call'[s].dropped : ~RowLocked(e)'
    BY <1>1, <1>6, <2>2, DroppedStay DEF FinalizeAcquire, RowLocked
  <2> QED
    BY <1>1, <1>6, <2>1, <2>2, <2>3, <2>4, <2>5, <2>6, CallOnlyInv
       DEF FinalizeAcquire, CallsHoldRows
<1>7. CASE FinalizeCheckBase(s)
  <2>1. CASE BaseUnchanged(s)
    <3>1. TypeOK'
      BY <1>1, <1>7, FinalizeProgressType
    <3>2. call' = [call EXCEPT ![s].phase = "based"]
          /\ UNCHANGED <<clockVars, pageVars, storeVars, lock>>
      BY <1>7, <2>1 DEF FinalizeCheckBase
    <3>3. /\ call'[s].phase = "based" /\ call'[s].view = call[s].view
          /\ call'[s].expired = call[s].expired /\ call'[s].dropped = call[s].dropped
          /\ \A t \in Sessions \ {s} : call'[t] = call[t]
      BY <1>1, <1>2, <3>2 DEF TypeOK, Calls
    <3>4. session[s].state = "staging" /\ Materialized(s) = "complete"
      BY <1>1, <1>7 DEF FinalizeCheckBase, CallsHoldRows, RowLocked
    <3>5. \E g \in session[s].gen..generation : TextsOf(call'[s].view) = history[g]
      BY <1>1, <1>7, <3>3 DEF FinalizeCheckBase, ViewsAreHistory
    <3>6. lock' = s /\ \A t \in Sessions \ {s} : (lock' = t) <=> (lock = t)
      BY <1>1, <1>7, <3>2 DEF FinalizeCheckBase, HoldersHold
    <3>7. ~BeingDropped(s) /\ \A e \in call'[s].dropped : ~RowLocked(e)'
      BY <1>1, <1>7, <3>3, DroppedStay DEF FinalizeCheckBase, RowLocked
    <3> QED
      BY <1>1, <2>1, <3>1, <3>2, <3>3, <3>4, <3>5, <3>6, <3>7, CallOnlyInv
         DEF BaseUnchanged, CallsHoldRows
  <2>2. CASE ~BaseUnchanged(s)
    BY <1>7, <2>2, ReturnInv DEF FinalizeCheckBase, Replies
  <2> QED
    BY <2>1, <2>2
<1>8. CASE FinalizeCheckGeneration(s)
  <2>1. CASE GenerationUnchanged(s)
    <3>1. TypeOK'
      BY <1>1, <1>8, FinalizeProgressType
    <3>2. call' = [call EXCEPT ![s].phase = "checked"]
          /\ UNCHANGED <<clockVars, pageVars, storeVars, lock>>
      BY <1>8, <2>1 DEF FinalizeCheckGeneration
    <3>3. /\ call'[s].phase = "checked" /\ call'[s].view = call[s].view
          /\ call'[s].expired = call[s].expired /\ call'[s].dropped = call[s].dropped
          /\ \A t \in Sessions \ {s} : call'[t] = call[t]
      BY <1>1, <1>2, <3>2 DEF TypeOK, Calls
    <3>4. session[s].state = "staging" /\ Materialized(s) = "complete"
      BY <1>1, <1>8 DEF FinalizeCheckGeneration, CallsHoldRows, RowLocked
    <3>5. PICK g \in session[s].gen..generation : TextsOf(call[s].view) = history[g]
      BY <1>1, <1>8 DEF FinalizeCheckGeneration, ViewsAreHistory
    <3>6. g = session[s].gen
      BY <1>1, <2>1, <3>5 DEF GenerationUnchanged, TypeOK, SessionRows
    <3>7. lock' = s /\ \A t \in Sessions \ {s} : (lock' = t) <=> (lock = t)
      BY <1>1, <1>8, <3>2 DEF FinalizeCheckGeneration, HoldersHold
    <3>8. ActiveRevision = session[s].base
      BY <1>8 DEF PublicationInv, BaseStaysChecked, FinalizeCheckGeneration
    <3>9. ~BeingDropped(s) /\ \A e \in call'[s].dropped : ~RowLocked(e)'
      BY <1>1, <1>8, <3>3, DroppedStay DEF FinalizeCheckGeneration, RowLocked
    <3> QED
      BY <1>1, <3>1, <3>2, <3>3, <3>4, <3>5, <3>6, <3>7, <3>8, <3>9, CallOnlyInv
         DEF CallsHoldRows
  <2>2. CASE ~GenerationUnchanged(s)
    BY <1>8, <2>2, ReturnInv DEF FinalizeCheckGeneration, Replies
  <2> QED
    BY <2>1, <2>2
<1> QED
  BY <1>3, <1>4, <1>5, <1>6, <1>7, <1>8

\* The rows of a session nobody holds may move while it is staging: the active
\* snapshot is not among them.
LEMMA StagingRowsInv ==
    ASSUME PublicationInv, TypeOK', NEW s \in Sessions,
           call[s].phase = "idle", session[s].state \in {"staging", "aborted"},
           UNCHANGED <<pageVars, rows, active, lock, call>>,
           \A t \in Sessions \ {s} :
              session'[t] = session[t] /\ batches'[t] = batches[t]
              /\ snapshot'[t] = snapshot[t],
           \/ /\ session'[s].state = session[s].state
              /\ session'[s].gen = session[s].gen
              /\ snapshot'[s] = snapshot[s]
           \/ session'[s].state = "aborted" /\ snapshot'[s].state = "failed"
    PROVE  PublicationInv'
<1>1. /\ TypeOK /\ RowsAgree /\ CallsHoldRows /\ HoldersHold /\ BaseStaysChecked
      /\ ViewsAreHistory /\ ActiveIsWhole /\ GenerationNamesRevision
  BY DEF PublicationInv
<1>2. active # s /\ None \notin Sessions
  BY <1>1, PublicationAssumption DEF RowsAgree, ActiveIsWhole
<1>3. \A t \in Sessions \ {s} : Materialized(t)' = Materialized(t)
  BY MaterializedUnchanged
<1>4. ActiveRevision' = ActiveRevision
  BY <1>1, <1>2 DEF ActiveRevision, TypeOK
<1>5. UNCHANGED <<pages, generation, history>>
  BY DEF clockVars, pageVars
<1>6. RowsAgree'
  BY <1>1, <1>5 DEF RowsAgree
<1>7. CallsHoldRows'
  <2>1. \A t \in Sessions : RowLocked(t)' = RowLocked(t)
    BY DEF RowLocked
  <2>2. ~RowLocked(s)
    BY DEF RowLocked
  <2>3. session'[s].state # "none"
    OBVIOUS
  <2>4. \A t \in Sessions : call[t].expired \subseteq Sessions /\ call[t].dropped \subseteq Sessions
    BY <1>1 DEF TypeOK, Calls
  <2>5. \A t \in Sessions : \A e \in call[t].expired \cup call[t].dropped :
           session'[e].state # "none"
    BY <1>1, <2>3, <2>4 DEF CallsHoldRows
  <2>6. \A t \in Sessions : RowLocked(t)' => session'[t].state = "staging"
                                            /\ Materialized(t)' = "complete"
    BY <1>1, <1>3, <2>1, <2>2 DEF CallsHoldRows
  <2>7. \A t \in Sessions : call[t].phase \in {"cleaning", "counted"} => session'[t].state = "none"
    BY <1>1 DEF CallsHoldRows
  <2>8. \A t \in Sessions : \A e \in call[t].dropped : ~RowLocked(e)'
    BY <1>1, <2>1, <2>4 DEF CallsHoldRows
  <2> QED
    BY <1>1, <1>5, <2>5, <2>6, <2>7, <2>8 DEF CallsHoldRows
<1>8. HoldersHold'
  BY <1>1 DEF HoldersHold
<1>9. BaseStaysChecked'
  BY <1>1, <1>4 DEF BaseStaysChecked
<1>10. ViewsAreHistory'
  <2>1. \A t \in Sessions : TextsOf(call'[t].view) = TextsOf(call[t].view)
    OBVIOUS
  <2>2. \A t \in Sessions : snapshot'[t].state = "ready" => snapshot'[t].mdGen <= generation'
    BY <1>1, <1>5 DEF ViewsAreHistory, RowsAgree
  <2>3. history'[generation'] = TextsOf(pages')
    BY <1>1, <1>5 DEF ViewsAreHistory
  <2>4. \A t \in Sessions :
           /\ call'[t].phase \in {"read", "holding", "based"} =>
                 \E g \in session'[t].gen..generation' :
                    TextsOf(call'[t].view) = history'[g]
           /\ call'[t].phase = "checked" =>
                 TextsOf(call'[t].view) = history'[session'[t].gen]
    BY <1>1, <1>5, <2>1 DEF ViewsAreHistory
  <2> QED
    BY <2>2, <2>3, <2>4 DEF ViewsAreHistory, TextsOf
<1>11. ActiveIsWhole'
  BY <1>1, <1>2, <1>3 DEF ActiveIsWhole, TypeOK
<1>12. GenerationNamesRevision'
  BY <1>1, <1>5 DEF GenerationNamesRevision, RowsAgree
<1> QED
  BY <1>6, <1>7, <1>8, <1>9, <1>10, <1>11, <1>12 DEF PublicationInv

\* publish_batch keeps the inductive invariant: the session row it writes is
\* not locked.
LEMMA PublishBatchInv ==
    ASSUME PublicationInv, NEW s \in Sessions, NEW o \in Owners,
           NEW x \in Slots \cup {BadSlot}, NEW content \in Payloads,
           PublishBatch(s, o, x, content)
    PROVE  PublicationInv'
<1>1. TypeOK /\ TypeOK'
  BY PublishBatchType DEF PublicationInv
<1>2. PICK now \in CallTimes :
         LET verdict == BatchVerdict(s, o, now, x, content) IN
         \/ /\ verdict = "accepted"
            /\ batches' = [batches EXCEPT ![s][x] = content]
            /\ session' = [session EXCEPT ![s].lease = now + Ttl]
         \/ /\ verdict # "accepted"
            /\ UNCHANGED <<batches, session>>
  BY DEF PublishBatch
<1>3. CASE BatchVerdict(s, o, now, x, content) = "accepted"
  <2>1. session[s].state = "staging"
    BY <1>3, BatchVerdictType
  <2>2. session' = [session EXCEPT ![s].lease = now + Ttl]
        /\ batches' = [batches EXCEPT ![s][x] = content]
    BY <1>2, <1>3
  <2>3. session'[s].state = session[s].state /\ session'[s].gen = session[s].gen
    BY <1>1, <2>2 DEF TypeOK, SessionRows
  <2>4. \A t \in Sessions \ {s} : session'[t] = session[t] /\ batches'[t] = batches[t]
    BY <1>1, <2>2 DEF TypeOK
  <2> QED
    BY <1>1, <2>1, <2>3, <2>4, StagingRowsInv DEF PublishBatch
<1>4. CASE BatchVerdict(s, o, now, x, content) # "accepted"
  <2>1. UNCHANGED <<pageVars, storeVars, lock, call>>
    BY <1>2, <1>4 DEF PublishBatch, storeVars
  <2> QED
    BY <1>1, <2>1, QuietCallInv
<1> QED
  BY <1>3, <1>4

\* abort keeps the inductive invariant.
LEMMA AbortInv ==
    ASSUME PublicationInv, NEW s \in Sessions, NEW o \in Owners, Abort(s, o)
    PROVE  PublicationInv'
<1>1. TypeOK /\ TypeOK'
  BY AbortType DEF PublicationInv
<1>2. CASE AbortVerdict(s, o) = "aborted"
  <2>1. session[s].state \in {"staging", "aborted"}
    BY <1>2, AbortVerdictType
  <2>2. /\ session' = [session EXCEPT ![s].state = "aborted"]
        /\ batches' = [batches EXCEPT ![s] = [y \in Slots |-> None]]
        /\ snapshot' = [snapshot EXCEPT ![s].state = "failed"]
    BY <1>2 DEF Abort
  <2>3. session'[s].state = "aborted" /\ snapshot'[s].state = "failed"
    BY <1>1, <2>2 DEF TypeOK, SessionRows, SnapshotRows
  <2>4. \A t \in Sessions \ {s} : session'[t] = session[t] /\ batches'[t] = batches[t]
                                 /\ snapshot'[t] = snapshot[t]
    BY <1>1, <2>2 DEF TypeOK
  <2> QED
    BY <1>1, <2>1, <2>3, <2>4, StagingRowsInv DEF Abort
<1>3. CASE AbortVerdict(s, o) # "aborted"
  <2>1. UNCHANGED <<pageVars, storeVars, lock, call>>
    BY <1>3 DEF Abort, storeVars
  <2> QED
    BY <1>1, <2>1, QuietCallInv
<1> QED
  BY <1>2, <1>3

\* Where a begin leaves the session, the snapshot and the batches of every t.
LEMMA BeginCommitRows ==
    ASSUME TypeOK, CallsHoldRows, NEW s \in Sessions, NEW o \in Owners, NEW p \in Payloads,
           BeginCommit(s, o, p)
    PROVE  /\ session'[s] = [state |-> "staging", owner |-> o,
                             lease |-> call[s].now + Ttl,
                             base |-> ActiveRevision, gen |-> call[s].gen]
           /\ snapshot'[s].state = "staging" /\ snapshot'[s].payload = p
           /\ snapshot'[s].mdGen = call[s].gen
           /\ session[s].state = "none" /\ ~RowLocked(s)
           /\ call'[s] = IdleCall
           /\ \A t \in Sessions \ {s} :
                 /\ call'[t] = call[t]
                 /\ \/ /\ session'[t] = session[t] /\ snapshot'[t] = snapshot[t]
                       /\ batches'[t] = batches[t]
                    \/ /\ session[t].state # "none" /\ ~RowLocked(t)
                       /\ session'[t].state = "deleted"
                       /\ \/ snapshot'[t] = snapshot[t]
                          \/ /\ snapshot[t].state = "staging"
                             /\ snapshot'[t].state = "deleted"
                             /\ snapshot'[t].revision = snapshot[t].revision
<1>1. TypeOK /\ CallsHoldRows
  OBVIOUS
<1>2. session[s].state = "none" /\ ~RowLocked(s)
  BY <1>1 DEF BeginCommit, CallsHoldRows, RowLocked
<1>3. call'[s] = IdleCall /\ \A t \in Sessions \ {s} : call'[t] = call[t]
  BY <1>1 DEF BeginCommit, TypeOK
<1>4. snapshot'[s] = [NoSnapshot EXCEPT !.state = "staging", !.payload = p,
                                        !.mdGen = call[s].gen]
      /\ session'[s] = [state |-> "staging", owner |-> o, lease |-> call[s].now + Ttl,
                        base |-> ActiveRevision, gen |-> call[s].gen]
  BY DEF BeginCommit
<1>5. ASSUME NEW t \in Sessions \ {s}
      PROVE  \/ /\ session'[t] = session[t] /\ snapshot'[t] = snapshot[t]
                /\ batches'[t] = batches[t]
             \/ /\ session[t].state # "none" /\ ~RowLocked(t)
                /\ session'[t].state = "deleted"
                /\ \/ snapshot'[t] = snapshot[t]
                   \/ /\ snapshot[t].state = "staging"
                      /\ snapshot'[t].state = "deleted"
                      /\ snapshot'[t].revision = snapshot[t].revision
  <2>1. CASE t \notin call[s].dropped
    BY <2>1 DEF BeginCommit
  <2>2. CASE t \in call[s].dropped
    <3>1. session[t].state # "none" /\ ~RowLocked(t)
      BY <1>1, <2>2 DEF BeginCommit, CallsHoldRows
    <3>2. session'[t] = [session[t] EXCEPT !.state = "deleted"]
      BY <2>2 DEF BeginCommit, DropSessions
    <3>3. snapshot'[t] = IF snapshot[t].state = "staging"
                         THEN [snapshot[t] EXCEPT !.state = "deleted"]
                         ELSE snapshot[t]
      BY <2>2 DEF BeginCommit, DiscardSnapshots
    <3>4. session[t] \in SessionRows /\ snapshot[t] \in SnapshotRows
      BY <1>1 DEF TypeOK
    <3> QED
      BY <3>1, <3>2, <3>3, <3>4 DEF SessionRows, SnapshotRows
  <2> QED
    BY <2>1, <2>2
<1> QED
  BY <1>2, <1>3, <1>4, <1>5 DEF NoSnapshot

\* The commit of begin keeps the inductive invariant: it holds the rows it
\* drops.
LEMMA BeginCommitInv ==
    ASSUME PublicationInv, NEW s \in Sessions, NEW o \in Owners, NEW p \in Payloads,
           BeginCommit(s, o, p)
    PROVE  PublicationInv' /\ ActiveRevision' = ActiveRevision
<1>1. /\ TypeOK /\ RowsAgree /\ CallsHoldRows /\ HoldersHold /\ BaseStaysChecked
      /\ ViewsAreHistory /\ ActiveIsWhole /\ GenerationNamesRevision
  BY DEF PublicationInv
<1>2. TypeOK'
  BY <1>1, BeginCommitType
<1>3. UNCHANGED <<pages, generation, history, rows, active, lock>> /\ generation \in Nat
      /\ call[s].gen <= generation
  BY <1>1 DEF BeginCommit, pageVars, TypeOK, CallsHoldRows
<1> DEFINE Kept(t) == session'[t] = session[t] /\ snapshot'[t] = snapshot[t]
                      /\ batches'[t] = batches[t]
           Dropped(t) == /\ session[t].state # "none" /\ ~RowLocked(t)
                         /\ session'[t].state = "deleted"
                         /\ \/ snapshot'[t] = snapshot[t]
                            \/ /\ snapshot[t].state = "staging"
                               /\ snapshot'[t].state = "deleted"
                               /\ snapshot'[t].revision = snapshot[t].revision
<1>4. /\ session'[s].state = "staging" /\ session'[s].gen = call[s].gen
      /\ snapshot'[s].state = "staging" /\ snapshot'[s].payload = p
      /\ snapshot'[s].mdGen = call[s].gen
      /\ session[s].state = "none" /\ ~RowLocked(s) /\ call'[s] = IdleCall
  <2>1. session'[s] = [state |-> "staging", owner |-> o, lease |-> call[s].now + Ttl,
                       base |-> ActiveRevision, gen |-> call[s].gen]
    BY <1>1, BeginCommitRows
  <2>2. session'[s].state = "staging" /\ session'[s].gen = call[s].gen
    BY <2>1
  <2> QED
    BY <1>1, <2>2, BeginCommitRows
<1>5. \A t \in Sessions \ {s} : call'[t] = call[t] /\ (Kept(t) \/ Dropped(t))
  BY <1>1, BeginCommitRows
<1>6. active # s /\ None \notin Sessions /\ active \in Sessions \cup {None}
  BY <1>1, <1>4, PublicationAssumption DEF RowsAgree, ActiveIsWhole, TypeOK
<1>7. ActiveRevision' = ActiveRevision
  BY <1>3, <1>5, <1>6 DEF ActiveRevision
<1>8. \A t \in Sessions : Kept(t) => Materialized(t)' = Materialized(t)
  BY MaterializedUnchanged
<1>9. ~RowLocked(s)' /\ \A t \in Sessions \ {s} : RowLocked(t)' = RowLocked(t)
  BY <1>4, <1>5 DEF RowLocked, IdleCall
<1>10. RowsAgree'
  BY <1>1, <1>3, <1>4, <1>5 DEF RowsAgree
<1>11. CallsHoldRows'
  <2>1. \A t \in Sessions : session[t].state # "none" => session'[t].state # "none"
    BY <1>4, <1>5
  <2>2. \A t \in Sessions : call[t].expired \subseteq Sessions /\ call[t].dropped \subseteq Sessions
    BY <1>1 DEF TypeOK, Calls
  <2>3. \A t \in Sessions : RowLocked(t)' =>
           session'[t].state = "staging" /\ Materialized(t)' = "complete"
    BY <1>1, <1>5, <1>8, <1>9 DEF CallsHoldRows
  <2>4. \A t \in Sessions : call'[t].phase \in {"cleaning", "counted"} => session'[t].state = "none"
    BY <1>1, <1>4, <1>5 DEF CallsHoldRows, IdleCall
  <2>5. \A t \in Sessions : \A e \in call'[t].expired \cup call'[t].dropped :
           session'[e].state # "none"
    BY <1>1, <1>4, <1>5, <2>1, <2>2 DEF CallsHoldRows, IdleCall
  <2>6. \A t \in Sessions : \A e \in call'[t].dropped : ~RowLocked(e)'
    BY <1>1, <1>4, <1>5, <1>9, <2>2 DEF CallsHoldRows, IdleCall
  <2>7. \A t \in Sessions : call'[t].phase = "counted" => call'[t].gen <= generation'
    BY <1>1, <1>3, <1>4, <1>5 DEF CallsHoldRows, IdleCall
  <2> QED
    BY <2>3, <2>4, <2>5, <2>6, <2>7 DEF CallsHoldRows
<1>12. HoldersHold'
  BY <1>1, <1>3, <1>4, <1>5, <1>9 DEF HoldersHold, RowLocked, IdleCall
<1>13. BaseStaysChecked'
  BY <1>1, <1>4, <1>5, <1>7 DEF BaseStaysChecked, RowLocked, IdleCall
<1>14. ViewsAreHistory'
  <2>1. \A t \in Sessions \ {s} : TextsOf(call'[t].view) = TextsOf(call[t].view)
    BY <1>5
  <2>2. \A t \in Sessions : snapshot'[t].state = "ready" => snapshot'[t].mdGen <= generation'
    BY <1>1, <1>3, <1>4, <1>5 DEF ViewsAreHistory
  <2>3. history'[generation'] = TextsOf(pages')
    BY <1>1, <1>3 DEF ViewsAreHistory
  <2>4. ASSUME NEW t \in Sessions
        PROVE  /\ call'[t].phase \in {"read", "holding", "based"} =>
                     \E g \in session'[t].gen..generation' :
                        TextsOf(call'[t].view) = history'[g]
               /\ call'[t].phase = "checked" =>
                     TextsOf(call'[t].view) = history'[session'[t].gen]
    <3>1. CASE t = s
      BY <1>4, <3>1 DEF IdleCall
    <3>2. CASE t # s
      BY <1>1, <1>3, <1>5, <2>1, <3>2 DEF ViewsAreHistory, RowLocked
    <3> QED
      BY <3>1, <3>2
  <2> QED
    BY <2>2, <2>3, <2>4 DEF ViewsAreHistory, TextsOf
<1>15. ActiveIsWhole'
  BY <1>1, <1>3, <1>5, <1>6, <1>8 DEF ActiveIsWhole
<1>16. GenerationNamesRevision'
  BY <1>1, <1>3, <1>4, <1>5 DEF GenerationNamesRevision
<1> QED
  BY <1>2, <1>7, <1>10, <1>11, <1>12, <1>13, <1>14, <1>15, <1>16 DEF PublicationInv

\* _activate keeps the inductive invariant, under the session row and the
\* advisory lock.
LEMMA FinalizeActivateInv ==
    ASSUME PublicationInv, NEW s \in Sessions, FinalizeActivate(s)
    PROVE  PublicationInv'
<1>1. /\ TypeOK /\ RowsAgree /\ CallsHoldRows /\ HoldersHold /\ BaseStaysChecked
      /\ ViewsAreHistory /\ ActiveIsWhole /\ GenerationNamesRevision
  BY DEF PublicationInv
<1>2. TypeOK'
  BY <1>1, FinalizeActivateType
<1>3. UNCHANGED <<pages, generation, history, batches>>
  BY DEF FinalizeActivate, clockVars, pageVars
<1>4. /\ active' = s /\ lock' = None /\ None \notin Sessions
      /\ call'[s] = IdleCall /\ rows'[s] = FullRows
      /\ \A t \in Sessions \ {s} : /\ call'[t] = call[t] /\ session'[t] = session[t]
                                  /\ snapshot'[t] = snapshot[t]
  BY <1>1, PublicationAssumption DEF FinalizeActivate, TypeOK
<1>5. /\ snapshot'[s].state = "ready" /\ snapshot'[s].mdRev = TextsOf(call[s].view)
      /\ snapshot'[s].mdGen = snapshot[s].mdGen
      /\ snapshot'[s].payload = snapshot[s].payload
      /\ session'[s].state = "ready" /\ session'[s].gen = session[s].gen
  BY <1>1 DEF FinalizeActivate, TypeOK, SnapshotRows, SessionRows
<1>6. session[s].state = "staging" /\ Materialized(s) = "complete"
  BY <1>1 DEF FinalizeActivate, CallsHoldRows, RowLocked
<1>7. snapshot[s].mdGen = session[s].gen /\ session[s].gen <= generation
  BY <1>1, <1>6 DEF RowsAgree
<1>8. TextsOf(call[s].view) = history[session[s].gen]
  BY <1>1 DEF FinalizeActivate, ViewsAreHistory
<1>9. \A t \in Sessions : Materialized(t)' = Materialized(t)
  BY <1>3, <1>4, <1>5, MaterializedUnchanged
<1>10. \A t \in Sessions \ {s} : call[t].phase \notin {"holding", "based", "checked"}
  BY <1>1 DEF FinalizeActivate, HoldersHold
<1>11. RowsAgree'
  BY <1>1, <1>3, <1>4, <1>5 DEF RowsAgree
<1>12. CallsHoldRows'
  <2>1. \A t \in Sessions : call[t].expired \subseteq Sessions /\ call[t].dropped \subseteq Sessions
    BY <1>1 DEF TypeOK, Calls
  <2> QED
    BY <1>1, <1>3, <1>4, <1>5, <1>9, <2>1 DEF CallsHoldRows, RowLocked, IdleCall
<1>13. HoldersHold' /\ BaseStaysChecked'
  BY <1>4, <1>10 DEF HoldersHold, BaseStaysChecked, IdleCall
<1>14. GenerationNamesRevision'
  BY <1>1, <1>3, <1>4, <1>5, <1>7, <1>8 DEF GenerationNamesRevision
<1>15. ActiveIsWhole'
  BY <1>4, <1>5, <1>6, <1>9 DEF ActiveIsWhole, FullRows
<1>16. ViewsAreHistory'
  <2>1. \A t \in Sessions \ {s} : TextsOf(call'[t].view) = TextsOf(call[t].view)
    BY <1>4
  <2>2. \A t \in Sessions : snapshot'[t].state = "ready" => snapshot'[t].mdGen <= generation'
    BY <1>1, <1>3, <1>4, <1>5, <1>7 DEF ViewsAreHistory
  <2>3. history'[generation'] = TextsOf(pages')
    BY <1>1, <1>3 DEF ViewsAreHistory
  <2>4. ASSUME NEW t \in Sessions
        PROVE  /\ call'[t].phase \in {"read", "holding", "based"} =>
                     \E g \in session'[t].gen..generation' :
                        TextsOf(call'[t].view) = history'[g]
               /\ call'[t].phase = "checked" =>
                     TextsOf(call'[t].view) = history'[session'[t].gen]
    <3>1. CASE t = s
      BY <1>4, <3>1 DEF IdleCall
    <3>2. CASE t # s
      BY <1>1, <1>3, <1>4, <2>1, <3>2 DEF ViewsAreHistory
    <3> QED
      BY <3>1, <3>2
  <2> QED
    BY <2>2, <2>3, <2>4 DEF ViewsAreHistory, TextsOf
<1> QED
  BY <1>2, <1>11, <1>12, <1>13, <1>14, <1>15, <1>16 DEF PublicationInv

-----------------------------------------------------------------------------
(* Theorems *)

\* Every step keeps the inductive invariant.
LEMMA NextInv ==
    ASSUME PublicationInv, [Next]_vars
    PROVE  PublicationInv'
<1>1. CASE Tick \/ UNCHANGED vars
  BY <1>1, TickInv
<1>2. CASE PageStep
  BY <1>2, PageStepInv
<1>3. ASSUME NEW s \in Sessions, PublisherStep(s)
      PROVE  PublicationInv'
  <2>1. CASE \/ BeginSelect(s) \/ BeginDrop(s) \/ BeginReadGeneration(s) \/ BeginFail(s)
             \/ \E o \in Owners : FinalizeLock(s, o)
    BY <2>1, CallStepInv
  <2>2. ASSUME NEW o \in Owners, NEW p \in Payloads, BeginCommit(s, o, p)
        PROVE  PublicationInv'
    BY <2>2, BeginCommitInv
  <2>3. ASSUME NEW o \in Owners, NEW x \in Slots \cup {BadSlot}, NEW c \in Payloads,
               PublishBatch(s, o, x, c)
        PROVE  PublicationInv'
    BY <2>3, PublishBatchInv
  <2>4. ASSUME NEW o \in Owners, Abort(s, o)
        PROVE  PublicationInv'
    BY <2>4, AbortInv
  <2>5. CASE FinalizeStep(s)
    <3>1. CASE FinalizePagesUnreadable(s)
      BY <3>1, ReturnInv DEF FinalizePagesUnreadable, Replies
    <3>2. CASE FinalizeBusy(s)
      BY <3>2, ReturnInv DEF FinalizeBusy, Replies
    <3>3. CASE FinalizeLinkRefused(s)
      BY <3>3, ReturnInv DEF FinalizeLinkRefused, Replies
    <3>4. CASE FinalizeActivate(s)
      BY <3>4, FinalizeActivateInv
    <3>5. CASE \/ FinalizeReadPages(s) \/ FinalizeAcquire(s)
               \/ FinalizeCheckBase(s) \/ FinalizeCheckGeneration(s)
      BY <3>5, CallStepInv
    <3> QED
      BY <2>5, <3>1, <3>2, <3>3, <3>4, <3>5 DEF FinalizeStep
  <2>6. CASE FinalizeFail(s)
    BY <2>6, ReturnInv DEF FinalizeFail, Replies
  <2> QED
    BY <1>3, <2>1, <2>2, <2>3, <2>4, <2>5, <2>6 DEF PublisherStep
<1> QED
  BY <1>1, <1>2, <1>3 DEF Next

\* The inductive invariant holds in every reachable state, whatever the numbers
\* of publishers, pages, batches and rows and the retention times.
THEOREM InvariantHolds == Spec => []PublicationInv
<1>1. Init => PublicationInv
  BY InitInv
<1>2. PublicationInv /\ [Next]_vars => PublicationInv'
  BY NextInv
<1> QED
  BY <1>1, <1>2, PTL DEF Spec

\* Every variable of the publication protocol keeps its type.
THEOREM TypeCorrect == Spec => []TypeOK
<1>1. PublicationInv => TypeOK
  BY DEF PublicationInv
<1> QED
  BY <1>1, InvariantHolds, PTL

\* Readers that follow the active snapshot never meet a half-activated one:
\* it is ready, complete, and was built from a complete set of batches.
THEOREM ActiveWhole == Spec => []ActiveIsWhole
<1>1. PublicationInv => ActiveIsWhole
  BY DEF PublicationInv
<1> QED
  BY <1>1, InvariantHolds, PTL

\* Without a refresh, the Markdown generation stored with a snapshot names
\* exactly the page texts its revision was computed from.
THEOREM GenerationsName == Spec => []GenerationNamesRevision
<1>1. PublicationInv => GenerationNamesRevision
  BY DEF PublicationInv
<1> QED
  BY <1>1, InvariantHolds, PTL

-----------------------------------------------------------------------------
(* The protocol implements a compare-and-swap register *)

\* A step that leaves value and tickets alone stutters in the register.
LEMMA QuietStep ==
    ASSUME UNCHANGED <<session, snapshot, active>>
    PROVE  UNCHANGED <<ActiveRevision, Ticket>> /\ active' = active
BY DEF ActiveRevision, Ticket

\* A step other than the four below touches no session row.
LEMMA OtherStepsQuiet ==
    ASSUME NEW s \in Sessions,
           \/ BeginSelect(s) \/ BeginDrop(s) \/ BeginReadGeneration(s) \/ BeginFail(s)
           \/ FinalizeFail(s)
           \/ \E o \in Owners : FinalizeLock(s, o)
           \/ FinalizeReadPages(s) \/ FinalizePagesUnreadable(s)
           \/ FinalizeAcquire(s) \/ FinalizeBusy(s)
           \/ FinalizeCheckBase(s) \/ FinalizeCheckGeneration(s)
           \/ FinalizeLinkRefused(s)
    PROVE  UNCHANGED <<session, snapshot, active>>
BY DEF BeginSelect, BeginDrop, BeginReadGeneration, BeginFail, FinalizeFail,
       FinalizeLock, FinalizeReadPages,
       FinalizePagesUnreadable, FinalizeAcquire, FinalizeBusy, FinalizeCheckBase,
       FinalizeCheckGeneration, FinalizeLinkRefused, Return, storeVars

\* The commit of begin opens a ticket on the active revision.
LEMMA BeginOpens ==
    ASSUME PublicationInv, NEW s \in Sessions, NEW o \in Owners, NEW p \in Payloads,
           BeginCommit(s, o, p)
    PROVE  Register!Next /\ active' = active
<1> DEFINE stale == {t \in Sessions \ {s} : session'[t].state = "deleted"}
<1>1. ActiveRevision' = ActiveRevision /\ active' = active
  BY BeginCommitInv DEF BeginCommit
<1>2. session[s].state = "none"
      /\ session'[s] = [state |-> "staging", owner |-> o, lease |-> call[s].now + Ttl,
                        base |-> ActiveRevision, gen |-> call[s].gen]
  BY BeginCommitRows DEF PublicationInv
<1>3. ~Ticket[s].open
  BY <1>2 DEF Ticket
<1>4. Ticket'[s] = [open |-> TRUE, base |-> ActiveRevision]
  <2>1. session'[s].state = "staging" /\ session'[s].base = ActiveRevision
    BY <1>2
  <2> QED
    BY <2>1 DEF Ticket
<1>5. \A t \in Sessions \ {s} :
         Ticket'[t] = IF t \in stale THEN Register!Closed ELSE Ticket[t]
  <2>1. \A t \in Sessions \ {s} :
           session'[t] = session[t] \/ session'[t].state = "deleted"
    BY BeginCommitRows DEF PublicationInv
  <2> QED
    BY <2>1 DEF Ticket, Register!Closed
<1>6. Ticket' = [t \in Sessions |->
                    IF t = s THEN [open |-> TRUE, base |-> ActiveRevision]
                    ELSE IF t \in stale THEN Register!Closed ELSE Ticket[t]]
  BY <1>4, <1>5 DEF Ticket
<1>7. Register!Open(s, stale)
  BY <1>1, <1>3, <1>6 DEF Register!Open
<1> QED
  BY <1>1, <1>7 DEF Register!Next

\* _activate swaps the register's value.
LEMMA ActivateSwaps ==
    ASSUME PublicationInv, NEW s \in Sessions, FinalizeActivate(s)
    PROVE  /\ Register!Next
           /\ active' = s /\ session[s].base = ActiveRevision
<1>1. /\ TypeOK /\ RowsAgree /\ CallsHoldRows /\ BaseStaysChecked
  BY DEF PublicationInv
<1>2. /\ session[s].state = "staging" /\ snapshot[s].payload \in Payloads
      /\ ActiveRevision = session[s].base
  BY <1>1 DEF FinalizeActivate, CallsHoldRows, RowsAgree, BaseStaysChecked, RowLocked
<1>3. /\ session'[s].state = "ready" /\ session'[s].base = session[s].base
      /\ \A t \in Sessions \ {s} : session'[t] = session[t]
  BY <1>1 DEF FinalizeActivate, TypeOK, SessionRows
<1> DEFINE v == [payload |-> snapshot[s].payload, markdown |-> TextsOf(call[s].view)]
<1>4. v \in Revisions
  BY <1>1, <1>2, TextsOfType DEF TypeOK, Calls, Revisions
<1>5. snapshot'[s].revision = v /\ active' = s /\ s # None
  BY <1>1, PublicationAssumption DEF FinalizeActivate, TypeOK, SnapshotRows
<1>6. ActiveRevision' = v
  BY <1>5 DEF ActiveRevision
<1>7. Ticket' = [Ticket EXCEPT ![s] = Register!Closed]
  BY <1>3 DEF Ticket, Register!Closed
<1>8. Ticket[s].open /\ Ticket[s].base = ActiveRevision
  BY <1>2 DEF Ticket
<1>9. Register!Swap(s, v)
  BY <1>6, <1>7, <1>8 DEF Register!Swap
<1> QED
  BY <1>2, <1>3, <1>4, <1>5, <1>9 DEF Register!Next

\* publish_batch stutters in the register.
LEMMA BatchIsQuiet ==
    ASSUME PublicationInv, NEW s \in Sessions, NEW o \in Owners,
           NEW x \in Slots \cup {BadSlot}, NEW content \in Payloads,
           PublishBatch(s, o, x, content)
    PROVE  UNCHANGED <<ActiveRevision, Ticket>> /\ active' = active
<1>1. PICK now \in CallTimes :
         session' = [session EXCEPT ![s].lease = now + Ttl] \/ session' = session
  BY DEF PublishBatch
<1>2. \A t \in Sessions : /\ session'[t].state = session[t].state
                         /\ session'[t].base = session[t].base
  <2>1. session[s] \in SessionRows /\ session \in [Sessions -> SessionRows]
    BY DEF PublicationInv, TypeOK
  <2>2. [session[s] EXCEPT !.lease = now + Ttl].state = session[s].state
        /\ [session[s] EXCEPT !.lease = now + Ttl].base = session[s].base
    BY <2>1 DEF SessionRows
  <2>3. CASE session' = [session EXCEPT ![s].lease = now + Ttl]
    BY <2>1, <2>2, <2>3
  <2>4. CASE session' = session
    BY <2>4
  <2> QED
    BY <1>1, <2>3, <2>4
<1>3. Ticket' = Ticket
  BY <1>2 DEF Ticket
<1>4. UNCHANGED <<snapshot, active>>
  BY DEF PublishBatch
<1> QED
  BY <1>3, <1>4 DEF ActiveRevision

\* abort closes its ticket, or changes nothing.
LEMMA AbortCloses ==
    ASSUME PublicationInv, NEW s \in Sessions, NEW o \in Owners, Abort(s, o)
    PROVE  (Register!Next \/ UNCHANGED <<ActiveRevision, Ticket>>) /\ active' = active
<1>1. TypeOK /\ RowsAgree /\ ActiveIsWhole /\ active' = active
  BY DEF PublicationInv, Abort
<1>2. CASE AbortVerdict(s, o) = "aborted"
  <2>1. session[s].state \in {"staging", "aborted"}
    BY <1>2, AbortVerdictType
  <2>2. /\ session' = [session EXCEPT ![s].state = "aborted"]
        /\ snapshot' = [snapshot EXCEPT ![s].state = "failed"]
    BY <1>2 DEF Abort
  <2>3. active # s /\ active \in Sessions \cup {None}
    BY <1>1, <2>1, PublicationAssumption DEF RowsAgree, ActiveIsWhole, TypeOK
  <2>4. ActiveRevision' = ActiveRevision
    BY <1>1, <2>2, <2>3 DEF ActiveRevision, TypeOK
  <2>5. /\ session'[s].state = "aborted"
        /\ \A t \in Sessions \ {s} : session'[t] = session[t]
    BY <1>1, <2>2 DEF TypeOK, SessionRows
  <2>6. CASE session[s].state = "staging"
    <3>1. Ticket' = [Ticket EXCEPT ![s] = Register!Closed]
      BY <2>5 DEF Ticket, Register!Closed
    <3>2. Ticket[s].open
      BY <2>6 DEF Ticket
    <3>3. Register!Close(s)
      BY <2>4, <3>1, <3>2 DEF Register!Close
    <3> QED
      BY <1>1, <3>3 DEF Register!Next
  <2>7. CASE session[s].state = "aborted"
    <3>1. Ticket' = Ticket
      BY <2>5, <2>7 DEF Ticket
    <3> QED
      BY <1>1, <2>4, <3>1
  <2> QED
    BY <2>1, <2>6, <2>7
<1>3. CASE AbortVerdict(s, o) # "aborted"
  BY <1>3, QuietStep DEF Abort
<1> QED
  BY <1>2, <1>3

\* Every step is a step of the register or leaves it alone, and the active
\* snapshot moves only to a session based on the revision it replaces.
Simulates ==
    /\ Register!Next \/ UNCHANGED <<ActiveRevision, Ticket>>
    /\ active' # active => session[active'].base = ActiveRevision

\* Every step is a step of the register, or a stutter.
LEMMA StepSimulation ==
    ASSUME PublicationInv, [Next]_vars
    PROVE  Simulates
<1>1. CASE Tick \/ PageStep \/ UNCHANGED vars
  <2>1. UNCHANGED <<session, snapshot, active>>
    BY <1>1 DEF Tick, PageStep, WritePage, UpdatePage, DeletePage, SetPage, vars, storeVars
  <2> QED
    BY <2>1, QuietStep DEF Simulates
<1>2. ASSUME NEW s \in Sessions, PublisherStep(s)
      PROVE  Simulates
  <2>1. ASSUME NEW o \in Owners, NEW p \in Payloads, BeginCommit(s, o, p)
        PROVE  Simulates
    BY <2>1, BeginOpens DEF Simulates
  <2>2. ASSUME NEW o \in Owners, NEW x \in Slots \cup {BadSlot}, NEW c \in Payloads,
               PublishBatch(s, o, x, c)
        PROVE  Simulates
    BY <2>2, BatchIsQuiet DEF Simulates
  <2>3. ASSUME NEW o \in Owners, Abort(s, o)
        PROVE  Simulates
    BY <2>3, AbortCloses DEF Simulates
  <2>4. CASE FinalizeActivate(s)
    BY <2>4, ActivateSwaps DEF Simulates
  <2>5. ASSUME NEW o \in Owners, FinalizeLock(s, o)
        PROVE  Simulates
    BY <2>5, OtherStepsQuiet, QuietStep DEF Simulates
  <2>6. CASE \/ BeginSelect(s) \/ BeginDrop(s) \/ BeginReadGeneration(s) \/ BeginFail(s)
             \/ FinalizeFail(s)
             \/ FinalizeReadPages(s) \/ FinalizePagesUnreadable(s)
             \/ FinalizeAcquire(s) \/ FinalizeBusy(s)
             \/ FinalizeCheckBase(s) \/ FinalizeCheckGeneration(s)
             \/ FinalizeLinkRefused(s)
    BY <2>6, OtherStepsQuiet, QuietStep DEF Simulates
  <2>7. CASE \/ BeginSelect(s) \/ BeginDrop(s) \/ BeginReadGeneration(s) \/ BeginFail(s)
             \/ FinalizeStep(s) \/ FinalizeFail(s)
    BY <2>4, <2>6, <2>7 DEF FinalizeStep
  <2> QED
    BY <1>2, <2>1, <2>2, <2>3, <2>5, <2>7 DEF PublisherStep
<1> QED
  BY <1>1, <1>2 DEF Next

\* No publication ever replaces a revision it was not based on.
THEOREM NothingLost == Spec => NoLostPublication
<1>1. PublicationInv /\ [Next]_vars
         => [BasedOnActive]_vars
  BY StepSimulation DEF Simulates, BasedOnActive
<1> QED
  BY <1>1, InvariantHolds, PTL DEF Spec, NoLostPublication

\* A step on one session that records what has lapsed, or leaves the dead alone,
\* and lets its cleanup choose among the dead only, keeps the account of them.
LEMMA LapsedKeptBy ==
    ASSUME PublicationInv, LapsedInv, NEW s \in Sessions,
           \A t \in Sessions : Dead(t, clock)' => t \in lapsed',
           lapsed \subseteq lapsed',
           \A t \in Sessions \ {s} : call'[t] = call[t],
           call'[s].expired \cup call'[s].dropped
              \subseteq call[s].expired \cup call[s].dropped \cup lapsed'
    PROVE  LapsedInv'
BY DEF LapsedInv

\* Whatever a step does to leases and clocks, a session is not dead without having
\* lapsed, nor chosen by a cleanup.
LEMMA LapsedKept ==
    ASSUME PublicationInv, LapsedInv, [Next]_vars
    PROVE  LapsedInv'
<1>1. TypeOK /\ CallsHoldRows /\ clock \in Nat /\ StagingRetention \in Nat
  BY PublicationAssumption DEF PublicationInv, TypeOK
<1>2. \A s \in Sessions : session[s].lease \in Nat
  BY <1>1 DEF TypeOK, SessionRows
<1>3. CASE Tick
  <2>1. call' = call /\ \A s \in Sessions : Dead(s, clock)' => s \in lapsed'
    BY <1>3 DEF Tick, RecordLapsed
  <2>2. lapsed \subseteq lapsed'
    BY <1>3 DEF Tick, RecordLapsed
  <2> QED
    BY <2>1, <2>2 DEF LapsedInv
<1>4. CASE PageStep \/ UNCHANGED vars
  <2>1. UNCHANGED <<clock, lapsed, session, call>>
    BY <1>4 DEF PageStep, WritePage, UpdatePage, DeletePage, SetPage, vars, clockVars, storeVars
  <2> QED
    BY <2>1 DEF LapsedInv, Dead
<1>5. ASSUME NEW s \in Sessions, PublisherStep(s)
      PROVE  LapsedInv'
  <2>1. CASE BeginSelect(s)
    <3>1. PICK now \in CallTimes : \E E \in OldestExpired(now) :
             call' = [call EXCEPT ![s] = [IdleCall EXCEPT !.phase = "cleaning",
                                                          !.now = now, !.expired = E]]
      BY <2>1 DEF BeginSelect
    <3>2. PICK E \in OldestExpired(now) :
             call' = [call EXCEPT ![s] = [IdleCall EXCEPT !.phase = "cleaning",
                                                          !.now = now, !.expired = E]]
      BY <3>1
    <3>3. \A e \in E : e \in Sessions /\ Dead(e, now)
      BY DEF OldestExpired, ExpiredStaging
    <3>4. now \in Nat /\ now <= clock
      BY <1>1 DEF CallTimes
    <3>5. E \subseteq lapsed
      BY <1>1, <1>2, <3>3, <3>4 DEF LapsedInv, Dead
    <3>6. /\ call'[s].expired = E /\ call'[s].dropped = {}
          /\ \A t \in Sessions \ {s} : call'[t] = call[t]
      BY <1>1, <3>2 DEF TypeOK, IdleCall
    <3>7. UNCHANGED <<clock, lapsed, session>>
      BY <2>1 DEF BeginSelect, clockVars, storeVars
    <3> QED
      BY <3>5, <3>6, <3>7, LapsedKeptBy DEF LapsedInv, Dead
  <2>2. CASE BeginDrop(s)
    <3>1. PICK e \in call[s].expired :
             call' = [call EXCEPT ![s].expired = @ \ {e},
                                  ![s].dropped = IF session[e].state = "deleted"
                                                 THEN @ ELSE @ \cup {e}]
      BY <2>2 DEF BeginDrop
    <3>2. call[s] \in Calls /\ call \in [Sessions -> Calls]
      BY <1>1 DEF TypeOK
    <3>3. /\ call'[s].expired \cup call'[s].dropped
                \subseteq call[s].expired \cup call[s].dropped
          /\ \A t \in Sessions \ {s} : call'[t] = call[t]
      BY <3>1, <3>2 DEF Calls
    <3>4. UNCHANGED <<clock, lapsed, session>>
      BY <2>2 DEF BeginDrop, clockVars, storeVars
    <3> QED
      BY <3>3, <3>4, LapsedKeptBy DEF LapsedInv, Dead
  <2>3. CASE BeginReadGeneration(s)
    <3>1. /\ call'[s].expired = call[s].expired /\ call'[s].dropped = call[s].dropped
          /\ \A t \in Sessions \ {s} : call'[t] = call[t]
      BY <1>1, <2>3 DEF BeginReadGeneration, TypeOK, Calls
    <3>2. UNCHANGED <<clock, lapsed, session>>
      BY <2>3 DEF BeginReadGeneration, clockVars, storeVars
    <3> QED
      BY <3>1, <3>2, LapsedKeptBy DEF LapsedInv, Dead
  <2>4. CASE BeginFail(s)
    <3>1. /\ call'[s] = IdleCall /\ UNCHANGED <<clock, lapsed, session>>
          /\ \A t \in Sessions \ {s} : call'[t] = call[t]
      BY <1>1, <2>4 DEF BeginFail, TypeOK, clockVars, storeVars
    <3> QED
      BY <3>1, LapsedKeptBy DEF LapsedInv, Dead, IdleCall
  <2>5. ASSUME NEW o \in Owners, NEW p \in Payloads, BeginCommit(s, o, p)
        PROVE  LapsedInv'
    <3>1. /\ call'[s] = IdleCall /\ RecordLapsed
          /\ \A t \in Sessions \ {s} : call'[t] = call[t]
      BY <1>1, <2>5 DEF BeginCommit, TypeOK
    <3> QED
      BY <3>1, LapsedKeptBy DEF RecordLapsed, IdleCall
  <2>6. ASSUME NEW o \in Owners, NEW x \in Slots \cup {BadSlot}, NEW c \in Payloads,
               PublishBatch(s, o, x, c)
        PROVE  LapsedInv'
    BY <2>6, LapsedKeptBy DEF PublishBatch, RecordLapsed
  <2>7. ASSUME NEW o \in Owners, FinalizeLock(s, o)
        PROVE  LapsedInv'
    <3>1. PICK now \in CallTimes :
             call' = [call EXCEPT ![s].phase = "locked", ![s].now = now] \/ call' = call
      BY <2>7 DEF FinalizeLock
    <3>2. /\ call'[s].expired = call[s].expired /\ call'[s].dropped = call[s].dropped
          /\ \A t \in Sessions \ {s} : call'[t] = call[t]
      <4>1. CASE call' = [call EXCEPT ![s].phase = "locked", ![s].now = now]
        BY <1>1, <4>1 DEF TypeOK, Calls
      <4>2. CASE call' = call
        BY <4>2
      <4> QED
        BY <3>1, <4>1, <4>2
    <3>3. UNCHANGED <<clock, lapsed, session>>
      BY <2>7 DEF FinalizeLock, clockVars, storeVars
    <3> QED
      BY <3>2, <3>3, LapsedKeptBy DEF LapsedInv, Dead
  <2>8. ASSUME NEW o \in Owners, Abort(s, o)
        PROVE  LapsedInv'
    <3>1. UNCHANGED <<clock, lapsed, call>>
      BY <2>8 DEF Abort, clockVars
    <3>2. \A t \in Sessions : session'[t] = session[t] \/ session'[t].state = "aborted"
      BY <1>1, <2>8 DEF Abort, TypeOK, SessionRows
    <3> QED
      BY <3>1, <3>2 DEF LapsedInv, Dead
  <2>9. ASSUME NEW answer, Return(s, answer)
        PROVE  LapsedInv'
    <3>1. /\ call'[s] = IdleCall /\ UNCHANGED <<clock, lapsed, session>>
          /\ \A t \in Sessions \ {s} : call'[t] = call[t]
      BY <1>1, <2>9 DEF Return, TypeOK, clockVars, storeVars
    <3> QED
      BY <3>1, LapsedKeptBy DEF LapsedInv, Dead, IdleCall
  <2>10. CASE FinalizeActivate(s)
    <3>1. /\ call'[s] = IdleCall /\ UNCHANGED <<clock, lapsed>>
          /\ \A t \in Sessions \ {s} : call'[t] = call[t] /\ session'[t] = session[t]
          /\ session'[s].state = "ready"
      BY <1>1, <2>10 DEF FinalizeActivate, TypeOK, SessionRows, clockVars
    <3> QED
      BY <3>1, LapsedKeptBy DEF LapsedInv, Dead, IdleCall
  <2>11. CASE \/ FinalizeReadPages(s) \/ FinalizeAcquire(s)
              \/ FinalizeCheckBase(s) /\ BaseUnchanged(s)
              \/ FinalizeCheckGeneration(s) /\ GenerationUnchanged(s)
    <3>1. call[s] \in Calls /\ call \in [Sessions -> Calls]
      BY <1>1 DEF TypeOK
    <3>2. /\ \/ call' = [call EXCEPT ![s].phase = "read", ![s].view = pages]
             \/ \E ph \in Phases : call' = [call EXCEPT ![s].phase = ph]
          /\ UNCHANGED <<clock, lapsed, session>>
      BY <2>11 DEF FinalizeReadPages, FinalizeAcquire, FinalizeCheckBase,
                   FinalizeCheckGeneration, clockVars, storeVars, Phases
    <3>3. /\ call'[s].expired = call[s].expired /\ call'[s].dropped = call[s].dropped
          /\ \A t \in Sessions \ {s} : call'[t] = call[t]
      BY <3>1, <3>2 DEF Calls
    <3> QED
      BY <3>2, <3>3, LapsedKeptBy DEF LapsedInv, Dead
  <2>12. CASE FinalizeStep(s) \/ FinalizeFail(s)
    BY <2>9, <2>10, <2>11, <2>12
       DEF FinalizeStep, FinalizeFail, FinalizePagesUnreadable, FinalizeBusy,
           FinalizeLinkRefused, FinalizeCheckBase, FinalizeCheckGeneration
  <2> QED
    BY <1>5, <2>1, <2>2, <2>3, <2>4, <2>5, <2>6, <2>7, <2>8, <2>12 DEF PublisherStep
<1> QED
  BY <1>3, <1>4, <1>5 DEF Next

\* A session that was never left for the retention keeps its terminal result,
\* whatever the cleanups of other begins chose and however long calls take.
THEOREM ResultsKept == Spec => ResultKept
<1>1. Init => LapsedInv
  BY DEF Init, LapsedInv, IdleCall, Dead
<1>2. PublicationInv /\ LapsedInv /\ [Next]_vars => LapsedInv'
  BY LapsedKept
<1>3. PublicationInv /\ LapsedInv /\ [Next]_vars
         => [\A s \in Sessions :
                session[s].state \in {"ready", "aborted"} /\ s \notin lapsed =>
                    session'[s].state = session[s].state]_vars
  <2> SUFFICES ASSUME PublicationInv, LapsedInv, Next, NEW s \in Sessions,
                      session[s].state \in {"ready", "aborted"}, s \notin lapsed
               PROVE  session'[s].state = session[s].state
    BY DEF PublicationInv
  <2>0. TypeOK /\ CallsHoldRows
    BY DEF PublicationInv
  <2>1. CASE Tick \/ PageStep
    BY <2>1 DEF Tick, PageStep, WritePage, UpdatePage, DeletePage, SetPage, storeVars
  <2>2. ASSUME NEW t \in Sessions, PublisherStep(t)
        PROVE  session'[s].state = session[s].state
    <3>1. ASSUME NEW o \in Owners, NEW p \in Payloads, BeginCommit(t, o, p)
          PROVE  session'[s].state = session[s].state
      <4>1. s # t
        BY <2>0, <3>1 DEF BeginCommit, CallsHoldRows
      <4>2. s \notin call[t].dropped
        BY DEF LapsedInv
      <4> QED
        BY <3>1, <4>1, <4>2 DEF BeginCommit
    <3>2. ASSUME NEW o \in Owners, NEW x \in Slots \cup {BadSlot}, NEW c \in Payloads,
                 PublishBatch(t, o, x, c)
          PROVE  session'[s].state = session[s].state
      <4>1. PICK now \in CallTimes :
               session' = [session EXCEPT ![t].lease = now + Ttl] \/ session' = session
        BY <3>2 DEF PublishBatch
      <4>2. session \in [Sessions -> SessionRows]
        BY <2>0 DEF TypeOK
      <4>3. CASE s = t
        BY <4>1, <4>2, <4>3 DEF SessionRows
      <4>4. CASE s # t
        BY <4>1, <4>2, <4>4
      <4> QED
        BY <4>3, <4>4
    <3>3. ASSUME NEW o \in Owners, Abort(t, o)
          PROVE  session'[s].state = session[s].state
      <4>1. /\ session \in [Sessions -> SessionRows]
            /\ \/ session' = session
               \/ /\ session' = [session EXCEPT ![t].state = "aborted"]
                  /\ session[t].state \in {"staging", "aborted"}
        BY <2>0, <3>3, AbortVerdictType DEF Abort, TypeOK
      <4>2. CASE s = t
        BY <4>1, <4>2 DEF SessionRows
      <4>3. CASE s # t
        BY <4>1, <4>3
      <4> QED
        BY <4>2, <4>3
    <3>4. CASE FinalizeActivate(t)
      <4>1. s # t
        BY <2>0, <3>4 DEF FinalizeActivate, CallsHoldRows, RowLocked
      <4> QED
        BY <3>4, <4>1 DEF FinalizeActivate
    <3>5. ASSUME NEW o \in Owners, FinalizeLock(t, o)
          PROVE  session'[s].state = session[s].state
      BY <3>5, OtherStepsQuiet
    <3>6. CASE \/ BeginSelect(t) \/ BeginDrop(t) \/ BeginReadGeneration(t) \/ BeginFail(t)
               \/ FinalizeFail(t)
               \/ FinalizeReadPages(t) \/ FinalizePagesUnreadable(t)
               \/ FinalizeAcquire(t) \/ FinalizeBusy(t)
               \/ FinalizeCheckBase(t) \/ FinalizeCheckGeneration(t)
               \/ FinalizeLinkRefused(t)
      BY <3>6, OtherStepsQuiet
    <3> QED
      BY <2>2, <3>1, <3>2, <3>3, <3>4, <3>5, <3>6 DEF PublisherStep, FinalizeStep
  <2> QED
    BY <2>1, <2>2 DEF Next
<1> QED
  BY <1>1, <1>2, <1>3, InvariantHolds, PTL DEF Spec, ResultKept

\* Publication with all its calls, locks and failures is a compare-and-swap
\* register of revisions to whoever looks at the active revision.
THEOREM Implements == Spec => ImplementsRegister
<1>1. Init => Register!Init
  BY DEF Init, Register!Init, Register!Closed, ActiveRevision, Ticket
<1>2. PublicationInv /\ [Next]_vars => [Register!Next]_(Register!vars)
  BY StepSimulation DEF Simulates, Register!vars
<1> QED
  BY <1>1, <1>2, InvariantHolds, PTL DEF Spec, ImplementsRegister, Register!Spec
-----------------------------------------------------------------------------
(* Derived links *)

\* The steps of a publisher that are not _activate leave pages, links and the
\* active snapshot alone.
LEMMA OnlyActivateMovesLinks ==
    ASSUME PublicationInv, NEW s \in Sessions, PublisherStep(s), ~FinalizeActivate(s)
    PROVE  /\ UNCHANGED <<pages, generation, history, links, active>>
           /\ active # None => snapshot'[active].mdRev = snapshot[active].mdRev
                               /\ snapshot'[active].mdGen = snapshot[active].mdGen
<1>a. TypeOK /\ RowsAgree /\ ActiveIsWhole /\ CallsHoldRows
  BY DEF PublicationInv
<1>1. ASSUME NEW o \in Owners, NEW p \in Payloads, BeginCommit(s, o, p)
      PROVE  /\ UNCHANGED <<pages, generation, history, links, active>>
             /\ active # None => snapshot'[active] = snapshot[active]
  <2>1. UNCHANGED <<pages, generation, history, links, active>>
    BY <1>1 DEF BeginCommit, clockVars, pageVars
  <2>2. snapshot[s].state = "none"
    BY <1>a, <1>1 DEF BeginCommit, CallsHoldRows, RowsAgree
  <2>3. ASSUME active # None PROVE snapshot'[active] = snapshot[active]
    <3>1. active \in Sessions /\ snapshot[active].state = "ready" /\ active # s
      BY <1>a, <2>2, <2>3 DEF TypeOK, ActiveIsWhole
    <3>2. QED
      BY <1>1, <3>1 DEF BeginCommit, DiscardSnapshots
  <2>4. QED
    BY <2>1, <2>3
<1>2. ASSUME NEW o \in Owners, Abort(s, o)
      PROVE  /\ UNCHANGED <<pages, generation, history, links, active>>
             /\ active # None => snapshot'[active].mdRev = snapshot[active].mdRev
                                 /\ snapshot'[active].mdGen = snapshot[active].mdGen
  <2>1. UNCHANGED <<pages, generation, history, links, active>>
    BY <1>2 DEF Abort, clockVars, pageVars
  <2>2. snapshot' = snapshot \/ snapshot' = [snapshot EXCEPT ![s].state = "failed"]
    BY <1>2 DEF Abort
  <2>3. \A t \in Sessions : snapshot'[t].mdRev = snapshot[t].mdRev
                           /\ snapshot'[t].mdGen = snapshot[t].mdGen
    <3>1. \A t \in Sessions \ {s} : snapshot'[t] = snapshot[t]
      BY <1>a, <2>2 DEF TypeOK
    <3>2. snapshot'[s].mdRev = snapshot[s].mdRev /\ snapshot'[s].mdGen = snapshot[s].mdGen
      BY <1>a, <2>2 DEF TypeOK, SnapshotRows
    <3>3. QED
      BY <3>1, <3>2
  <2>4. active \in Sessions \cup {None}
    BY <1>a DEF TypeOK
  <2>5. QED
    BY <2>1, <2>3, <2>4
<1>3. ASSUME NEW o \in Owners, NEW x \in Slots \cup {BadSlot}, NEW c \in Payloads,
             PublishBatch(s, o, x, c)
      PROVE  UNCHANGED <<pages, generation, history, links, active, snapshot>>
  BY <1>3 DEF PublishBatch, clockVars, pageVars
<1>4. ASSUME NEW o \in Owners, FinalizeLock(s, o)
      PROVE  UNCHANGED <<pages, generation, history, links, active, snapshot>>
  BY <1>4 DEF FinalizeLock, clockVars, pageVars, storeVars
<1>5. CASE \/ BeginSelect(s) \/ BeginDrop(s) \/ BeginReadGeneration(s) \/ BeginFail(s)
         \/ FinalizeStep(s) \/ FinalizeFail(s)
  <2>1. UNCHANGED <<pageVars, storeVars>>
    <3>1. CASE BeginSelect(s) \/ BeginDrop(s) \/ BeginReadGeneration(s) \/ BeginFail(s)
      BY <3>1 DEF BeginSelect, BeginDrop, BeginReadGeneration, BeginFail
    <3>2. CASE FinalizeStep(s)
      BY <3>2 DEF FinalizeStep, FinalizeReadPages, FinalizePagesUnreadable, FinalizeAcquire,
                  FinalizeBusy, FinalizeCheckBase, FinalizeCheckGeneration,
                  FinalizeLinkRefused, Return
    <3>3. CASE FinalizeFail(s)
      BY <3>3 DEF FinalizeFail, Return
    <3>4. QED
      BY <1>5, <3>1, <3>2, <3>3
  <2>2. QED
    BY <2>1 DEF clockVars, pageVars, storeVars
<1>6. QED
  BY <1>1, <1>2, <1>3, <1>4, <1>5 DEF PublisherStep

\* How a finalize comes by the pages it has read.
LEMMA ViewsMove ==
    ASSUME PublicationInv, NEW s \in Sessions, PublisherStep(s), NEW t \in Sessions,
           call'[t].phase \in {"read", "holding", "based", "checked"}
    PROVE  /\ session'[t].gen = session[t].gen
           /\ \/ call'[t] = call[t]
              \/ call'[t].phase = "read" /\ call'[t].view = pages
              \/ /\ call'[t].view = call[t].view
                 /\ call[t].phase \in {"read", "holding", "based"}
                 /\ call'[t].phase = "checked" => session[t].gen = generation
<1>a. TypeOK /\ CallsHoldRows /\ call[t] \in Calls
  BY DEF PublicationInv, TypeOK
<1>1. ASSUME NEW o \in Owners, NEW p \in Payloads, BeginCommit(s, o, p)
      PROVE  call'[t] = call[t] /\ session'[t].gen = session[t].gen
  <2>1. call'[s] = IdleCall /\ call'[t] = call[t]
    BY <1>a, <1>1 DEF BeginCommit, TypeOK, IdleCall
  <2>2. t # s
    BY <2>1 DEF IdleCall
  <2>3. session'[t] = session[t] \/ session'[t] = [session[t] EXCEPT !.state = "deleted"]
    BY <1>1, <2>2 DEF BeginCommit, DropSessions
  <2>4. session[t] \in SessionRows
    BY <1>a DEF TypeOK
  <2>5. QED
    BY <2>1, <2>3, <2>4 DEF SessionRows
<1>2. ASSUME NEW o \in Owners, Abort(s, o)
      PROVE  call'[t] = call[t] /\ session'[t].gen = session[t].gen
  BY <1>a, <1>2 DEF Abort, TypeOK, SessionRows
<1>3. ASSUME NEW o \in Owners, NEW x \in Slots \cup {BadSlot}, NEW c \in Payloads,
             PublishBatch(s, o, x, c)
      PROVE  call'[t] = call[t] /\ session'[t].gen = session[t].gen
  <2>1. call' = call
    BY <1>3 DEF PublishBatch
  <2>2. PICK now \in CallTimes :
           session' = [session EXCEPT ![s].lease = now + Ttl] \/ session' = session
    BY <1>3 DEF PublishBatch
  <2>3. session'[t].gen = session[t].gen
    <3>1. t # s => session'[t] = session[t]
      BY <1>a, <2>2 DEF TypeOK
    <3>2. session'[s].gen = session[s].gen
      BY <1>a, <2>2 DEF TypeOK, SessionRows
    <3>3. QED
      BY <3>1, <3>2
  <2>4. QED
    BY <2>1, <2>3
<1>4. ASSUME NEW o \in Owners, FinalizeLock(s, o)
      PROVE  call'[t] = call[t] /\ session'[t].gen = session[t].gen
  <2>1. session' = session /\ \E now : call' = [call EXCEPT ![s].phase = "locked", ![s].now = now]
                                       \/ call' = call
    BY <1>4 DEF FinalizeLock, storeVars
  <2>2. QED
    BY <1>a, <2>1 DEF TypeOK, Calls
<1>5. CASE BeginSelect(s) \/ BeginDrop(s) \/ BeginReadGeneration(s) \/ BeginFail(s)
  BY <1>a, <1>5, BeginStepHeld DEF storeVars
<1>6. CASE FinalizeStep(s) \/ FinalizeFail(s)
  <2>1. session'[t].gen = session[t].gen
    <3>1. session' = session \/ session' = [session EXCEPT ![s].state = "ready"]
      BY <1>6 DEF FinalizeStep, FinalizeFail, FinalizeReadPages, FinalizePagesUnreadable,
                  FinalizeAcquire, FinalizeBusy, FinalizeCheckBase, FinalizeCheckGeneration,
                  FinalizeActivate, FinalizeLinkRefused, Return, storeVars
    <3>2. t # s => session'[t] = session[t]
      BY <1>a, <3>1 DEF TypeOK
    <3>3. session'[s].gen = session[s].gen
      BY <1>a, <3>1 DEF TypeOK, SessionRows
    <3>4. QED
      BY <3>2, <3>3
  <2>2. \/ call'[t] = call[t]
        \/ call'[t].phase = "read" /\ call'[t].view = pages
        \/ /\ call'[t].view = call[t].view
           /\ call[t].phase \in {"read", "holding", "based"}
           /\ call'[t].phase = "checked" => session[t].gen = generation
    BY <1>a, <1>6 DEF FinalizeStep, FinalizeFail, FinalizeReadPages, FinalizePagesUnreadable,
                      FinalizeAcquire, FinalizeBusy, FinalizeCheckBase, FinalizeCheckGeneration,
                      FinalizeActivate, FinalizeLinkRefused, Return, GenerationUnchanged,
                      TypeOK, Calls, IdleCall
  <2>3. QED
    BY <2>1, <2>2
<1>7. QED
  BY <1>1, <1>2, <1>3, <1>4, <1>5, <1>6 DEF PublisherStep

\* What a page step does to the page, and to the links of a page it deletes.
LEMMA PageMoves ==
    ASSUME TypeOK, NEW p \in Pages,
           (\E t \in Texts : WritePage(p, t) \/ UpdatePage(p, t)) \/ DeletePage(p)
    PROVE  /\ generation' = generation + 1
           /\ \A q \in Pages \ {p} : pages'[q] = pages[q]
           /\ \A g \in 0..generation : history'[g] = history[g]
           /\ \A q \in Pages : history'[generation'][q] = pages'[q].text
           /\ UNCHANGED <<clockVars, session, batches, snapshot, rows, active, call>>
           /\ \/ pages[p].text = None /\ pages'[p].id = generation + 1 /\ UNCHANGED links
              \/ /\ pages[p].text # None /\ pages'[p].text # None
                 /\ pages'[p].id = pages[p].id /\ UNCHANGED links
              \/ /\ pages'[p].text = None
                 /\ links' = [s \in Sessions |-> {l \in links[s] : l.id # pages[p].id}]
                 /\ pages[p].text # None
<1>a. generation \in Nat
  BY DEF TypeOK
<1>1. PICK row : SetPage(p, row)
  BY DEF WritePage, UpdatePage, DeletePage
<1>2. /\ generation' = generation + 1
      /\ \A q \in Pages \ {p} : pages'[q] = pages[q]
      /\ \A g \in 0..generation : history'[g] = history[g]
      /\ \A q \in Pages : history'[generation'][q] = pages'[q].text
      /\ UNCHANGED <<clockVars, session, batches, snapshot, rows, active, call>>
  BY <1>a, <1>1 DEF SetPage, TypeOK, Views, TextsOf
<1>3. CASE \E t \in Texts : WritePage(p, t)
  <2>1. pages[p].text = None /\ pages'[p].id = generation + 1 /\ UNCHANGED links
    BY <1>3 DEF WritePage, SetPage, TypeOK, Views
  <2>2. QED
    BY <1>2, <2>1
<1>4. CASE \E t \in Texts : UpdatePage(p, t)
  <2>1. /\ pages[p].text # None /\ pages'[p].text # None
        /\ pages'[p].id = pages[p].id /\ UNCHANGED links
    BY <1>4, PublicationAssumption DEF UpdatePage, SetPage, TypeOK, Views, PageRows
  <2>2. QED
    BY <1>2, <2>1
<1>5. CASE DeletePage(p)
  <2>1. /\ pages'[p].text = None
        /\ links' = [s \in Sessions |-> {l \in links[s] : l.id # pages[p].id}]
        /\ pages[p].text # None
    BY <1>5 DEF DeletePage, SetPage, TypeOK, Views
  <2>2. QED
    BY <1>2, <2>1
<1>6. QED
  BY <1>3, <1>4, <1>5

\* Publishers leave the pages alone.
LEMMA PublishersReadPages ==
    ASSUME NEW s \in Sessions, PublisherStep(s)
    PROVE  UNCHANGED pageVars
BY DEF PublisherStep, BeginSelect, BeginDrop, BeginReadGeneration, BeginFail,
       BeginCommit, PublishBatch, FinalizeLock, Abort,
       FinalizeStep, FinalizeFail, FinalizeReadPages, FinalizePagesUnreadable,
       FinalizeAcquire, FinalizeBusy, FinalizeCheckBase, FinalizeCheckGeneration,
       FinalizeActivate, FinalizeLinkRefused, Return

\* Every step keeps the numbering of the pages.
LEMMA NumberingKept ==
    ASSUME TypeOK, PagesAreNumbered, [Next]_vars
    PROVE  PagesAreNumbered'
<1>a. generation \in Nat
  BY DEF TypeOK
<1>1. CASE ~PageStep
  <2>1. UNCHANGED <<pages, generation, history>>
    BY <1>1, PublishersReadPages DEF Next, Tick, vars, clockVars, pageVars
  <2>2. QED
    BY <2>1 DEF PagesAreNumbered
<1>2. CASE PageStep
  <2>b. PICK p \in Pages : (\E t \in Texts : WritePage(p, t) \/ UpdatePage(p, t)) \/ DeletePage(p)
    BY <1>2 DEF PageStep
  <2>m. /\ generation' = generation + 1
        /\ \A q \in Pages \ {p} : pages'[q] = pages[q]
        /\ \A g \in 0..generation : history'[g] = history[g]
        /\ \A q \in Pages : history'[generation'][q] = pages'[q].text
        /\ \/ pages[p].text = None /\ pages'[p].id = generation + 1
           \/ pages[p].text # None /\ pages'[p].text # None /\ pages'[p].id = pages[p].id
           \/ pages'[p].text = None
    BY <2>b, PageMoves
  <2>1. ASSUME NEW q \in Pages, pages'[q].text # None
        PROVE  /\ pages'[q].id \in 1..generation'
               /\ \A g \in pages'[q].id..generation' : history'[g][q] # None
               /\ pages'[q].id = generation + 1 \/ (pages[q].text # None /\ pages'[q].id = pages[q].id)
    <3>1. pages'[q].id = generation + 1 \/ (pages[q].text # None /\ pages'[q].id = pages[q].id)
      BY <2>m, <2>1
    <3>2. CASE pages'[q].id = generation + 1
      BY <1>a, <2>m, <2>1, <3>2
    <3>3. CASE pages[q].text # None /\ pages'[q].id = pages[q].id
      BY <1>a, <2>m, <2>1, <3>3 DEF PagesAreNumbered
    <3>4. QED
      BY <3>1, <3>2, <3>3
  <2>2. ASSUME NEW q \in Pages, NEW r \in Pages, pages'[q].text # None, pages'[r].text # None,
               pages'[q].id = pages'[r].id
        PROVE  q = r
    <3>1. CASE pages'[q].id = generation + 1
      <4>1. \A x \in Pages \ {p} : pages'[x].text # None => pages'[x].id # generation + 1
        BY <1>a, <2>m DEF PagesAreNumbered
      <4>2. QED
        BY <2>2, <3>1, <4>1
    <3>2. CASE pages'[q].id # generation + 1
      BY <1>a, <2>1, <2>2, <3>2 DEF PagesAreNumbered
    <3>3. QED
      BY <3>1, <3>2
  <2>3. QED
    BY <2>1, <2>2 DEF PagesAreNumbered
<1>3. QED
  BY <1>1, <1>2

\* A page step keeps the numbering, and takes away the links it must.
LEMMA PageStepLinks ==
    ASSUME PublicationInv, LinksInv, PageStep
    PROVE  LinksInv'
<1>a. /\ TypeOK /\ ViewsAreHistory /\ ActiveIsWhole /\ RowsAgree /\ CallsHoldRows
      /\ PagesAreNumbered /\ ViewsAreNumbered /\ ActiveLinksFollowPages /\ generation \in Nat
  BY DEF PublicationInv, LinksInv, TypeOK
<1>b. PICK p \in Pages : (\E t \in Texts : WritePage(p, t) \/ UpdatePage(p, t)) \/ DeletePage(p)
  BY DEF PageStep
<1>2. /\ generation' = generation + 1
      /\ \A q \in Pages \ {p} : pages'[q] = pages[q]
      /\ UNCHANGED <<session, snapshot, active, call>>
  BY <1>a, <1>b, PageMoves
<1>3. \/ pages[p].text = None /\ pages'[p].id = generation + 1 /\ UNCHANGED links
      \/ /\ pages[p].text # None /\ pages'[p].text # None
         /\ pages'[p].id = pages[p].id /\ UNCHANGED links
      \/ /\ pages'[p].text = None
         /\ links' = [s \in Sessions |-> {l \in links[s] : l.id # pages[p].id}]
         /\ pages[p].text # None
  BY <1>a, <1>b, PageMoves
<1>4. PagesAreNumbered'
  BY <1>a, NumberingKept DEF Next
<1>5. ViewsAreNumbered'
  BY <1>a, <1>2 DEF ViewsAreNumbered, TypeOK, Calls, Views, PageRows
<1>6. ActiveLinksFollowPages'
  <2> SUFFICES ASSUME active # None
               PROVE  /\ \A q \in PagesSince(active)' : snapshot[active].mdRev[q] # None
                      /\ links'[active] =
                            {[id |-> pages'[q].id, text |-> snapshot[active].mdRev[q]] :
                               q \in PagesSince(active)'}
    BY <1>2 DEF ActiveLinksFollowPages, PagesSince
  <2>1. active \in Sessions /\ snapshot[active].mdGen <= generation /\ snapshot[active].mdGen \in Nat
    BY <1>a DEF TypeOK, ActiveIsWhole, ViewsAreHistory, SnapshotRows
  <2>2. PagesSince(active)' = {q \in Pages : pages'[q].text # None
                                             /\ pages'[q].id <= snapshot[active].mdGen}
    BY <1>2 DEF PagesSince
  <2>3. /\ \A q \in PagesSince(active) : snapshot[active].mdRev[q] # None
        /\ links[active] = {[id |-> pages[q].id, text |-> snapshot[active].mdRev[q]] :
                               q \in PagesSince(active)}
    BY <1>a DEF ActiveLinksFollowPages
  <2>4. CASE pages[p].text = None /\ pages'[p].id = generation + 1 /\ UNCHANGED links
    <3>1. p \notin PagesSince(active) /\ p \notin PagesSince(active)'
      BY <1>a, <2>1, <2>2, <2>4 DEF PagesSince
    <3>2. PagesSince(active)' = PagesSince(active)
      BY <1>2, <2>2, <3>1 DEF PagesSince
    <3>3. \A q \in PagesSince(active) : pages'[q] = pages[q]
      BY <1>2, <3>1 DEF PagesSince
    <3>4. QED
      BY <2>3, <2>4, <3>2, <3>3
  <2>5. CASE /\ pages[p].text # None /\ pages'[p].text # None
             /\ pages'[p].id = pages[p].id /\ UNCHANGED links
    <3>1. PagesSince(active)' \subseteq PagesSince(active)
      BY <1>2, <2>2, <2>5 DEF PagesSince
    <3>3. PagesSince(active)' = PagesSince(active)
      BY <1>2, <2>2, <2>5 DEF PagesSince
    <3>4. \A q \in PagesSince(active) : pages'[q].id = pages[q].id
      BY <1>2, <2>5 DEF PagesSince
    <3>5. QED
      BY <2>3, <2>5, <3>3, <3>4
  <2>6. CASE /\ pages'[p].text = None /\ pages[p].text # None
             /\ links' = [s \in Sessions |-> {l \in links[s] : l.id # pages[p].id}]
    <3>1. PagesSince(active)' = PagesSince(active) \ {p}
      BY <1>2, <2>2, <2>6 DEF PagesSince
    <3>2. \A q \in PagesSince(active) : pages[q].id = pages[p].id => q = p
      BY <1>a, <2>6 DEF PagesSince, PagesAreNumbered
    <3>3. \A q \in PagesSince(active) \ {p} : pages'[q] = pages[q]
      BY <1>2 DEF PagesSince
    <3>4. links'[active] = {l \in links[active] : l.id # pages[p].id}
      BY <2>1, <2>6
    <3>5. links'[active] = {[id |-> pages[q].id, text |-> snapshot[active].mdRev[q]] :
                               q \in PagesSince(active) \ {p}}
      BY <2>3, <3>2, <3>4
    <3>6. QED
      BY <2>3, <3>1, <3>3, <3>5
  <2>7. QED
    BY <1>3, <2>4, <2>5, <2>6
<1>7. QED
  BY <1>4, <1>5, <1>6 DEF LinksInv

\* _activate stores the links of the pages it has read, all of them still there.
LEMMA ActivateLinks ==
    ASSUME PublicationInv, LinksInv, NEW s \in Sessions, FinalizeActivate(s)
    PROVE  ActiveLinksFollowPages'
<1>a. /\ TypeOK /\ ViewsAreHistory /\ RowsAgree /\ CallsHoldRows
      /\ PagesAreNumbered /\ ViewsAreNumbered /\ generation \in Nat
  BY DEF PublicationInv, LinksInv, TypeOK
<1> DEFINE view == call[s].view
           gen == session[s].gen
<1>1. /\ view \in Views /\ gen \in Nat /\ gen <= generation /\ snapshot[s].mdGen = gen
  BY <1>a DEF FinalizeActivate, TypeOK, Calls, SessionRows, RowsAgree, CallsHoldRows, RowLocked
<1>2. \A p \in Pages : history[gen][p] = view[p].text
  <2>1. TextsOf(view) = history[gen]
    BY <1>a DEF FinalizeActivate, ViewsAreHistory
  <2>2. \A p \in Pages : TextsOf(view)[p] = view[p].text
    BY DEF TextsOf
  <2>3. QED
    BY <2>1, <2>2
<1>3. \A p \in Pages : view[p].text # None =>
         pages[p].text # None /\ pages[p].id = view[p].id /\ view[p].id <= gen
  BY <1>a DEF FinalizeActivate, LinkTargetsExist, ViewsAreNumbered
<1>4. \A p \in Pages : pages[p].text # None /\ pages[p].id <= gen => view[p].text # None
  BY <1>a, <1>1, <1>2 DEF PagesAreNumbered
<1>5. /\ active' = s /\ pages' = pages
      /\ snapshot'[s].mdGen = gen /\ snapshot'[s].mdRev = TextsOf(view)
      /\ links'[s] = Derive(view)
  BY <1>a, <1>1 DEF FinalizeActivate, clockVars, pageVars, TypeOK, SnapshotRows
<1>6. PagesSince(active)' = {p \in Pages : view[p].text # None}
  BY <1>3, <1>4, <1>5 DEF PagesSince
<1>7. \A p \in PagesSince(active)' : /\ snapshot'[s].mdRev[p] = view[p].text
                                    /\ pages'[p].id = view[p].id
  BY <1>3, <1>5, <1>6 DEF TextsOf
<1>8. links'[s] = {[id |-> view[p].id, text |-> view[p].text] : p \in PagesSince(active)'}
  BY <1>5, <1>6 DEF Derive
<1>9. QED
  BY <1>5, <1>6, <1>7, <1>8 DEF ActiveLinksFollowPages

\* Every step keeps the links.
LEMMA LinksKept ==
    ASSUME PublicationInv, LinksInv, [Next]_vars
    PROVE  LinksInv'
<1>1. CASE PageStep
  BY <1>1, PageStepLinks
<1>2. CASE Tick \/ UNCHANGED vars
  <2>1. UNCHANGED <<pages, generation, history, session, snapshot, links, active, call>>
    BY <1>2 DEF Tick, vars, clockVars, pageVars, storeVars
  <2>2. QED
    BY <2>1 DEF LinksInv, PagesAreNumbered, ViewsAreNumbered, ActiveLinksFollowPages, PagesSince
<1>3. ASSUME NEW s \in Sessions, PublisherStep(s)
      PROVE  LinksInv'
  <2>a. PagesAreNumbered /\ ViewsAreNumbered /\ ActiveLinksFollowPages /\ generation \in Nat
    BY DEF LinksInv, PublicationInv, TypeOK
  <2>1. UNCHANGED <<pages, generation, history>>
    BY <1>3, PublishersReadPages DEF clockVars, pageVars
  <2>2. PagesAreNumbered'
    BY <2>1, <2>a DEF PagesAreNumbered
  <2>3. ViewsAreNumbered'
    <3>1. ASSUME NEW t \in Sessions, NEW p \in Pages, call'[t].view[p].text # None,
                 call'[t].phase \in {"read", "holding", "based", "checked"}
          PROVE  /\ call'[t].phase \in {"read", "holding", "based"} =>
                       call'[t].view[p].id <= generation
                 /\ call'[t].phase = "checked" => call'[t].view[p].id <= session[t].gen
      <4>1. CASE call'[t] = call[t]
        BY <2>a, <3>1, <4>1 DEF ViewsAreNumbered
      <4>2. CASE call'[t].phase = "read" /\ call'[t].view = pages
        BY <2>a, <3>1, <4>2 DEF PagesAreNumbered
      <4>3. CASE /\ call'[t].view = call[t].view
                 /\ call[t].phase \in {"read", "holding", "based"}
                 /\ call'[t].phase = "checked" => session[t].gen = generation
        BY <2>a, <3>1, <4>3 DEF ViewsAreNumbered
      <4>4. QED
        BY <1>3, <3>1, <4>1, <4>2, <4>3, ViewsMove
    <3>2. \A t \in Sessions : call'[t].phase \in {"read", "holding", "based", "checked"} =>
             session'[t].gen = session[t].gen
      BY <1>3, ViewsMove
    <3>3. QED
      BY <2>1, <3>1, <3>2 DEF ViewsAreNumbered
  <2>4. ActiveLinksFollowPages'
    <3>1. CASE FinalizeActivate(s)
      BY <3>1, ActivateLinks
    <3>2. CASE ~FinalizeActivate(s)
      <4>1. /\ UNCHANGED <<pages, links, active>>
            /\ active # None => snapshot'[active].mdRev = snapshot[active].mdRev
                                /\ snapshot'[active].mdGen = snapshot[active].mdGen
        BY <1>3, <3>2, OnlyActivateMovesLinks
      <4>2. QED
        BY <2>a, <4>1 DEF ActiveLinksFollowPages, PagesSince
    <3>3. QED
      BY <3>1, <3>2
  <2>5. QED
    BY <2>2, <2>3, <2>4 DEF LinksInv
<1>4. QED
  BY <1>1, <1>2, <1>3 DEF Next

\* Links that are reported current are the links of the pages of now, but for
\* pages that were deleted and written again.
THEOREM CurrentLinks == Spec => []CurrentLinksAreDerived
<1>1. Init => LinksInv
  BY DEF Init, LinksInv, PagesAreNumbered, ViewsAreNumbered, ActiveLinksFollowPages,
         NoPages, IdleCall
<1>2. PublicationInv /\ LinksInv /\ [Next]_vars => LinksInv'
  BY LinksKept
<1>3. PublicationInv /\ LinksInv => CurrentLinksAreDerived
  <2> SUFFICES ASSUME PublicationInv, LinksInv, ReportedCurrent
               PROVE  links[active] = {[id |-> pages[p].id, text |-> pages[p].text] :
                                          p \in PagesSince(active)}
    BY DEF CurrentLinksAreDerived
  <2>1. /\ active \in Sessions /\ snapshot[active].mdRev = history[snapshot[active].mdGen]
        /\ history[generation] = TextsOf(pages)
    BY DEF PublicationInv, TypeOK, ReportedCurrent, ActiveIsWhole, GenerationNamesRevision,
           ViewsAreHistory
  <2>2. snapshot[active].mdRev = TextsOf(pages)
    BY <2>1 DEF ReportedCurrent
  <2>3. \A p \in PagesSince(active) : snapshot[active].mdRev[p] = pages[p].text
    BY <2>2 DEF TextsOf, PagesSince
  <2>4. links[active] = {[id |-> pages[p].id, text |-> snapshot[active].mdRev[p]] :
                            p \in PagesSince(active)}
    BY DEF LinksInv, ActiveLinksFollowPages, ReportedCurrent
  <2>5. QED
    BY <2>3, <2>4
<1>4. QED
  BY <1>1, <1>2, <1>3, InvariantHolds, PTL DEF Spec

-----------------------------------------------------------------------------
(* What publication does, whoever else changes the active snapshot *)

\* The calls that write no table.
QuietCall(s) ==
    \/ BeginSelect(s) \/ BeginDrop(s) \/ BeginReadGeneration(s) \/ BeginFail(s)
    \/ FinalizeFail(s)
    \/ FinalizeReadPages(s) \/ FinalizePagesUnreadable(s)
    \/ FinalizeAcquire(s) \/ FinalizeBusy(s)
    \/ FinalizeCheckBase(s) \/ FinalizeCheckGeneration(s)
    \/ FinalizeLinkRefused(s)

\* A call that writes no table keeps what calls hold.
LEMMA QuietCallKept ==
    ASSUME TypeOK, RowsAgree, CallsHoldRows, NEW s \in Sessions,
           QuietCall(s) \/ \E o \in Owners : FinalizeLock(s, o)
    PROVE  CallsHoldRows' /\ UNCHANGED <<clockVars, pageVars, storeVars>>
<1> DEFINE Begins == \/ BeginSelect(s) \/ BeginDrop(s)
                     \/ BeginReadGeneration(s) \/ BeginFail(s)
<1>1. UNCHANGED <<clockVars, pageVars, storeVars>>
  BY DEF QuietCall, BeginSelect, BeginDrop, BeginReadGeneration, BeginFail,
         FinalizeFail, FinalizeReadPages, FinalizePagesUnreadable,
         FinalizeAcquire, FinalizeBusy, FinalizeCheckBase, FinalizeCheckGeneration,
         FinalizeLinkRefused, FinalizeLock, Return
<1>2. call[s] \in Calls
  BY DEF TypeOK
<1>3. CASE Begins
  BY <1>1, <1>3, BeginStepHeld, CallsHeld
<1>4. CASE call' = call
  BY <1>1, <1>4, MaterializedUnchanged DEF CallsHoldRows, RowLocked, pageVars, storeVars
<1>5. ASSUME NEW o \in Owners, FinalizeLock(s, o), call' # call
      PROVE  CallsHoldRows'
  <2>1. PICK now \in CallTimes :
           /\ FinalizeVerdict(s, o, now) = "complete"
           /\ call' = [call EXCEPT ![s].phase = "locked", ![s].now = now]
    BY <1>5 DEF FinalizeLock
  <2>2. session[s].state = "staging" /\ Materialized(s) = "complete"
    BY <2>1, FinalizeVerdictType
  <2>3. /\ call'[s].phase = "locked" /\ call'[s].expired = call[s].expired
        /\ call'[s].dropped = call[s].dropped
        /\ \A t \in Sessions \ {s} : call'[t] = call[t]
    BY <1>2, <2>1 DEF TypeOK, Calls
  <2>4. ~BeingDropped(s) /\ \A e \in call'[s].dropped : ~RowLocked(e)'
    BY <1>5, <2>3, DroppedStay DEF FinalizeLock
  <2>5. \A e \in call'[s].expired \cup call'[s].dropped : session[e].state # "none"
    BY <2>3 DEF CallsHoldRows
  <2>6. QED
    BY <1>1, <2>2, <2>3, <2>4, <2>5, CallsHeld
<1>6. CASE QuietCall(s) /\ ~Begins
  <2>2. \A t \in Sessions \ {s} : call'[t] = call[t]
    BY <1>6 DEF QuietCall, FinalizeFail, FinalizeReadPages, FinalizePagesUnreadable,
                FinalizeAcquire, FinalizeBusy, FinalizeCheckBase, FinalizeCheckGeneration,
                FinalizeLinkRefused, Return, TypeOK
  <2>3. \/ call'[s] = IdleCall
        \/ /\ RowLocked(s) /\ call'[s].expired = call[s].expired
           /\ call'[s].dropped = call[s].dropped
           /\ call'[s].phase \notin {"cleaning", "counted"}
    BY <1>6, <1>2 DEF QuietCall, FinalizeFail, FinalizeReadPages, FinalizePagesUnreadable,
                FinalizeAcquire, FinalizeBusy, FinalizeCheckBase, FinalizeCheckGeneration,
                FinalizeLinkRefused, Return, RowLocked, TypeOK, Calls
  <2>4. CASE call'[s] = IdleCall
    BY <1>1, <2>2, <2>4, CallsHeld DEF IdleCall, RowLocked
  <2>5. CASE /\ RowLocked(s) /\ call'[s].expired = call[s].expired
             /\ call'[s].dropped = call[s].dropped
             /\ call'[s].phase \notin {"cleaning", "counted"}
    <3>1. ~BeingDropped(s) /\ \A e \in call'[s].dropped : ~RowLocked(e)'
      BY <2>2, <2>5, DroppedStay
    <3>2. \A e \in call'[s].expired \cup call'[s].dropped : session[e].state # "none"
      BY <2>5 DEF CallsHoldRows
    <3>3. session[s].state = "staging" /\ Materialized(s) = "complete"
      BY <2>5 DEF CallsHoldRows
    <3>4. QED
      BY <1>1, <2>2, <2>5, <3>1, <3>2, <3>3, CallsHeld
  <2>6. QED
    BY <2>3, <2>4, <2>5
<1>7. QED
  BY <1>1, <1>3, <1>4, <1>5, <1>6

\* A batch or an abort writes the rows of a session that nobody holds.
LEMMA OwnRowsKept ==
    ASSUME TypeOK, RowsAgree, CallsHoldRows, NEW s \in Sessions, NEW o \in Owners,
           \/ Abort(s, o)
           \/ \E x \in Slots \cup {BadSlot}, c \in Payloads : PublishBatch(s, o, x, c)
    PROVE  /\ RowsAgree' /\ CallsHoldRows'
           /\ UNCHANGED <<pageVars, rows, links, active, call>>
           /\ \A t \in Sessions : \/ snapshot'[t] = snapshot[t]
                                 \/ /\ snapshot[t].state \in {"staging", "failed"}
                                    /\ snapshot'[t].state = "failed"
<1> DEFINE Kept == /\ session'[s].state = session[s].state
                   /\ session'[s].gen = session[s].gen
                   /\ snapshot'[s] = snapshot[s]
           Failed == session'[s].state = "aborted" /\ snapshot'[s].state = "failed"
           Quiet == UNCHANGED <<pageVars, rows, links, active, call, session, batches,
                                snapshot>>
           Written ==
              /\ UNCHANGED <<pageVars, rows, links, active, call>>
              /\ call[s].phase = "idle" /\ session[s].state \in {"staging", "aborted"}
              /\ \A t \in Sessions \ {s} :
                    /\ session'[t] = session[t] /\ batches'[t] = batches[t]
                    /\ snapshot'[t] = snapshot[t]
              /\ Kept \/ Failed
<1>1. Quiet \/ Written
  <2>1. CASE Abort(s, o)
    <3>1. CASE AbortVerdict(s, o) = "aborted"
      <4>1. session[s].state \in {"staging", "aborted"}
        BY <3>1, AbortVerdictType
      <4>2. /\ session' = [session EXCEPT ![s].state = "aborted"]
            /\ batches' = [batches EXCEPT ![s] = [y \in Slots |-> None]]
            /\ snapshot' = [snapshot EXCEPT ![s].state = "failed"]
        BY <2>1, <3>1 DEF Abort
      <4>3. Failed
        BY <4>2 DEF TypeOK, SessionRows, SnapshotRows
      <4>4. \A t \in Sessions \ {s} : /\ session'[t] = session[t] /\ batches'[t] = batches[t]
                                     /\ snapshot'[t] = snapshot[t]
        BY <4>2 DEF TypeOK
      <4>5. QED
        BY <2>1, <4>1, <4>3, <4>4 DEF Abort
    <3>2. CASE AbortVerdict(s, o) # "aborted"
      BY <2>1, <3>2 DEF Abort
    <3>3. QED
      BY <3>1, <3>2
  <2>2. ASSUME NEW x \in Slots \cup {BadSlot}, NEW c \in Payloads, PublishBatch(s, o, x, c)
        PROVE  Quiet \/ Written
    <3>1. PICK now \in CallTimes :
             LET verdict == BatchVerdict(s, o, now, x, c) IN
             \/ /\ verdict = "accepted"
                /\ batches' = [batches EXCEPT ![s][x] = c]
                /\ session' = [session EXCEPT ![s].lease = now + Ttl]
             \/ /\ verdict # "accepted"
                /\ UNCHANGED <<batches, session>>
      BY <2>2 DEF PublishBatch
    <3>2. CASE BatchVerdict(s, o, now, x, c) = "accepted"
      <4>1. session[s].state = "staging"
        BY <3>2, BatchVerdictType
      <4>2. /\ session' = [session EXCEPT ![s].lease = now + Ttl]
            /\ batches' = [batches EXCEPT ![s][x] = c]
        BY <3>1, <3>2
      <4>3. session'[s].state = session[s].state /\ session'[s].gen = session[s].gen
        BY <4>2 DEF TypeOK, SessionRows
      <4>4. \A t \in Sessions \ {s} : session'[t] = session[t] /\ batches'[t] = batches[t]
        BY <4>2 DEF TypeOK
      <4>5. QED
        BY <2>2, <4>1, <4>3, <4>4 DEF PublishBatch
    <3>3. CASE BatchVerdict(s, o, now, x, c) # "accepted"
      BY <2>2, <3>1, <3>3 DEF PublishBatch
    <3>4. QED
      BY <3>2, <3>3
  <2>3. QED
    BY <2>1, <2>2
<1>2. CASE Quiet
  <2>1. \A t \in Sessions : Materialized(t)' = Materialized(t)
    BY <1>2, MaterializedUnchanged
  <2>2. QED
    BY <1>2, <2>1 DEF RowsAgree, CallsHoldRows, RowLocked, clockVars, pageVars
<1>3. CASE Written
  <2>1. \A t \in Sessions \ {s} : Materialized(t)' = Materialized(t)
    BY <1>3, MaterializedUnchanged
  <2>2. RowsAgree'
    BY <1>3 DEF RowsAgree, clockVars, pageVars
  <2>3. CallsHoldRows'
    <3>1. \A t \in Sessions : RowLocked(t)' = RowLocked(t)
      BY <1>3 DEF RowLocked
    <3>2. ~RowLocked(s) /\ session'[s].state # "none"
      BY <1>3 DEF RowLocked
    <3>3. \A t \in Sessions : call[t].expired \subseteq Sessions /\ call[t].dropped \subseteq Sessions
      BY DEF TypeOK, Calls
    <3>4. generation' = generation
      BY <1>3 DEF pageVars
    <3>5. \A t \in Sessions : \A e \in call'[t].expired \cup call'[t].dropped :
             session'[e].state # "none"
      BY <1>3, <3>2, <3>3 DEF CallsHoldRows
    <3>6. \A t \in Sessions : \A e \in call'[t].dropped : ~RowLocked(e)'
      BY <1>3, <3>1, <3>3 DEF CallsHoldRows
    <3>7. \A t \in Sessions : RowLocked(t)' => session'[t].state = "staging"
                                              /\ Materialized(t)' = "complete"
      BY <1>3, <2>1, <3>1, <3>2 DEF CallsHoldRows
    <3>8. QED
      BY <1>3, <3>4, <3>5, <3>6, <3>7 DEF CallsHoldRows
  <2>4. QED
    BY <1>3, <2>2, <2>3 DEF RowsAgree
<1>4. QED
  BY <1>1, <1>2, <1>3

\* The commit of begin, whatever the active snapshot is.
LEMMA BeginKept ==
    ASSUME TypeOK, RowsAgree, CallsHoldRows, NEW s \in Sessions, NEW o \in Owners,
           NEW p \in Payloads, BeginCommit(s, o, p)
    PROVE  /\ RowsAgree' /\ CallsHoldRows'
           /\ UNCHANGED <<pageVars, rows, links, active>>
           /\ \A t \in Sessions : \/ snapshot'[t] = snapshot[t]
                                 \/ /\ snapshot[t].state \in {"none", "staging", "failed"}
                                    /\ snapshot'[t].state # "ready"
<1>1. UNCHANGED <<pageVars, rows, links, active>> /\ generation' = generation
      /\ call[s].gen <= generation
  BY DEF BeginCommit, pageVars, CallsHoldRows
<1>r. session'[s] = [state |-> "staging", owner |-> o, lease |-> call[s].now + Ttl,
                     base |-> ActiveRevision, gen |-> call[s].gen]
  BY BeginCommitRows
<1>2. /\ session'[s].state = "staging" /\ session'[s].gen = call[s].gen
      /\ snapshot'[s].state = "staging" /\ snapshot'[s].payload = p
      /\ snapshot'[s].mdGen = call[s].gen
      /\ session[s].state = "none" /\ ~RowLocked(s)
      /\ call'[s] = IdleCall
  BY <1>r, BeginCommitRows
<1>3. \A t \in Sessions \ {s} :
         /\ call'[t] = call[t]
         /\ \/ /\ session'[t] = session[t] /\ snapshot'[t] = snapshot[t]
               /\ batches'[t] = batches[t]
            \/ /\ session[t].state # "none" /\ ~RowLocked(t)
               /\ session'[t].state = "deleted"
               /\ \/ snapshot'[t] = snapshot[t]
                  \/ /\ snapshot[t].state = "staging"
                     /\ snapshot'[t].state = "deleted"
  BY BeginCommitRows
<1>4. generation \in Nat /\ \A t \in Sessions : call[t].expired \cup call[t].dropped \subseteq Sessions
  BY DEF TypeOK, Calls
<1>5. RowsAgree'
  BY <1>1, <1>2, <1>3, <1>4 DEF RowsAgree
<1>6. ASSUME NEW t \in Sessions
      PROVE  /\ call'[t].phase \in {"cleaning", "counted"} => session'[t].state = "none"
             /\ RowLocked(t)' => session'[t].state = "staging" /\ Materialized(t)' = "complete"
             /\ \A e \in call'[t].expired \cup call'[t].dropped : session'[e].state # "none"
  <2>1. CASE t = s
    BY <1>2, <2>1 DEF IdleCall, RowLocked
  <2>2. CASE t # s
    <3>1. \A e \in call'[t].expired \cup call'[t].dropped : session'[e].state # "none"
      BY <1>2, <1>3, <1>4, <2>2 DEF CallsHoldRows
    <3>2. RowLocked(t)' <=> RowLocked(t)
      BY <1>3, <2>2 DEF RowLocked
    <3>3. CASE session'[t] = session[t] /\ snapshot'[t] = snapshot[t] /\ batches'[t] = batches[t]
      <4>1. Materialized(t)' = Materialized(t)
        BY <3>3, MaterializedUnchanged
      <4>2. QED
        BY <1>3, <2>2, <3>1, <3>2, <3>3, <4>1 DEF CallsHoldRows
    <3>4. CASE session[t].state # "none" /\ ~RowLocked(t) /\ session'[t].state = "deleted"
      BY <1>3, <2>2, <3>1, <3>2, <3>4 DEF CallsHoldRows
    <3>5. QED
      BY <1>3, <2>2, <3>3, <3>4
  <2>3. QED
    BY <2>1, <2>2
<1>7. CallsHoldRows'
  <2>1. ~RowLocked(s)' /\ \A t \in Sessions \ {s} : RowLocked(t)' = RowLocked(t)
    BY <1>2, <1>3 DEF RowLocked, IdleCall
  <2>2. \A t \in Sessions : \A e \in call'[t].dropped : ~RowLocked(e)'
    BY <1>2, <1>3, <1>4, <2>1 DEF CallsHoldRows, IdleCall
  <2>3. \A t \in Sessions : call'[t].phase = "counted" => call'[t].gen <= generation'
    BY <1>1, <1>2, <1>3 DEF CallsHoldRows, IdleCall
  <2>4. QED
    BY <1>6, <2>2, <2>3 DEF CallsHoldRows
<1>8. snapshot[s].state = "none" /\ snapshot'[s].state # "ready"
  BY <1>2 DEF RowsAgree
<1>9. QED
  BY <1>1, <1>3, <1>5, <1>7, <1>8

\* What _activate writes, whatever snapshot it replaces.
LEMMA ActivateKept ==
    ASSUME TypeOK, RowsAgree, CallsHoldRows, NEW s \in Sessions, FinalizeActivate(s)
    PROVE  /\ RowsAgree' /\ CallsHoldRows'
           /\ UNCHANGED <<clockVars, pageVars>>
           /\ active' = s /\ rows'[s] = FullRows
           /\ links'[s] = Derive(call[s].view)
           /\ \A t \in Sessions \ {s} : snapshot'[t] = snapshot[t]
           /\ snapshot[s].state = "staging" /\ snapshot'[s].state = "ready"
           /\ snapshot'[s].mdGen <= generation
           /\ snapshot'[s].mdRev = TextsOf(call[s].view)
           /\ LinkTargetsExist(call[s].view)
<1>1. session[s].state = "staging" /\ snapshot[s].state = "staging"
      /\ snapshot[s].mdGen <= generation
  BY DEF FinalizeActivate, RowsAgree, CallsHoldRows, RowLocked
<1>2. /\ UNCHANGED <<clockVars, pageVars, batches>> /\ active' = s
      /\ rows'[s] = FullRows /\ links'[s] = Derive(call[s].view)
      /\ LinkTargetsExist(call[s].view) /\ generation' = generation
  BY DEF FinalizeActivate, clockVars, pageVars, TypeOK
<1>3. \A t \in Sessions \ {s} : /\ snapshot'[t] = snapshot[t] /\ session'[t] = session[t]
                               /\ call'[t] = call[t]
  BY DEF FinalizeActivate, TypeOK
<1>4. /\ snapshot'[s].state = "ready" /\ snapshot'[s].mdGen = snapshot[s].mdGen
      /\ snapshot'[s].mdRev = TextsOf(call[s].view)
      /\ session'[s].state = "ready" /\ call'[s] = IdleCall
  BY DEF FinalizeActivate, TypeOK, SnapshotRows, SessionRows
<1>5. RowsAgree'
  BY <1>2, <1>3, <1>4 DEF RowsAgree
<1>6. CallsHoldRows'
  <2>1. \A t \in Sessions \ {s} : Materialized(t)' = Materialized(t)
    BY <1>2, <1>3, MaterializedUnchanged
  <2>2. \A t \in Sessions : call[t].expired \subseteq Sessions /\ call[t].dropped \subseteq Sessions
    BY DEF TypeOK, Calls
  <2>3. QED
    BY <1>2, <1>3, <1>4, <2>1, <2>2 DEF CallsHoldRows, RowLocked, IdleCall
<1>7. QED
  BY <1>1, <1>2, <1>3, <1>4, <1>5, <1>6

\* A step of publication either leaves pages, rows, links and the active
\* snapshot alone, or changes a page, or activates.
LEMMA PublicationMoves ==
    ASSUME TypeOK, RowsAgree, CallsHoldRows, PagesAreNumbered, Next
    PROVE  /\ TypeOK' /\ RowsAgree' /\ CallsHoldRows' /\ PagesAreNumbered'
           /\ \/ PageStep
              \/ \E s \in Sessions : FinalizeActivate(s)
              \/ /\ UNCHANGED <<pages, generation, history, rows, links, active>>
                 /\ \A t \in Sessions : \/ snapshot'[t] = snapshot[t]
                                       \/ /\ snapshot[t].state \in {"none", "staging", "failed"}
                                          /\ snapshot'[t].state # "ready"
<1>1. TypeOK' /\ PagesAreNumbered'
  BY NextType, NumberingKept
<1>2. CASE Tick
  <2>1. UNCHANGED <<pages, generation, history, rows, links, active, session, snapshot,
                    batches, call>>
    BY <1>2 DEF Tick, clockVars, pageVars, storeVars
  <2>2. \A t \in Sessions : Materialized(t)' = Materialized(t)
    BY <2>1, MaterializedUnchanged
  <2>3. RowsAgree' /\ CallsHoldRows'
    BY <2>1, <2>2 DEF RowsAgree, CallsHoldRows, RowLocked
  <2>4. QED
    BY <1>1, <2>1, <2>3
<1>3. CASE PageStep
  <2>1. PICK p \in Pages : (\E t \in Texts : WritePage(p, t) \/ UpdatePage(p, t)) \/ DeletePage(p)
    BY <1>3 DEF PageStep
  <2>2. generation' = generation + 1 /\ UNCHANGED <<session, batches, snapshot, call>>
    BY <2>1, PageMoves
  <2>3. \A t \in Sessions : Materialized(t)' = Materialized(t)
    BY <2>2, MaterializedUnchanged
  <2>4. generation \in Nat /\ \A t \in Sessions : session[t].gen \in Nat /\ call[t].gen \in Nat
    BY DEF TypeOK, SessionRows, Calls
  <2>5. RowsAgree' /\ CallsHoldRows'
    BY <2>2, <2>3, <2>4 DEF RowsAgree, CallsHoldRows, RowLocked
  <2>6. QED
    BY <1>1, <1>3, <2>5
<1>4. ASSUME NEW s \in Sessions, PublisherStep(s)
      PROVE  /\ RowsAgree' /\ CallsHoldRows'
             /\ \/ FinalizeActivate(s)
                \/ /\ UNCHANGED <<pages, generation, history, rows, links, active>>
                   /\ \A t \in Sessions :
                         \/ snapshot'[t] = snapshot[t]
                         \/ /\ snapshot[t].state \in {"none", "staging", "failed"}
                            /\ snapshot'[t].state # "ready"
  <2>1. CASE QuietCall(s) \/ \E o \in Owners : FinalizeLock(s, o)
    <3>1. CallsHoldRows' /\ UNCHANGED <<clockVars, pageVars, storeVars>>
      BY <2>1, QuietCallKept
    <3>2. QED
      BY <3>1 DEF RowsAgree, clockVars, pageVars, storeVars
  <2>2. ASSUME NEW o \in Owners, NEW p \in Payloads, BeginCommit(s, o, p)
        PROVE  /\ RowsAgree' /\ CallsHoldRows'
               /\ UNCHANGED <<pages, generation, history, rows, links, active>>
               /\ \A t \in Sessions :
                     \/ snapshot'[t] = snapshot[t]
                     \/ /\ snapshot[t].state \in {"none", "staging", "failed"}
                        /\ snapshot'[t].state # "ready"
    BY <2>2, BeginKept DEF clockVars, pageVars
  <2>3. ASSUME NEW o \in Owners,
               \/ Abort(s, o)
               \/ \E x \in Slots \cup {BadSlot}, c \in Payloads : PublishBatch(s, o, x, c)
        PROVE  /\ RowsAgree' /\ CallsHoldRows'
               /\ UNCHANGED <<pages, generation, history, rows, links, active>>
               /\ \A t \in Sessions :
                     \/ snapshot'[t] = snapshot[t]
                     \/ /\ snapshot[t].state \in {"none", "staging", "failed"}
                        /\ snapshot'[t].state # "ready"
    BY <2>3, OwnRowsKept DEF clockVars, pageVars
  <2>4. CASE FinalizeActivate(s)
    BY <2>4, ActivateKept
  <2>5. QED
    BY <1>4, <2>1, <2>2, <2>3, <2>4 DEF PublisherStep, FinalizeStep, QuietCall
<1>5. QED
  BY <1>1, <1>2, <1>3, <1>4 DEF Next

-----------------------------------------------------------------------------
(* The life of an activated snapshot *)

\* What was superseded once stays known as superseded.
LEMMA SupersedeMoves ==
    ASSUME TypeOK, supersededAt \in [Sessions -> Nat \cup {None}], Supersede
    PROVE  /\ supersededAt' \in [Sessions -> Nat \cup {None}]
           /\ \A s \in Sessions : supersededAt[s] # None => supersededAt'[s] # None
           /\ \A s \in Sessions : s = active /\ active' # s => supersededAt'[s] # None
BY LifeAssumption, PublicationAssumption DEF Supersede, TypeOK

\* The empty instance of everything.
LEMMA LifeInitInv == LifeInit => LifeInv
<1> SUFFICES ASSUME LifeInit PROVE LifeInv
  OBVIOUS
<1>1. PublicationInv
  BY InitInv DEF LifeInit
<1>2. PagesAreNumbered
  BY DEF LifeInit, Init, PagesAreNumbered, NoPages
<1>3. LifeTypeOK
  BY <1>1, NoPagesType DEF PublicationInv, LifeTypeOK, LifeInit, RefreshRows, DrainRows,
                            IdleRefresh, IdleDrain
<1>4. active = None /\ \A s \in Sessions : snapshot[s].state = "none"
  BY DEF LifeInit, Init, NoSnapshot
<1>5. ReadyOnesKnown /\ RefreshesKnow /\ DrainsKnow /\ LossesBounded /\ LinksStand
  BY <1>4 DEF LifeInit, ReadyOnesKnown, RefreshesKnow, DrainsKnow, LossesBounded, LinksStand,
              IdleRefresh, IdleDrain
<1>6. QED
  BY <1>1, <1>2, <1>3, <1>5 DEF LifeInv, PublicationInv

\* A page step takes from a snapshot no link of a page that is left.
LEMMA PageStepLeavesLinks ==
    ASSUME TypeOK, PagesAreNumbered, PageStep, NEW s \in Sessions,
           snapshot[s].mdGen <= generation, StampedLinks(s) \subseteq links[s]
    PROVE  StampedLinks(s)' \subseteq links'[s]
<1>1. PICK p \in Pages : (\E t \in Texts : WritePage(p, t) \/ UpdatePage(p, t)) \/ DeletePage(p)
  BY DEF PageStep
<1>2. /\ \A q \in Pages \ {p} : pages'[q] = pages[q]
      /\ UNCHANGED snapshot
      /\ \/ pages[p].text = None /\ pages'[p].id = generation + 1 /\ UNCHANGED links
         \/ /\ pages[p].text # None /\ pages'[p].text # None
            /\ pages'[p].id = pages[p].id /\ UNCHANGED links
         \/ /\ pages'[p].text = None
            /\ links' = [t \in Sessions |-> {l \in links[t] : l.id # pages[p].id}]
            /\ pages[p].text # None
  BY <1>1, PageMoves
<1>3. generation \in Nat /\ snapshot[s].mdGen \in Nat
  BY DEF TypeOK, SnapshotRows
<1> SUFFICES ASSUME NEW q \in Pages, pages'[q].text # None, pages'[q].id <= snapshot[s].mdGen,
                    snapshot[s].mdRev[q] # None
             PROVE  [id |-> pages'[q].id, text |-> snapshot[s].mdRev[q]] \in links'[s]
  BY <1>2 DEF StampedLinks, PagesSince
<1>4. pages[q].text # None /\ pages'[q].id = pages[q].id
  BY <1>2, <1>3
<1>5. [id |-> pages[q].id, text |-> snapshot[s].mdRev[q]] \in links[s]
  BY <1>4 DEF StampedLinks, PagesSince
<1>6. CASE UNCHANGED links
  BY <1>4, <1>5, <1>6
<1>7. CASE /\ pages'[p].text = None /\ pages[p].text # None
           /\ links' = [t \in Sessions |-> {l \in links[t] : l.id # pages[p].id}]
  <2>1. q # p /\ pages[q].id # pages[p].id
    BY <1>4, <1>7 DEF PagesAreNumbered
  <2>2. QED
    BY <1>4, <1>5, <1>7, <2>1
<1>8. QED
  BY <1>2, <1>6, <1>7

\* What is to be shown of the snapshot that is active after a step.
LEMMA LinksStandNow ==
    ASSUME TypeOK',
           \A t \in Sessions : active' = t /\ supersededAt'[t] = None =>
              rows'[t] = FullRows /\ StampedLinks(t)' \subseteq links'[t]
    PROVE  LinksStand'
<1>1. active' = None \/ \E t \in Sessions : active' = t
  BY DEF TypeOK
<1>2. CASE active' = None
  BY <1>2 DEF LinksStand
<1>3. ASSUME NEW t \in Sessions, active' = t
      PROVE  LinksStand'
  BY <1>3 DEF LinksStand, StampedLinks, PagesSince
<1>4. QED
  BY <1>1, <1>2, <1>3

\* Publication keeps the invariant: a snapshot that becomes active is new to
\* refreshes and cycles, and the one it replaces is superseded.
LEMMA PublicationKept ==
    ASSUME LifeInv, PublicationStep
    PROVE  LifeInv'
<1>a. /\ TypeOK /\ RowsAgree /\ CallsHoldRows /\ PagesAreNumbered
      /\ ReadyOnesKnown /\ RefreshesKnow /\ DrainsKnow /\ LossesBounded /\ LinksStand
      /\ supersededAt \in [Sessions -> Nat \cup {None}] /\ LifeTypeOK
  BY DEF LifeInv, LifeTypeOK
<1>b. /\ Next /\ UNCHANGED <<refresh, drain, reader, lostActive>>
  BY DEF PublicationStep
<1>s. /\ supersededAt' \in [Sessions -> Nat \cup {None}]
      /\ \A s \in Sessions : supersededAt[s] # None => supersededAt'[s] # None
      /\ \A s \in Sessions : s = active /\ active' # s => supersededAt'[s] # None
  BY <1>a, SupersedeMoves DEF PublicationStep
<1>m. /\ TypeOK' /\ RowsAgree' /\ CallsHoldRows' /\ PagesAreNumbered'
      /\ \/ PageStep
         \/ \E s \in Sessions : FinalizeActivate(s)
         \/ /\ UNCHANGED <<pages, generation, history, rows, links, active>>
            /\ \A t \in Sessions : \/ snapshot'[t] = snapshot[t]
                                  \/ /\ snapshot[t].state \in {"none", "staging", "failed"}
                                     /\ snapshot'[t].state # "ready"
  BY <1>a, <1>b, PublicationMoves
<1>t. LifeTypeOK'
  BY <1>a, <1>b, <1>s, <1>m DEF LifeTypeOK
<1>g. generation' \in Nat /\ generation \in Nat /\ \A s \in Sessions : snapshot[s].mdGen \in Nat
  BY <1>a, <1>m DEF TypeOK, SnapshotRows
<1> DEFINE Stands == /\ ReadyOnesKnown' /\ LinksStand'
                     /\ generation <= generation'
                     /\ \A s \in Sessions : WasReady(s) => WasReady(s)'
                     /\ \A s \in Sessions, d \in Drainers :
                           lostActive[s][d] = 1 /\ s = active' => s = active
<1>1. ASSUME PageStep
      PROVE  Stands
  <2>1. PICK p \in Pages : (\E t \in Texts : WritePage(p, t) \/ UpdatePage(p, t)) \/ DeletePage(p)
    BY <1>1 DEF PageStep
  <2>2. generation' = generation + 1 /\ UNCHANGED <<snapshot, rows, active>>
    BY <1>a, <2>1, PageMoves
  <2>3. ReadyOnesKnown'
    BY <1>a, <1>g, <1>s, <2>2 DEF ReadyOnesKnown
  <2>4. ASSUME NEW t \in Sessions, active' = t, supersededAt'[t] = None
        PROVE  rows'[t] = FullRows /\ StampedLinks(t)' \subseteq links'[t]
    <3>1. active = t /\ active # None /\ supersededAt[t] = None
      BY <1>s, <2>2, <2>4, PublicationAssumption
    <3>2. rows[t] = FullRows /\ StampedLinks(t) \subseteq links[t]
      BY <1>a, <3>1 DEF LinksStand
    <3>3. snapshot[t].mdGen <= generation
      BY <1>a, <3>1 DEF ReadyOnesKnown
    <3>4. StampedLinks(t)' \subseteq links'[t]
      BY <1>a, <1>1, <3>2, <3>3, PageStepLeavesLinks
    <3>5. QED
      BY <2>2, <3>2, <3>4
  <2>5. QED
    <3>1. LinksStand'
      BY <1>m, <2>4, LinksStandNow
    <3>2. \A t \in Sessions : WasReady(t) => WasReady(t)'
      BY <1>s, <2>2 DEF WasReady
    <3>3. QED
      BY <1>g, <2>2, <2>3, <3>1, <3>2
<1>2. ASSUME NEW s \in Sessions, FinalizeActivate(s)
      PROVE  Stands
  <2>1. /\ UNCHANGED <<pages, generation>>
        /\ active' = s /\ rows'[s] = FullRows
        /\ links'[s] = Derive(call[s].view)
        /\ \A t \in Sessions \ {s} : snapshot'[t] = snapshot[t]
        /\ snapshot[s].state = "staging" /\ snapshot'[s].state = "ready"
        /\ snapshot'[s].mdGen <= generation
        /\ snapshot'[s].mdRev = TextsOf(call[s].view)
        /\ LinkTargetsExist(call[s].view)
    BY <1>a, <1>2, ActivateKept DEF clockVars, pageVars
  <2>2. ~WasReady(s) /\ \A d \in Drainers : lostActive[s][d] # 1
    BY <1>a, <2>1 DEF WasReady, LossesBounded
  <2>3. ReadyOnesKnown'
    <3>1. \A t \in Sessions \ {s} : snapshot'[t].state = "ready" =>
             snapshot'[t].mdGen <= generation /\ supersededAt'[t] # None
      BY <1>a, <1>s, <2>1 DEF ReadyOnesKnown
    <3>2. QED
      BY <2>1, <3>1 DEF ReadyOnesKnown
  <2>4. StampedLinks(s)' \subseteq links'[s]
    <3>1. \A p \in Pages : snapshot'[s].mdRev[p] = call[s].view[p].text
      BY <2>1 DEF TextsOf
    <3>2. QED
      BY <2>1, <3>1 DEF StampedLinks, PagesSince, LinkTargetsExist, Derive
  <2>5. LinksStand'
    BY <1>m, <2>1, <2>4, LinksStandNow
  <2>6. \A t \in Sessions : WasReady(t) => WasReady(t)'
    BY <1>s, <2>1, <2>2 DEF WasReady
  <2>7. QED
    BY <1>g, <2>1, <2>2, <2>3, <2>5, <2>6
<1>3. ASSUME UNCHANGED <<pages, generation, history, rows, links, active>>,
             \A t \in Sessions : \/ snapshot'[t] = snapshot[t]
                                 \/ /\ snapshot[t].state \in {"none", "staging", "failed"}
                                    /\ snapshot'[t].state # "ready"
      PROVE  Stands
  <2>1. active # None => active \in Sessions /\ snapshot[active].state = "ready"
    BY <1>a DEF TypeOK, ReadyOnesKnown
  <2>2. ReadyOnesKnown'
    BY <1>a, <1>s, <1>3, <2>1 DEF ReadyOnesKnown
  <2>3. ASSUME NEW t \in Sessions, active' = t, supersededAt'[t] = None
        PROVE  rows'[t] = FullRows /\ StampedLinks(t)' \subseteq links'[t]
    <3>1. active = t /\ active # None /\ supersededAt[t] = None
      BY <1>s, <1>3, <2>3, PublicationAssumption
    <3>2. snapshot'[t] = snapshot[t]
      BY <1>3, <2>1, <3>1
    <3>3. rows[t] = FullRows /\ StampedLinks(t) \subseteq links[t]
      BY <1>a, <3>1 DEF LinksStand
    <3>4. QED
      BY <1>3, <3>2, <3>3 DEF StampedLinks, PagesSince
  <2>4. LinksStand'
    BY <1>m, <2>3, LinksStandNow
  <2>5. \A t \in Sessions : WasReady(t) => WasReady(t)'
    BY <1>s, <1>3 DEF WasReady
  <2>6. QED
    BY <1>g, <1>3, <2>2, <2>4, <2>5
<1>4. Stands
  BY <1>m, <1>1, <1>2, <1>3
<1>5. RefreshesKnow'
  <2> SUFFICES ASSUME NEW r \in Refreshers, refresh[r].phase # "idle"
               PROVE  /\ refresh[r].target \in Sessions /\ WasReady(refresh[r].target)'
                      /\ refresh[r].phase \in {"counted", "deleted"} =>
                            refresh[r].gen <= generation'
                      /\ refresh[r].phase = "deleted" /\ supersededAt'[refresh[r].target] = None =>
                            refresh[r].derived = Derive(refresh[r].view)
    BY <1>b DEF RefreshesKnow, WasReady
  <2>1. PICK s \in Sessions : s = refresh[r].target /\ WasReady(s)
    BY <1>a DEF RefreshesKnow
  <2>2. WasReady(s)'
    BY <1>4, <2>1
  <2>3. WasReady(refresh[r].target)'
    BY <1>b, <2>1, <2>2 DEF WasReady
  <2>4. refresh[r].gen \in Nat
    BY <1>a DEF LifeTypeOK, RefreshRows
  <2>5. QED
    BY <1>a, <1>g, <1>s, <1>4, <2>1, <2>3, <2>4 DEF RefreshesKnow
<1>6. DrainsKnow'
  <2> SUFFICES ASSUME NEW d \in Drainers, drain[d].phase # "idle", NEW s, s = drain[d].target
               PROVE  s \in Sessions /\ WasReady(s)' /\ supersededAt'[s] # None
    BY <1>b DEF DrainsKnow, WasReady
  <2>1. s \in Sessions /\ WasReady(s) /\ supersededAt[s] # None
    BY <1>a DEF DrainsKnow
  <2>2. QED
    BY <1>s, <1>4, <2>1
<1>7. LossesBounded'
  <2> SUFFICES ASSUME NEW s \in Sessions, NEW d \in Drainers
               PROVE  /\ lostActive[s][d] <= 1
                      /\ lostActive[s][d] = 1 => WasReady(s)'
                      /\ lostActive[s][d] = 1 /\ s = active' =>
                            ~(drain[d].phase = "checked" /\ drain[d].target = s)
    BY <1>b DEF LossesBounded
  <2>1. QED
    BY <1>a, <1>4 DEF LossesBounded
<1>8. QED
  BY <1>m, <1>t, <1>4, <1>5, <1>6, <1>7 DEF LifeInv

\* A step that writes no table of publication and supersedes nothing.
LEMMA TablesStand ==
    ASSUME LifeInv, UNCHANGED <<vars, supersededAt>>
    PROVE  /\ TypeOK' /\ RowsAgree' /\ CallsHoldRows' /\ PagesAreNumbered'
           /\ ReadyOnesKnown' /\ LinksStand'
           /\ UNCHANGED <<pages, generation, rows, links, active, snapshot>>
           /\ \A s \in Sessions : WasReady(s) => WasReady(s)'
<1>a. /\ TypeOK /\ RowsAgree /\ CallsHoldRows /\ PagesAreNumbered /\ ReadyOnesKnown
      /\ LinksStand
  BY DEF LifeInv, LifeTypeOK
<1>1. UNCHANGED <<clockVars, pages, generation, history, session, batches, snapshot, rows, links,
                  active, lock, call, reply, supersededAt>>
  BY DEF vars, clockVars, pageVars, storeVars
<1>2. TypeOK' /\ PagesAreNumbered'
  BY <1>a, NextType, NumberingKept
<1>3. \A s \in Sessions : Materialized(s)' = Materialized(s)
  BY <1>1, MaterializedUnchanged
<1>4. RowsAgree' /\ CallsHoldRows'
  BY <1>a, <1>1, <1>3 DEF RowsAgree, CallsHoldRows, RowLocked
<1>5. ReadyOnesKnown' /\ LinksStand'
  BY <1>a, <1>1 DEF ReadyOnesKnown, LinksStand, StampedLinks, PagesSince
<1>6. QED
  BY <1>1, <1>2, <1>4, <1>5 DEF WasReady

\* A refresh that has not committed keeps the invariant: what it derives from
\* the rows of the active snapshot is complete.
LEMMA RefreshReadsKept ==
    ASSUME LifeInv, NEW r \in Refreshers,
           \/ RefreshSelect(r) \/ RefreshReadPages(r) \/ RefreshReadGeneration(r)
           \/ RefreshDelete(r) \/ RefreshFail(r)
    PROVE  LifeInv'
<1>a. /\ TypeOK /\ LifeTypeOK /\ ReadyOnesKnown /\ RefreshesKnow /\ DrainsKnow
      /\ LossesBounded /\ LinksStand
  BY DEF LifeInv, LifeTypeOK
<1>b. UNCHANGED <<vars, drain, reader, supersededAt, lostActive>>
  BY DEF RefreshSelect, RefreshReadPages, RefreshReadGeneration, RefreshDelete, RefreshFail
<1>c. /\ TypeOK' /\ RowsAgree' /\ CallsHoldRows' /\ PagesAreNumbered'
      /\ ReadyOnesKnown' /\ LinksStand'
      /\ UNCHANGED <<pages, generation, rows, links, active, snapshot>>
      /\ \A s \in Sessions : WasReady(s) => WasReady(s)'
  BY <1>b, TablesStand
<1>t. /\ pages \in Views /\ generation \in Nat /\ active \in Sessions \cup {None}
      /\ refresh[r].view \in Views /\ refresh[r].gen \in Nat
      /\ Derive(refresh[r].view) \subseteq LinkRows
  <2>1. pages \in Views /\ generation \in Nat /\ active \in Sessions \cup {None}
    BY <1>a DEF TypeOK
  <2>2. refresh[r].view \in Views /\ refresh[r].gen \in Nat
    BY <1>a DEF LifeTypeOK, RefreshRows
  <2>3. QED
    BY <2>1, <2>2, DeriveType, PublicationAssumption
<1>u. refresh \in [Refreshers -> RefreshRows]
  BY <1>a DEF LifeTypeOK
<1>v. refresh[r] \in RefreshRows
  BY <1>u
<1>1. /\ \A q \in Refreshers \ {r} : refresh'[q] = refresh[q]
      /\ refresh' \in [Refreshers -> RefreshRows]
  <2>1. CASE RefreshSelect(r)
    <3>1. [refresh[r] EXCEPT !.phase = "selected", !.target = active] \in RefreshRows
      BY <1>t, <1>v DEF RefreshRows
    <3>2. refresh' = [refresh EXCEPT ![r] = [refresh[r] EXCEPT !.phase = "selected", !.target = active]]
      BY <1>u, <2>1 DEF RefreshSelect
    <3>3. QED
      BY <1>u, <3>1, <3>2
  <2>2. CASE RefreshReadPages(r)
    BY ZenonT(40), <1>u, <1>t, <2>2 DEF RefreshReadPages, RefreshRows
  <2>3. CASE RefreshReadGeneration(r)
    <3>1. [refresh[r] EXCEPT !.phase = "counted", !.gen = generation] \in RefreshRows
      BY <1>t, <1>v DEF RefreshRows
    <3>2. refresh' = [refresh EXCEPT ![r] = [refresh[r] EXCEPT !.phase = "counted", !.gen = generation]]
      BY <1>u, <2>3 DEF RefreshReadGeneration
    <3>3. QED
      BY <1>u, <3>1, <3>2
  <2>4. CASE RefreshDelete(r)
    <3>1. PICK new \in SUBSET LinkRows :
             refresh' = [refresh EXCEPT ![r].phase = "deleted", ![r].derived = new]
      BY <1>t, <2>4 DEF RefreshDelete
    <3>2. [refresh[r] EXCEPT !.phase = "deleted", !.derived = new] \in RefreshRows
      BY <1>v DEF RefreshRows
    <3>3. QED
      BY <1>u, <3>1, <3>2
  <2>5. CASE RefreshFail(r)
    BY <1>u, <2>5, NoPagesType DEF RefreshFail, RefreshRows, IdleRefresh
  <2>6. QED
    BY <2>1, <2>2, <2>3, <2>4, <2>5
<1> DEFINE Knows(row) ==
       row.phase # "idle" =>
          /\ row.target \in Sessions /\ WasReady(row.target)
          /\ row.phase \in {"counted", "deleted"} => row.gen <= generation
          /\ row.phase = "deleted" /\ supersededAt[row.target] = None =>
                row.derived = Derive(row.view)
<1>2. Knows(refresh'[r])
  <2>1. CASE RefreshSelect(r)
    <3>1. refresh'[r].phase = "selected" /\ refresh'[r].target = active
      BY <1>a, <1>u, <2>1 DEF RefreshSelect, RefreshRows
    <3>2. active \in Sessions /\ WasReady(active)
      BY <1>a, <1>t, <2>1 DEF RefreshSelect, ReadyOnesKnown, WasReady
    <3>3. QED
      BY <3>1, <3>2
  <2>2. CASE RefreshReadPages(r)
    BY <1>a, <1>u, <2>2 DEF RefreshReadPages, RefreshRows, RefreshesKnow
  <2>3. CASE RefreshReadGeneration(r)
    BY <1>a, <1>u, <1>t, <2>3 DEF RefreshReadGeneration, RefreshRows, RefreshesKnow
  <2>4. CASE RefreshDelete(r)
    <3>1. PICK s \in Sessions : s = refresh[r].target /\ WasReady(s)
      BY <1>a, <2>4 DEF RefreshDelete, RefreshesKnow
    <3>2. supersededAt[s] = None => Resolvable(s)
      BY <1>a, <3>1, PublicationAssumption
      DEF ReadyOnesKnown, WasReady, LinksStand, Resolvable, FullRows, Tables
    <3>3. /\ refresh'[r].target = s /\ refresh'[r].gen = refresh[r].gen
          /\ refresh'[r].view = refresh[r].view
          /\ refresh'[r].derived = IF Resolvable(s) THEN Derive(refresh[r].view) ELSE {}
      BY <1>a, <1>u, <2>4, <3>1 DEF RefreshDelete, RefreshRows
    <3>4. refresh[r].gen <= generation
      BY <1>a, <2>4 DEF RefreshDelete, RefreshesKnow
    <3>5. QED
      BY <3>1, <3>2, <3>3, <3>4
  <2>5. CASE RefreshFail(r)
    BY <1>a, <1>u, <2>5 DEF RefreshFail, RefreshRows, IdleRefresh
  <2>6. QED
    BY <2>1, <2>2, <2>3, <2>4, <2>5
<1>3. \A q \in Refreshers : Knows(refresh'[q])
  BY <1>a, <1>1, <1>2 DEF RefreshesKnow
<1>4. RefreshesKnow'
  BY <1>b, <1>c, <1>3 DEF RefreshesKnow, WasReady
<1>5. DrainsKnow' /\ LossesBounded'
  BY <1>a, <1>b, <1>c DEF DrainsKnow, LossesBounded, WasReady
<1>6. LifeTypeOK'
  BY <1>a, <1>b, <1>c, <1>1 DEF LifeTypeOK
<1>7. QED
  BY <1>c, <1>4, <1>5, <1>6 DEF LifeInv

\* The commit of a refresh keeps the invariant: the foreign key makes sure that
\* the pages it derived from are still the pages of their ids.
LEMMA RefreshCommitKept ==
    ASSUME LifeInv, NEW r \in Refreshers, RefreshCommit(r)
    PROVE  LifeInv'
<1>a. /\ TypeOK /\ LifeTypeOK /\ RowsAgree /\ CallsHoldRows /\ PagesAreNumbered
      /\ ReadyOnesKnown /\ RefreshesKnow /\ DrainsKnow /\ LossesBounded /\ LinksStand
  BY DEF LifeInv, LifeTypeOK
<1>b. UNCHANGED <<clockVars, pages, generation, history, session, batches, rows, active, lock,
                  call, reply, drain, reader, supersededAt, lostActive>>
  BY DEF RefreshCommit, clockVars, pageVars
<1>s. PICK s \in Sessions :
         /\ s = refresh[r].target /\ WasReady(s) /\ refresh[r].gen <= generation
         /\ supersededAt[s] = None => refresh[r].derived = Derive(refresh[r].view)
  BY <1>a DEF RefreshCommit, RefreshesKnow
<1> DEFINE row == refresh[r]
<1>r. /\ row.view \in Views /\ row.gen \in Nat /\ row.derived \subseteq LinkRows
      /\ generation \in Nat
  BY <1>a DEF LifeTypeOK, RefreshRows, TypeOK
<1>1. /\ row.derived # {} => LinkTargetsExist(row.view)
      /\ row.derived \subseteq links'[s]
      /\ links' \in [Sessions -> SUBSET LinkRows]
  BY <1>a, <1>s, <1>r DEF RefreshCommit, TypeOK
<1>2. /\ \A t \in Sessions \ {s} : snapshot'[t] = snapshot[t]
      /\ snapshot'[s].state = snapshot[s].state /\ snapshot'[s].payload = snapshot[s].payload
      /\ snapshot[s].state # "deleted" =>
            snapshot'[s].mdGen = row.gen /\ snapshot'[s].mdRev = TextsOf(row.view)
      /\ snapshot' \in [Sessions -> SnapshotRows]
  <2>1. TextsOf(row.view) \in MarkdownRevisions
    BY <1>r, TextsOfType
  <2>2. \/ snapshot[s].state = "deleted" /\ snapshot' = snapshot
        \/ /\ snapshot[s].state # "deleted"
           /\ snapshot' = [snapshot EXCEPT ![s].mdRev = TextsOf(row.view),
                                           ![s].mdGen = row.gen]
    BY <1>s DEF RefreshCommit, Stamp
  <2>3. snapshot[s] \in SnapshotRows /\ snapshot \in [Sessions -> SnapshotRows]
    BY <1>a DEF TypeOK
  <2>4. CASE snapshot[s].state = "deleted" /\ snapshot' = snapshot
    BY <2>3, <2>4
  <2>5. CASE /\ snapshot[s].state # "deleted"
             /\ snapshot' = [snapshot EXCEPT ![s].mdRev = TextsOf(row.view),
                                             ![s].mdGen = row.gen]
    BY <1>r, <2>1, <2>3, <2>5 DEF SnapshotRows
  <2>6. QED
    BY <2>2, <2>4, <2>5
<1>3. TypeOK'
  BY <1>a, <1>b, <1>1, <1>2 DEF TypeOK, clockVars
<1>4. snapshot[s].state \notin {"none", "staging", "failed"}
  BY <1>s DEF WasReady
<1>5. RowsAgree'
  BY <1>a, <1>b, <1>2, <1>4 DEF RowsAgree
<1>6. CallsHoldRows'
  <2>1. \A t \in Sessions : Materialized(t)' = Materialized(t)
    BY <1>b, <1>2, MaterializedUnchanged
  <2>2. QED
    BY <1>a, <1>b, <2>1 DEF CallsHoldRows, RowLocked
<1>7. PagesAreNumbered'
  BY <1>a, <1>b DEF PagesAreNumbered
<1>8. \A t \in Sessions : WasReady(t) => WasReady(t)'
  BY <1>b, <1>2 DEF WasReady
<1>9. ReadyOnesKnown'
  <2>1. \A t \in Sessions : snapshot'[t].state = snapshot[t].state
                           /\ (snapshot[t].state = "ready" => snapshot'[t].mdGen <= generation)
    BY <1>a, <1>s, <1>2 DEF ReadyOnesKnown
  <2>2. active \in Sessions \cup {None}
    BY <1>a DEF TypeOK
  <2>3. QED
    BY <1>a, <1>b, <2>1, <2>2 DEF ReadyOnesKnown
<1>10. ASSUME NEW t \in Sessions, active' = t, supersededAt'[t] = None
       PROVE  rows'[t] = FullRows /\ StampedLinks(t)' \subseteq links'[t]
  <2>1. rows[t] = FullRows /\ StampedLinks(t) \subseteq links[t] /\ snapshot[t].state = "ready"
    BY <1>a, <1>b, <1>10, PublicationAssumption DEF LinksStand, ReadyOnesKnown
  <2>2. CASE t # s
    <3>1. links'[t] = links[t]
      BY <1>a, <1>s, <2>2 DEF RefreshCommit, TypeOK
    <3>2. StampedLinks(t)' = StampedLinks(t)
      BY <1>b, <1>2, <2>2 DEF StampedLinks, PagesSince
    <3>3. QED
      BY <1>b, <2>1, <3>1, <3>2
  <2>3. CASE t = s
    <3>1. row.derived = Derive(row.view)
      BY <1>b, <1>s, <1>10, <2>3
    <3>2. \A p \in Pages : snapshot'[s].mdRev[p] = row.view[p].text
      BY <1>2, <2>1, <2>3 DEF TextsOf
    <3>3. ASSUME NEW p \in Pages, row.view[p].text # None
          PROVE  [id |-> pages'[p].id, text |-> snapshot'[s].mdRev[p]] \in links'[s]
      <4>1. [id |-> row.view[p].id, text |-> row.view[p].text] \in row.derived
        BY <3>1, <3>3 DEF Derive
      <4>2. row.view[p].id = pages'[p].id
        BY <1>b, <1>1, <3>3, <4>1 DEF LinkTargetsExist
      <4>3. QED
        BY <1>1, <3>2, <4>1, <4>2
    <3>4. StampedLinks(s)' \subseteq links'[s]
      BY <3>2, <3>3 DEF StampedLinks, PagesSince
    <3>5. QED
      BY <1>b, <2>1, <2>3, <3>4
  <2>4. QED
    BY <2>2, <2>3
<1>11. LinksStand'
  BY <1>3, <1>10, LinksStandNow
<1>12. /\ refresh'[r] = IdleRefresh
       /\ \A q \in Refreshers \ {r} :
             /\ refresh'[q].phase = refresh[q].phase /\ refresh'[q].target = refresh[q].target
             /\ refresh'[q].view = refresh[q].view /\ refresh'[q].gen = refresh[q].gen
             /\ refresh'[q].derived = refresh[q].derived
       /\ refresh' \in [Refreshers -> RefreshRows]
  <2>1. refresh' = [q \in Refreshers |->
           IF q = r THEN IdleRefresh
           ELSE [refresh[q] EXCEPT !.overtaken =
                    @ \/ (refresh[q].phase = "deleted" /\ refresh[q].target = s)]]
    BY <1>s DEF RefreshCommit
  <2>2. refresh \in [Refreshers -> RefreshRows]
    BY <1>a DEF LifeTypeOK
  <2>3. QED
    BY ZenonT(40), <2>1, <2>2, NoPagesType DEF IdleRefresh, RefreshRows
<1>13. RefreshesKnow'
  <2> SUFFICES ASSUME NEW q \in Refreshers, refresh'[q].phase # "idle", NEW t,
                      t = refresh'[q].target
               PROVE  /\ t \in Sessions /\ WasReady(t)'
                      /\ refresh'[q].phase \in {"counted", "deleted"} =>
                            refresh'[q].gen <= generation'
                      /\ refresh'[q].phase = "deleted" /\ supersededAt'[t] = None =>
                            refresh'[q].derived = Derive(refresh'[q].view)
    BY DEF RefreshesKnow, WasReady
  <2>1. q # r
    BY <1>12 DEF IdleRefresh
  <2>2. t \in Sessions /\ WasReady(t)
    BY <1>a, <1>12, <2>1 DEF RefreshesKnow
  <2>3. QED
    BY <1>a, <1>b, <1>8, <1>12, <2>1, <2>2 DEF RefreshesKnow
<1>14. DrainsKnow' /\ LossesBounded'
  BY <1>a, <1>b, <1>8 DEF DrainsKnow, LossesBounded, WasReady
<1>15. LifeTypeOK'
  BY <1>a, <1>b, <1>3, <1>12 DEF LifeTypeOK
<1>16. QED
  BY <1>3, <1>5, <1>6, <1>7, <1>9, <1>11, <1>13, <1>14, <1>15 DEF LifeInv

\* A cycle that selects, checks or stops writes no row: what it works on was
\* superseded, and after a check it is not active.
LEMMA DrainLooksKept ==
    ASSUME LifeInv, NEW d \in Drainers, DrainSelect(d) \/ DrainCheck(d) \/ DrainStop(d)
    PROVE  LifeInv'
<1>a. /\ TypeOK /\ LifeTypeOK /\ ReadyOnesKnown /\ RefreshesKnow /\ DrainsKnow
      /\ LossesBounded
  BY DEF LifeInv, LifeTypeOK
<1>b. UNCHANGED <<vars, refresh, reader, supersededAt, lostActive>>
  BY DEF DrainSelect, DrainCheck, DrainStop
<1>c. /\ TypeOK' /\ RowsAgree' /\ CallsHoldRows' /\ PagesAreNumbered'
      /\ ReadyOnesKnown' /\ LinksStand'
      /\ UNCHANGED <<pages, generation, rows, links, active, snapshot>>
      /\ \A s \in Sessions : WasReady(s) => WasReady(s)'
  BY <1>b, TablesStand
<1> DEFINE row == drain'[d]
<1>d. drain \in [Drainers -> DrainRows] /\ drain[d] \in DrainRows
  BY <1>a DEF LifeTypeOK
<1>1. drain' \in [Drainers -> DrainRows] /\ \A e \in Drainers \ {d} : drain'[e] = drain[e]
  <2>1. CASE DrainSelect(d)
    <3>1. PICK new \in DrainRows : drain' = [drain EXCEPT ![d] = new]
      <4>1. \A s \in Sessions : [phase |-> "batch", target |-> s, table |-> 1] \in DrainRows
        BY DEF DrainRows
      <4>2. \A now : Candidates(now) \subseteq Sessions
        BY DEF Candidates, Superseded
      <4>3. PICK now \in CallTimes : \E s \in Candidates(now) :
               drain' = [drain EXCEPT ![d] = [phase |-> "batch", target |-> s, table |-> 1]]
        BY <2>1 DEF DrainSelect
      <4>4. QED
        BY <4>1, <4>2, <4>3
    <3>2. QED
      BY <1>d, <3>1
  <2>2. CASE DrainCheck(d) \/ DrainStop(d)
    <3>1. IdleDrain \in DrainRows /\ [drain[d] EXCEPT !.phase = "checked"] \in DrainRows
      BY <1>d DEF DrainRows, IdleDrain
    <3>2. drain' = [drain EXCEPT ![d] = IdleDrain]
          \/ drain' = [drain EXCEPT ![d] = [drain[d] EXCEPT !.phase = "checked"]]
      BY <1>d, <2>2 DEF DrainCheck, DrainStop
    <3>3. QED
      BY <1>d, <3>1, <3>2
  <2>3. QED
    BY <2>1, <2>2
<1>2. \/ row.phase = "idle"
      \/ /\ row.phase = "batch" /\ row.target \in Sessions
         /\ WasReady(row.target) /\ supersededAt[row.target] # None
      \/ /\ row.phase = "checked" /\ drain[d].phase # "idle"
         /\ row.target = drain[d].target /\ row.target # active
  <2>1. CASE DrainSelect(d)
    <3>1. PICK now \in CallTimes : \E s \in Candidates(now) :
             drain' = [drain EXCEPT ![d] = [phase |-> "batch", target |-> s, table |-> 1]]
      BY <2>1 DEF DrainSelect
    <3>2. PICK s \in Candidates(now) :
             drain' = [drain EXCEPT ![d] = [phase |-> "batch", target |-> s, table |-> 1]]
      BY <3>1
    <3>3. s \in Sessions /\ snapshot[s].state = "ready" /\ s # active
      BY DEF Candidates, Superseded
    <3>4. WasReady(s) /\ supersededAt[s] # None
      BY <1>a, <3>3 DEF ReadyOnesKnown, WasReady
    <3>5. row.phase = "batch" /\ row.target = s
      BY <1>d, <3>2
    <3>6. QED
      BY <3>3, <3>4, <3>5
  <2>2. CASE DrainCheck(d) /\ StillSuperseded(drain[d].target)
    BY <1>d, <2>2 DEF DrainCheck, StillSuperseded, DrainRows
  <2>3. CASE drain' = [drain EXCEPT ![d] = IdleDrain]
    BY <1>d, <2>3 DEF IdleDrain
  <2>4. QED
    BY <2>1, <2>2, <2>3 DEF DrainCheck, DrainStop
<1>4. LifeTypeOK'
  BY <1>a, <1>b, <1>c, <1>1 DEF LifeTypeOK
<1>5. RefreshesKnow'
  BY <1>a, <1>b, <1>c DEF RefreshesKnow, WasReady
<1>6. DrainsKnow'
  <2> SUFFICES ASSUME NEW e \in Drainers, drain'[e].phase # "idle", NEW s, s = drain'[e].target
               PROVE  s \in Sessions /\ WasReady(s)' /\ supersededAt'[s] # None
    BY DEF DrainsKnow, WasReady
  <2>1. s \in Sessions /\ WasReady(s) /\ supersededAt[s] # None
    <3>1. CASE e = d
      BY <1>a, <1>2, <3>1 DEF DrainsKnow
    <3>2. CASE e # d
      BY <1>a, <1>1, <3>2 DEF DrainsKnow
    <3>3. QED
      BY <3>1, <3>2
  <2>2. QED
    BY <1>b, <1>c, <2>1
<1>7. LossesBounded'
  <2> SUFFICES ASSUME NEW s \in Sessions, NEW e \in Drainers
               PROVE  /\ lostActive[s][e] <= 1
                      /\ lostActive[s][e] = 1 => WasReady(s)'
                      /\ lostActive[s][e] = 1 /\ s = active =>
                            ~(drain'[e].phase = "checked" /\ drain'[e].target = s)
    BY <1>b, <1>c DEF LossesBounded
  <2>1. QED
    BY <1>a, <1>c, <1>1, <1>2 DEF LossesBounded
<1>8. QED
  BY <1>c, <1>4, <1>5, <1>6, <1>7 DEF LifeInv

\* What a batch does to the cycle.
LEMMA BatchMoves ==
    ASSUME drain \in [Drainers -> DrainRows], NEW d \in Drainers, drain[d].table \in 1..4,
           drain' = NextTable(d) \/ drain' = NextBatch(d)
    PROVE  /\ drain' \in [Drainers -> DrainRows]
           /\ drain'[d].phase = "batch" /\ drain'[d].target = drain[d].target
           /\ \A e \in Drainers \ {d} : drain'[e] = drain[e]
<1>1. drain[d] \in DrainRows
  OBVIOUS
<1>0. drain[d].table + 1 \in 1..5
  OBVIOUS
<1>2. /\ [drain[d] EXCEPT !.phase = "batch", !.table = drain[d].table + 1] \in DrainRows
      /\ [drain[d] EXCEPT !.phase = "batch"] \in DrainRows
  BY <1>0, <1>1 DEF DrainRows
<1>3. CASE drain' = NextTable(d)
  <2>1. drain' = [drain EXCEPT ![d] = [drain[d] EXCEPT !.phase = "batch",
                                                  !.table = drain[d].table + 1]]
    BY <1>3 DEF NextTable
  <2>2. QED
    BY <1>1, <1>2, <2>1 DEF DrainRows
<1>4. CASE drain' = NextBatch(d)
  <2>1. drain' = [drain EXCEPT ![d] = [drain[d] EXCEPT !.phase = "batch"]]
    BY <1>4 DEF NextBatch
  <2>2. QED
    BY <1>1, <1>2, <2>1 DEF DrainRows
<1>5. QED
  BY <1>3, <1>4

\* A batch of a cycle takes rows of a superseded snapshot, which no publisher
\* holds; should it be active again, the cycle checks before its next batch.
LEMMA DrainBatchKept ==
    ASSUME LifeInv, NEW d \in Drainers, DrainLinks(d) \/ DrainTable(d) \/ DrainRow(d)
    PROVE  LifeInv'
<1>a. /\ TypeOK /\ LifeTypeOK /\ RowsAgree /\ CallsHoldRows /\ PagesAreNumbered
      /\ ReadyOnesKnown /\ RefreshesKnow /\ DrainsKnow /\ LossesBounded /\ LinksStand
  BY DEF LifeInv, LifeTypeOK
<1>b. UNCHANGED <<clockVars, pages, generation, history, active, lock, call, reply, refresh,
                  reader, supersededAt>>
  BY DEF DrainLinks, DrainTable, DrainRow, clockVars, pageVars
<1>s. PICK s \in Sessions :
         /\ s = drain[d].target /\ WasReady(s) /\ supersededAt[s] # None
         /\ drain[d].phase = "checked"
  BY <1>a DEF DrainLinks, DrainTable, DrainRow, DrainsKnow
<1>t. /\ rows \in [Sessions -> [Tables -> Nat]] /\ links \in [Sessions -> SUBSET LinkRows]
      /\ drain[d] \in DrainRows /\ drain \in [Drainers -> DrainRows]
      /\ lostActive \in [Sessions -> [Drainers -> Nat]]
      /\ session \in [Sessions -> SessionRows] /\ snapshot \in [Sessions -> SnapshotRows]
      /\ batches \in [Sessions -> [Slots -> Payloads \cup {None}]]
  BY <1>a DEF TypeOK, LifeTypeOK
<1> DEFINE Others ==
              \A t \in Sessions \ {s} :
                 /\ rows'[t] = rows[t] /\ links'[t] = links[t] /\ session'[t] = session[t]
                 /\ batches'[t] = batches[t] /\ snapshot'[t] = snapshot[t]
           Typed ==
              /\ rows' \in [Sessions -> [Tables -> Nat]]
              /\ links' \in [Sessions -> SUBSET LinkRows]
              /\ session' \in [Sessions -> SessionRows]
              /\ snapshot' \in [Sessions -> SnapshotRows]
              /\ batches' \in [Sessions -> [Slots -> Payloads \cup {None}]]
              /\ drain' \in [Drainers -> DrainRows]
           Next1 == drain'[d].phase = "idle"
                    \/ (drain'[d].phase = "batch" /\ drain'[d].target = s)
           Loses == UNCHANGED lostActive \/ LoseBatch(d, s)
           Row == \/ UNCHANGED <<session, batches, snapshot>>
                  \/ /\ snapshot[s].state = "ready" /\ snapshot'[s].state = "deleted"
                     /\ session'[s].state = "deleted"
<1>1. Typed /\ Others /\ Next1 /\ Loses /\ Row
      /\ \A e \in Drainers \ {d} : drain'[e] = drain[e]
  <2>1. CASE DrainLinks(d)
    <3>1. UNCHANGED <<rows, session, batches, snapshot>> /\ Loses
      BY <1>s, <2>1 DEF DrainLinks
    <3>2. links' \in [Sessions -> SUBSET LinkRows] /\ \A t \in Sessions \ {s} : links'[t] = links[t]
      BY <1>s, <1>t, <2>1 DEF DrainLinks
    <3>3. drain' = NextTable(d) \/ drain' = NextBatch(d)
      BY <2>1 DEF DrainLinks
    <3>4. drain[d].table \in 1..4
      BY <2>1 DEF DrainLinks
    <3>5. drain' \in [Drainers -> DrainRows] /\ Next1
          /\ \A e \in Drainers \ {d} : drain'[e] = drain[e]
      BY <1>s, <1>t, <3>3, <3>4, BatchMoves
    <3>6. QED
      BY <1>t, <3>1, <3>2, <3>5
  <2>2. CASE DrainTable(d)
    <3>1. UNCHANGED <<session, batches, snapshot>> /\ Loses
      BY <1>s, <2>2 DEF DrainTable
    <3>2. drain' = NextTable(d) \/ drain' = NextBatch(d)
      BY <2>2 DEF DrainTable
    <3>3. drain[d].table \in 2..4
      BY <2>2 DEF DrainTable
    <3>4. PICK t \in Tables : t = ChildTables[drain[d].table]
      <4>1. drain[d].table = 2 \/ drain[d].table = 3 \/ drain[d].table = 4
        BY <3>3
      <4>2. QED
        BY <4>1 DEF ChildTables, Tables
    <3>5. \/ rows' = rows /\ links' = links
          \/ /\ rows[s][t] # 0 /\ rows' = [rows EXCEPT ![s][t] = @ - 1]
             /\ links' = [links EXCEPT ![s] = {}] \/ links' = links
      BY <1>s, <2>2, <3>4 DEF DrainTable, TableEmpty
    <3>6. /\ rows' \in [Sessions -> [Tables -> Nat]] /\ links' \in [Sessions -> SUBSET LinkRows]
          /\ \A x \in Sessions \ {s} : rows'[x] = rows[x] /\ links'[x] = links[x]
      <4>1. links' = links \/ links' = [links EXCEPT ![s] = {}]
        BY <3>5
      <4>2. links' \in [Sessions -> SUBSET LinkRows] /\ \A x \in Sessions \ {s} : links'[x] = links[x]
        BY <1>t, <4>1
      <4>3. CASE rows' = rows
        BY <1>t, <4>2, <4>3
      <4>4. CASE rows[s][t] # 0 /\ rows' = [rows EXCEPT ![s][t] = @ - 1]
        <5>0. rows[s] \in [Tables -> Nat]
          BY <1>t
        <5>1. rows[s][t] \in Nat
          BY <5>0
        <5>2. rows[s][t] - 1 \in Nat
          BY <4>4, <5>1
        <5>3. [rows[s] EXCEPT ![t] = rows[s][t] - 1] \in [Tables -> Nat]
          BY <5>0, <5>2
        <5>4. rows' = [rows EXCEPT ![s] = [rows[s] EXCEPT ![t] = rows[s][t] - 1]]
          BY <4>4
        <5>5. QED
          BY <1>t, <4>2, <5>3, <5>4
      <4>5. QED
        BY <3>5, <4>3, <4>4
    <3>7. drain' \in [Drainers -> DrainRows] /\ Next1
          /\ \A e \in Drainers \ {d} : drain'[e] = drain[e]
      BY <1>s, <1>t, <3>2, <3>3, BatchMoves
    <3>8. QED
      BY <1>t, <3>1, <3>6, <3>7
  <2>3. CASE DrainRow(d)
    <3>1. UNCHANGED lostActive /\ drain' = [drain EXCEPT ![d] = IdleDrain]
      BY <2>3 DEF DrainRow
    <3>d. drain' \in [Drainers -> DrainRows] /\ drain'[d].phase = "idle"
          /\ \A e \in Drainers \ {d} : drain'[e] = drain[e]
      <4>1. IdleDrain \in DrainRows /\ IdleDrain.phase = "idle"
        BY DEF IdleDrain, DrainRows
      <4>2. QED
        BY <1>t, <3>1, <4>1
    <3>2. CASE RowDeletable(s)
      <4>1. /\ snapshot' = [snapshot EXCEPT ![s].state = "deleted"]
            /\ session' = [session EXCEPT ![s].state = "deleted"]
            /\ batches' = [batches EXCEPT ![s] = [x \in Slots |-> None]]
            /\ rows' = [rows EXCEPT ![s] = NoRows]
            /\ links' = [links EXCEPT ![s] = {}]
        BY <1>s, <2>3, <3>2 DEF DrainRow
      <4>2. session' \in [Sessions -> SessionRows] /\ session'[s].state = "deleted"
        BY <1>t, <4>1 DEF SessionRows, SessionStates
      <4>3. snapshot' \in [Sessions -> SnapshotRows] /\ snapshot'[s].state = "deleted"
        BY ZenonT(40), <1>t, <4>1 DEF SnapshotRows, SnapshotStates
      <4>4. Others
        BY <1>t, <4>1
      <4>5. NoRows \in [Tables -> Nat] /\ [x \in Slots |-> None] \in [Slots -> Payloads \cup {None}]
        BY DEF NoRows
      <4>6. rows' \in [Sessions -> [Tables -> Nat]] /\ links' \in [Sessions -> SUBSET LinkRows]
            /\ batches' \in [Sessions -> [Slots -> Payloads \cup {None}]]
        BY <1>t, <4>1, <4>5
      <4>7. QED
        BY <3>1, <3>2, <3>d, <4>2, <4>3, <4>4, <4>6 DEF RowDeletable
    <3>3. CASE ~RowDeletable(s)
      <4>1. UNCHANGED <<session, batches, snapshot, rows, links>>
        BY <1>s, <2>3, <3>3 DEF DrainRow, storeVars
      <4>2. QED
        BY <1>t, <3>1, <3>d, <4>1
    <3>4. QED
      BY <3>2, <3>3
  <2>4. QED
    BY <2>1, <2>2, <2>3
<1>2. TypeOK'
  BY <1>a, <1>b, <1>1 DEF TypeOK, clockVars
<1>3. \A t \in Sessions : WasReady(t) => WasReady(t)'
  BY <1>b, <1>s, <1>1 DEF WasReady
<1>4. snapshot[s].state \notin {"none", "staging", "failed"}
  BY <1>s DEF WasReady
<1>5. RowsAgree'
  BY <1>a, <1>b, <1>1 DEF RowsAgree
<1>6. CallsHoldRows'
  <2> SUFFICES ASSUME NEW t \in Sessions
               PROVE  /\ call[t].phase \in {"cleaning", "counted"} => session'[t].state = "none"
                      /\ RowLocked(t) => session'[t].state = "staging"
                                         /\ Materialized(t)' = "complete"
                      /\ \A e \in call[t].expired \cup call[t].dropped :
                            session'[e].state # "none"
    BY <1>a, <1>b DEF CallsHoldRows, RowLocked
  <2>1. session[s].state \notin {"none", "staging"}
    BY <1>a, <1>4 DEF RowsAgree
  <2>2. \A e \in Sessions : session[e].state # "none" => session'[e].state # "none"
    BY <1>1
  <2>3. \A e \in call[t].expired \cup call[t].dropped : session'[e].state # "none"
    BY <1>a, <2>2 DEF CallsHoldRows, TypeOK, Calls
  <2>4. CASE t # s
    <3>1. Materialized(t)' = Materialized(t)
      BY <1>1, <2>4, MaterializedUnchanged
    <3>2. QED
      BY <1>a, <1>1, <2>3, <2>4, <3>1 DEF CallsHoldRows
  <2>5. CASE t = s
    BY <1>a, <2>1, <2>3, <2>5 DEF CallsHoldRows
  <2>6. QED
    BY <2>4, <2>5
<1>7. PagesAreNumbered'
  BY <1>a, <1>b DEF PagesAreNumbered
<1>8. ReadyOnesKnown'
  <2>1. active # s \/ ~RowDeletable(s)
    BY DEF RowDeletable
  <2>2. active # None => snapshot'[active].state = "ready"
    <3>1. active = s => UNCHANGED snapshot
      BY <1>s, <2>1 DEF DrainLinks, DrainTable, DrainRow, storeVars
    <3>2. active # s /\ active # None => snapshot'[active] = snapshot[active]
      BY <1>a, <1>1 DEF TypeOK
    <3>3. QED
      BY <1>a, <3>1, <3>2 DEF ReadyOnesKnown
  <2>3. QED
    BY <1>a, <1>b, <1>1, <2>2 DEF ReadyOnesKnown
<1>9. LinksStand'
  <2>1. ASSUME NEW t \in Sessions, active' = t, supersededAt'[t] = None
        PROVE  rows'[t] = FullRows /\ StampedLinks(t)' \subseteq links'[t]
    <3>1. t # s /\ active = t /\ active # None /\ supersededAt[t] = None
      BY <1>b, <1>s, <2>1, PublicationAssumption
    <3>2. rows[t] = FullRows /\ StampedLinks(t) \subseteq links[t]
      BY <1>a, <3>1 DEF LinksStand
    <3>3. QED
      BY <1>b, <1>1, <3>1, <3>2 DEF StampedLinks, PagesSince
  <2>2. QED
    BY <1>2, <2>1, LinksStandNow
<1>10. RefreshesKnow'
  BY <1>a, <1>b, <1>3 DEF RefreshesKnow, WasReady
<1>11. DrainsKnow'
  <2> SUFFICES ASSUME NEW e \in Drainers, drain'[e].phase # "idle", NEW t, t = drain'[e].target
               PROVE  t \in Sessions /\ WasReady(t)' /\ supersededAt'[t] # None
    BY DEF DrainsKnow, WasReady
  <2>1. t \in Sessions /\ WasReady(t) /\ supersededAt[t] # None
    <3>1. CASE e = d
      BY <1>s, <1>1, <3>1
    <3>2. CASE e # d
      BY <1>a, <1>1, <3>2 DEF DrainsKnow
    <3>3. QED
      BY <3>1, <3>2
  <2>2. QED
    BY <1>b, <1>3, <2>1
<1>12. LossesBounded' /\ lostActive' \in [Sessions -> [Drainers -> Nat]]
  <2>1. CASE UNCHANGED lostActive
    <3>1. \A e \in Drainers : drain'[e].phase = "checked" => drain'[e] = drain[e]
      BY <1>1
    <3>2. \A t \in Sessions, e \in Drainers :
             /\ lostActive[t][e] <= 1
             /\ lostActive[t][e] = 1 => WasReady(t)'
             /\ lostActive[t][e] = 1 /\ t = active =>
                   ~(drain'[e].phase = "checked" /\ drain'[e].target = t)
      BY <1>a, <1>3, <3>1 DEF LossesBounded
    <3>3. QED
      BY <1>b, <1>t, <2>1, <3>2 DEF LossesBounded
  <2>2. CASE lostActive' # lostActive
    <3>1. s = active /\ lostActive' = [lostActive EXCEPT ![s][d] = @ + 1]
      BY <1>1, <2>2 DEF LoseBatch
    <3>2. lostActive[s][d] = 0
      <4>1. lostActive[s][d] \in Nat
        BY <1>t
      <4>2. lostActive[s][d] <= 1 /\ lostActive[s][d] # 1
        BY <1>a, <1>s, <3>1 DEF LossesBounded
      <4>3. QED
        BY <4>1, <4>2
    <3>3. /\ lostActive' \in [Sessions -> [Drainers -> Nat]] /\ lostActive'[s][d] = 1
          /\ \A t \in Sessions, e \in Drainers :
                ~(t = s /\ e = d) => lostActive'[t][e] = lostActive[t][e]
      BY <1>t, <3>1, <3>2
    <3>4. \A t \in Sessions, e \in Drainers :
             /\ lostActive'[t][e] <= 1
             /\ lostActive'[t][e] = 1 => WasReady(t)'
             /\ lostActive'[t][e] = 1 /\ t = active =>
                   ~(drain'[e].phase = "checked" /\ drain'[e].target = t)
      <4> SUFFICES ASSUME NEW t \in Sessions, NEW e \in Drainers
                   PROVE  /\ lostActive'[t][e] <= 1
                          /\ lostActive'[t][e] = 1 => WasReady(t)'
                          /\ lostActive'[t][e] = 1 /\ t = active =>
                                ~(drain'[e].phase = "checked" /\ drain'[e].target = t)
        OBVIOUS
      <4>1. CASE t = s /\ e = d
        BY <1>s, <1>1, <1>3, <3>3, <4>1
      <4>2. CASE ~(t = s /\ e = d)
        <5>1. lostActive'[t][e] = lostActive[t][e]
          BY <3>3, <4>2
        <5>2. drain'[e].phase = "checked" => drain'[e] = drain[e]
          BY <1>1
        <5>3. QED
          BY <1>a, <1>3, <5>1, <5>2 DEF LossesBounded
      <4>3. QED
        BY <4>1, <4>2
    <3>5. QED
      BY <1>b, <3>3, <3>4 DEF LossesBounded
  <2>3. QED
    BY <2>1, <2>2
<1>13. LifeTypeOK'
  BY <1>a, <1>b, <1>1, <1>2, <1>12 DEF LifeTypeOK
<1>14. QED
  BY <1>2, <1>5, <1>6, <1>7, <1>8, <1>9, <1>10, <1>11, <1>12, <1>13 DEF LifeInv

\* Searches write nothing.
LEMMA ReadsKept ==
    ASSUME LifeInv, NEW r \in Readers, ReadStatus(r) \/ ReadRows(r)
    PROVE  LifeInv'
<1>a. /\ TypeOK /\ LifeTypeOK /\ RefreshesKnow /\ DrainsKnow /\ LossesBounded
  BY DEF LifeInv, LifeTypeOK
<1>b. UNCHANGED <<vars, refresh, drain, supersededAt, lostActive>>
  BY DEF ReadStatus, ReadRows
<1>c. /\ TypeOK' /\ RowsAgree' /\ CallsHoldRows' /\ PagesAreNumbered'
      /\ ReadyOnesKnown' /\ LinksStand'
      /\ UNCHANGED <<pages, generation, rows, links, active, snapshot>>
      /\ \A s \in Sessions : WasReady(s) => WasReady(s)'
  BY <1>b, TablesStand
<1>1. reader' \in [Readers -> [target : Sessions \cup {None}, saw : {"nothing", "whole", "torn"}]]
  <2>1. /\ reader \in [Readers -> [target : Sessions \cup {None}, saw : {"nothing", "whole", "torn"}]]
        /\ active \in Sessions \cup {None}
    BY <1>a DEF LifeTypeOK, TypeOK
  <2>2. PICK new \in [target : Sessions \cup {None}, saw : {"nothing", "whole", "torn"}] :
           reader' = [reader EXCEPT ![r] = new]
    BY <2>1 DEF ReadStatus, ReadRows
  <2>3. QED
    BY <2>1, <2>2
<1>2. LifeTypeOK'
  BY <1>a, <1>b, <1>c, <1>1 DEF LifeTypeOK
<1>3. RefreshesKnow' /\ DrainsKnow' /\ LossesBounded'
  BY <1>a, <1>b, <1>c DEF RefreshesKnow, DrainsKnow, LossesBounded, WasReady
<1>4. QED
  BY <1>c, <1>2, <1>3 DEF LifeInv

\* A revert takes a ready snapshot that was superseded: what cycles have taken
\* from it by then is not counted, and its links are no longer promised.
LEMMA RevertKept ==
    ASSUME LifeInv, NEW s \in Sessions, Revert(s)
    PROVE  LifeInv'
<1>a. /\ TypeOK /\ LifeTypeOK /\ RowsAgree /\ CallsHoldRows /\ PagesAreNumbered
      /\ ReadyOnesKnown /\ RefreshesKnow /\ DrainsKnow /\ LossesBounded /\ LinksStand
      /\ supersededAt \in [Sessions -> Nat \cup {None}]
      /\ lostActive \in [Sessions -> [Drainers -> Nat]]
  BY DEF LifeInv, LifeTypeOK
<1>b. /\ UNCHANGED <<clockVars, pages, generation, history, session, batches, snapshot, rows,
                     links, lock, call, reply, refresh, drain, reader>>
      /\ active' = s /\ s # active /\ snapshot[s].state = "ready"
      /\ lostActive' = [lostActive EXCEPT ![s] = [d \in Drainers |-> 0]]
  BY DEF Revert, clockVars, pageVars
<1>s. /\ supersededAt' \in [Sessions -> Nat \cup {None}]
      /\ \A t \in Sessions : supersededAt[t] # None => supersededAt'[t] # None
      /\ \A t \in Sessions : t = active /\ active' # t => supersededAt'[t] # None
  BY <1>a, SupersedeMoves DEF Revert
<1>1. supersededAt[s] # None /\ supersededAt'[s] # None
  BY <1>a, <1>b, <1>s DEF ReadyOnesKnown
<1>2. /\ lostActive' \in [Sessions -> [Drainers -> Nat]]
      /\ \A d \in Drainers : lostActive'[s][d] = 0
      /\ \A t \in Sessions \ {s} : lostActive'[t] = lostActive[t]
  BY <1>a, <1>b
<1>3. TypeOK'
  BY <1>a, <1>b DEF TypeOK, clockVars
<1>4. \A t \in Sessions : Materialized(t)' = Materialized(t)
  BY <1>b, MaterializedUnchanged
<1>5. RowsAgree' /\ CallsHoldRows' /\ PagesAreNumbered'
  BY <1>a, <1>b, <1>4 DEF RowsAgree, CallsHoldRows, RowLocked, PagesAreNumbered
<1>6. \A t \in Sessions : WasReady(t) => WasReady(t)'
  BY <1>b, <1>s DEF WasReady
<1>7. ReadyOnesKnown'
  BY <1>a, <1>b, <1>s DEF ReadyOnesKnown
<1>8. LinksStand'
  BY <1>b, <1>1 DEF LinksStand
<1>9. RefreshesKnow'
  BY <1>a, <1>b, <1>s, <1>6 DEF RefreshesKnow, WasReady
<1>10. DrainsKnow'
  BY <1>a, <1>b, <1>s, <1>6 DEF DrainsKnow, WasReady
<1>11. LossesBounded'
  <2> SUFFICES ASSUME NEW t \in Sessions, NEW d \in Drainers
               PROVE  /\ lostActive'[t][d] <= 1
                      /\ lostActive'[t][d] = 1 => WasReady(t)'
                      /\ lostActive'[t][d] = 1 /\ t = active' =>
                            ~(drain'[d].phase = "checked" /\ drain'[d].target = t)
    BY DEF LossesBounded
  <2>1. CASE t = s
    BY <1>2, <2>1
  <2>2. CASE t # s
    BY <1>a, <1>b, <1>2, <1>6, <2>2 DEF LossesBounded
  <2>3. QED
    BY <2>1, <2>2
<1>12. LifeTypeOK'
  BY <1>b, <1>s, <1>2, <1>3 DEF LifeInv, LifeTypeOK
<1>13. QED
  BY <1>5, <1>7, <1>8, <1>9, <1>10, <1>11, <1>12 DEF LifeInv

-----------------------------------------------------------------------------
(* Theorems *)

\* Every step of publishers, refreshes, cycles, searches and the operator keeps
\* the invariant.
LEMMA LifeNextInv ==
    ASSUME LifeInv, [LifeNext]_allVars
    PROVE  LifeInv'
<1>1. CASE PublicationStep
  BY <1>1, PublicationKept
<1>2. ASSUME NEW r \in Refreshers, RefreshStep(r)
      PROVE  LifeInv'
  BY <1>2, RefreshReadsKept, RefreshCommitKept DEF RefreshStep
<1>3. ASSUME NEW d \in Drainers, DrainStep(d) \/ DrainStop(d)
      PROVE  LifeInv'
  BY <1>3, DrainLooksKept, DrainBatchKept DEF DrainStep
<1>4. ASSUME NEW r \in Readers, ReadStatus(r) \/ ReadRows(r)
      PROVE  LifeInv'
  BY <1>4, ReadsKept
<1>5. ASSUME NEW s \in Sessions, Revert(s)
      PROVE  LifeInv'
  BY <1>5, RevertKept
<1>6. CASE UNCHANGED allVars
  <2>1. UNCHANGED <<vars, refresh, drain, reader, supersededAt, lostActive>>
    BY <1>6 DEF allVars, lifeVars
  <2>2. /\ TypeOK' /\ RowsAgree' /\ CallsHoldRows' /\ PagesAreNumbered'
        /\ ReadyOnesKnown' /\ LinksStand'
        /\ UNCHANGED <<pages, generation, rows, links, active, snapshot>>
        /\ \A s \in Sessions : WasReady(s) => WasReady(s)'
    BY <2>1, TablesStand
  <2>3. QED
    BY <2>1, <2>2
    DEF LifeInv, LifeTypeOK, RefreshesKnow, DrainsKnow, LossesBounded, WasReady
<1>7. QED
  BY <1>1, <1>2, <1>3, <1>4, <1>5, <1>6 DEF LifeNext

\* The inductive invariant of the life of snapshots holds in every behaviour.
THEOREM LifeInvariantHolds == LifeSpec => []LifeInv
<1>1. LifeInit => LifeInv
  BY LifeInitInv
<1>2. LifeInv /\ [LifeNext]_allVars => LifeInv'
  BY LifeNextInv
<1>3. QED
  BY <1>1, <1>2, PTL DEF LifeSpec

\* Every variable of publication and of what follows it keeps its type.
THEOREM LifeTypeCorrect == LifeSpec => []LifeTypeOK
<1>1. LifeInv => LifeTypeOK
  BY DEF LifeInv
<1>2. QED
  BY <1>1, LifeInvariantHolds, PTL

\* The stored Markdown revision of a snapshot that has been active since its
\* publication never promises a link that is not stored, although refreshes,
\* page changes, searches and cleanup run beside each other.
THEOREM LinksMatch == LifeSpec => []LinksMatchRevision
<1>1. LifeInv => LinksMatchRevision
  BY DEF LifeInv, LinksStand, LinksMatchRevision
<1>2. QED
  BY <1>1, LifeInvariantHolds, PTL

\* However many cleanup cycles run, each takes at most one batch from a
\* snapshot that an operator has made active again.
THEOREM RevertLoses == LifeSpec => []RevertLosesOneBatch
<1>1. LifeInv => RevertLosesOneBatch
  BY DEF LifeInv, LossesBounded, RevertLosesOneBatch
<1>2. QED
  BY <1>1, LifeInvariantHolds, PTL
=============================================================================
