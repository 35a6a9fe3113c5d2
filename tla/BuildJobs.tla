------------------------------ MODULE BuildJobs ------------------------------
(***************************************************************************)
(* The build worker of a local server (src/iwiki_mcp/codegraph/runtime.py, *)
(* _BuildWorkerRegistry, and BuildControl of codegraph/indexer.py).        *)
(* wiki_code_index and query-time rebuilds run on tool threads; one build  *)
(* thread at a time does the work.  A caller waits for the build it        *)
(* started or joined, and may detach with a handle; pollers ask for the    *)
(* build behind a handle.  The registry has one lock; a job's own fields   *)
(* are read without it.                                                    *)
(***************************************************************************)
EXTENDS Naturals, Sequences, FiniteSets, SequencesExt

CONSTANTS
    Callers,    \* tool threads, one index request at a time each
    Pollers,    \* tool threads, one status request each
    Domains,
    Asked,      \* kinds of requests made: see Kinds
    MaxJobs,    \* bound: builds started
    History,    \* _TERMINAL_HISTORY
    Publishes,  \* publish_mode is not "sqlite"
    None

ASSUME JobsAssumption ==
    /\ MaxJobs \in Nat /\ History \in Nat \ {0}
    /\ Publishes \in BOOLEAN
    /\ Asked \subseteq {"query", "index", "forced"}
    /\ None \notin Nat \cup Domains \cup {"ready", "failed", "doomed", "forced"}

VARIABLES
    job,       \* every _BuildJob: job ids count up
    slot,      \* _job
    history,   \* _terminal, oldest first
    caller,    \* the wiki_code_index call or rebuilding query of each thread
    poller,    \* the wiki_code_status call of each thread
    stopping   \* shutdown_code_graph_workers has been called

vars == <<job, slot, history, caller, poller, stopping>>

Jobs == 1..MaxJobs

\* A rebuilding query never forces; wiki_code_index may.
Kinds == {"query", "index", "forced"}
Explicit(k) == k # "query"
Publishing(k) == Publishes /\ Explicit(k)

Phases == {"none", "preparing", "comparing", "parsing", "gate", "replacing",
           "built", "remote", "finishing", "exiting", "dead"}

NoJob == [domain |-> None, kind |-> None, phase |-> "none", late |-> FALSE,
          cancelled |-> FALSE, attempted |-> FALSE, indexing |-> TRUE,
          result |-> "nothing", publication |-> "absent", terminal |-> None]

IdleCaller == [pc |-> "idle", kind |-> None, job |-> None, started |-> FALSE,
               answer |-> None]
IdlePoller == [pc |-> "idle", domain |-> None, id |-> None, job |-> None,
               said |-> None, warned |-> FALSE]

Init ==
    /\ job = [j \in Jobs |-> NoJob]
    /\ slot = None
    /\ history = <<>>
    /\ caller = [c \in Callers |-> IdleCaller]
    /\ poller = [p \in Pollers |-> IdlePoller]
    /\ stopping = FALSE

Alive(j) == job[j].phase \notin {"none", "dead"}

-----------------------------------------------------------------------------
(* _BuildWorkerRegistry.start *)

Live == slot # None /\ Alive(slot)

\* Faulty: any build of the domain will do.
MatchesDomain(d, k) == job[slot].domain = d

Matches(d, k) == job[slot].domain = d /\ job[slot].kind = k

Wait(c, k, j, started) ==
    caller' = [caller EXCEPT ![c] = [pc |-> "waiting", kind |-> k, job |-> j,
                                     started |-> started, answer |-> None]]

Answer(c, answer) == caller' = [caller EXCEPT ![c].pc = "answered", ![c].answer = answer]

Free(c) == caller[c].pc \in {"idle", "answered"}

Join(c, d, k) ==
    /\ Free(c)
    /\ Live /\ Matches(d, k)
    /\ Wait(c, k, slot, FALSE)
    /\ UNCHANGED <<job, slot, history, poller, stopping>>

Refuse(c, d, k) ==
    /\ Free(c)
    /\ Live /\ ~Matches(d, k)
    /\ Answer(c, "busy")
    /\ UNCHANGED <<job, slot, history, poller, stopping>>

Start(c, d, k) ==
    /\ Free(c)
    /\ ~Live
    /\ \E j \in Jobs :
          /\ job[j].phase = "none"
          /\ \A i \in 1..(j - 1) : job[i].phase # "none"
          /\ job' = [job EXCEPT ![j] = [NoJob EXCEPT !.domain = d, !.kind = k,
                                                     !.phase = "preparing"]]
          /\ slot' = j
          /\ Wait(c, k, j, TRUE)
    /\ UNCHANGED <<history, poller, stopping>>

\* The thread cannot be started.
StartFails(c, d) ==
    /\ Free(c)
    /\ ~Live
    /\ slot' = None
    /\ Answer(c, "failed")
    /\ UNCHANGED <<job, history, poller, stopping>>

-----------------------------------------------------------------------------
(* The build thread: CodeGraphIndexer.build, then the publication *)

Work(j) == UNCHANGED <<slot, history, caller, poller, stopping>>

\* The build's deadline passes.
Deadline(j) ==
    /\ Alive(j) /\ ~job[j].late
    /\ job' = [job EXCEPT ![j].late = TRUE]
    /\ Work(j)

Failing(j) == [job EXCEPT ![j].phase = "finishing", ![j].result = "failed"]

\* Any step of the build may raise; several look at the deadline.
BuildFails(j) ==
    /\ job[j].phase \in {"preparing", "comparing", "parsing", "replacing"}
    /\ job' = Failing(j)
    /\ Work(j)

\* The deadline is looked at once more before the comparison.
BuildCompares(j) ==
    /\ job[j].phase = "preparing" /\ job[j].kind # "forced" /\ ~job[j].late
    /\ job' = [job EXCEPT ![j].phase = "comparing"]
    /\ Work(j)

BuildParses(j) ==
    /\ \/ job[j].phase = "preparing" /\ job[j].kind = "forced" /\ ~job[j].late
       \/ job[j].phase = "comparing"
    /\ job' = [job EXCEPT ![j].phase = "parsing"]
    /\ Work(j)

\* Nothing changed: the graph of the last build is the result.
BuildIsNoOp(j) ==
    /\ job[j].phase = "comparing"
    /\ job' = [job EXCEPT ![j].phase = "built", ![j].result = "ready"]
    /\ Work(j)

\* Faulty: the attempt is not announced.
AttemptUnannounced(j) == [job EXCEPT ![j].phase = "gate"]

Attempt(j) == [job EXCEPT ![j].phase = "gate", ![j].attempted = TRUE]

EnterPublication(j) ==
    /\ job[j].phase = "parsing"
    /\ job' = Attempt(j)
    /\ Work(j)

PublicationDecides(j) ==
    /\ job[j].phase = "gate"
    /\ job' = IF job[j].cancelled \/ job[j].late THEN Failing(j)
              ELSE [job EXCEPT ![j].phase = "replacing"]
    /\ Work(j)

\* No deadline is looked at any more.
GraphReplaced(j) ==
    /\ job[j].phase = "replacing"
    /\ job' = [job EXCEPT ![j].phase = "built", ![j].result = "ready"]
    /\ Work(j)

HandOver(j) ==
    /\ job[j].phase = "built"
    /\ job' = IF Publishing(job[j].kind)
              THEN [job EXCEPT ![j].phase = "remote", ![j].indexing = FALSE]
              ELSE [job EXCEPT ![j].phase = "finishing"]
    /\ Work(j)

RemoteAnswers(j) ==
    /\ job[j].phase = "remote"
    /\ \E p \in {"ready", "failed"} :
          job' = [job EXCEPT ![j].phase = "finishing", ![j].publication = p]
    /\ Work(j)

TerminalState(j) ==
    IF job[j].result = "ready" /\ job[j].publication # "failed" THEN "ready" ELSE "failed"

Spare(h, i) == \E n \in DOMAIN h : n # i /\ job[h[n]].domain = job[h[i]].domain

\* _evict_locked: one answer is added at a time, so at most one goes.
Evicted(h) ==
    LET spares == {i \in DOMAIN h : Spare(h, i)}
        oldest == IF spares = {} THEN 1 ELSE CHOOSE i \in spares : \A n \in spares : i <= n
    IN IF Len(h) > History THEN RemoveAt(h, oldest) ELSE h

Released(j) == IF slot = j THEN None ELSE slot

\* finish: the terminal snapshot, the history and the slot under one lock.
Finish(j) ==
    /\ job[j].phase = "finishing"
    /\ job' = [job EXCEPT ![j].phase = "exiting", ![j].terminal = TerminalState(j)]
    /\ history' = Evicted(Append(history, j))
    /\ slot' = Released(j)
    /\ UNCHANGED <<caller, poller, stopping>>

Exit(j) ==
    /\ job[j].phase = "exiting"
    /\ job' = [job EXCEPT ![j].phase = "dead"]
    /\ Work(j)

-----------------------------------------------------------------------------
(* _index_with_deadline: the caller's wait *)

\* join returned and the thread is dead; finish has nothing left to do.
AnswerEnded(c) ==
    /\ caller[c].pc = "waiting"
    /\ ~Alive(caller[c].job)
    /\ Answer(c, job[caller[c].job].result)
    /\ UNCHANGED <<job, slot, history, poller, stopping>>

\* Faulty: join has no timeout.
NeverExpires(c) == FALSE

\* A query waits until its deadline, which is the build's or a later one.
WaitExpires(c) ==
    /\ Alive(caller[c].job)
    /\ Explicit(caller[c].kind) \/ job[caller[c].job].late

\* Only the query that started a build cancels it.
GiveUp(c) ==
    /\ caller[c].pc = "waiting" /\ ~Explicit(caller[c].kind)
    /\ WaitExpires(c)
    /\ job' = IF caller[c].started
              THEN [job EXCEPT ![caller[c].job].cancelled = TRUE] ELSE job
    /\ Answer(c, "busy")
    /\ UNCHANGED <<slot, history, poller, stopping>>

Expire(c) ==
    /\ caller[c].pc = "waiting" /\ Explicit(caller[c].kind)
    /\ WaitExpires(c)
    /\ caller' = [caller EXCEPT ![c].pc = "expired"]
    /\ UNCHANGED <<job, slot, history, poller, stopping>>

\* The job's deadline is read first ...
ReadDeadline(c) ==
    /\ caller[c].pc = "expired"
    /\ IF job[caller[c].job].late
       THEN caller' = [caller EXCEPT ![c].pc = "late"]
       ELSE Answer(c, "rebuilding")
    /\ UNCHANGED <<job, slot, history, poller, stopping>>

\* ... and then whether it has come to its publication.
ReadAttempted(c) ==
    /\ caller[c].pc = "late"
    /\ Answer(c, IF job[caller[c].job].attempted THEN "rebuilding" ELSE "doomed")
    /\ UNCHANGED <<job, slot, history, poller, stopping>>

-----------------------------------------------------------------------------
(* attach_job: four reads *)

Of(d) == {i \in DOMAIN history : job[history[i]].domain = d}

Remembered(d, id) == \E i \in Of(d) : history[i] = id

\* current
Current(d) ==
    IF slot # None /\ job[slot].domain = d THEN slot
    ELSE IF Of(d) = {} THEN None
    ELSE history[CHOOSE i \in Of(d) : \A n \in Of(d) : n <= i]

\* terminal_by_id, when the request names a job.
PollHistory(p, d, id) ==
    /\ poller[p].pc = "idle"
    /\ poller' = [poller EXCEPT ![p] =
           IF Remembered(d, id)
           THEN [IdlePoller EXCEPT !.pc = "found", !.domain = d, !.id = id, !.job = id]
           ELSE [IdlePoller EXCEPT !.pc = "looked", !.domain = d, !.id = id]]
    /\ UNCHANGED <<job, slot, history, caller, stopping>>

PollCurrent(p) ==
    LET q == poller[p]
        found == Current(q.domain)
    IN
    /\ q.pc = "looked"
    /\ poller' = [poller EXCEPT ![p] =
           IF found # None /\ q.id \in {None, found}
           THEN [q EXCEPT !.pc = "found", !.job = found]
           ELSE [q EXCEPT !.pc = "answered",
                          !.said = IF q.id = None THEN "nothing" ELSE "unknown"]]
    /\ UNCHANGED <<job, slot, history, caller, stopping>>

Describe(p) ==
    LET t == job[poller[p].job].terminal IN
    /\ poller[p].pc = "found"
    /\ poller' = [poller EXCEPT ![p].pc = "described",
                                ![p].said = IF t = None THEN "running" ELSE t]
    /\ UNCHANGED <<job, slot, history, caller, stopping>>

Warn(p) ==
    LET j == poller[p].job IN
    /\ poller[p].pc = "described"
    /\ poller' = [poller EXCEPT ![p].pc = "answered",
           ![p].warned = job[j].terminal # None /\ job[j].publication = "failed"]
    /\ UNCHANGED <<job, slot, history, caller, stopping>>

-----------------------------------------------------------------------------

\* shutdown: cancel what is in the slot; the process ends a second later.
Shutdown ==
    /\ ~stopping
    /\ stopping' = TRUE
    /\ job' = IF slot = None THEN job ELSE [job EXCEPT ![slot].cancelled = TRUE]
    /\ UNCHANGED <<slot, history, caller, poller>>

BuildStep(j) ==
    \/ BuildFails(j) \/ BuildCompares(j) \/ BuildParses(j) \/ BuildIsNoOp(j)
    \/ EnterPublication(j) \/ PublicationDecides(j) \/ GraphReplaced(j)
    \/ HandOver(j) \/ Finish(j) \/ Exit(j)

CallerStep(c) ==
    \/ AnswerEnded(c) \/ GiveUp(c) \/ Expire(c) \/ ReadDeadline(c) \/ ReadAttempted(c)

Next ==
    \/ \E c \in Callers :
          \/ \E d \in Domains :
                \/ \E k \in Asked : Join(c, d, k) \/ Refuse(c, d, k) \/ Start(c, d, k)
                \/ StartFails(c, d)
          \/ CallerStep(c)
    \/ \E j \in Jobs : Deadline(j) \/ BuildStep(j) \/ RemoteAnswers(j)
    \/ \E p \in Pollers :
          \/ \E d \in Domains, id \in Jobs \cup {None} : PollHistory(p, d, id)
          \/ PollCurrent(p) \/ Describe(p) \/ Warn(p)
    \/ Shutdown

Spec == Init /\ [][Next]_vars

\* Threads run and time passes; nobody promises that a target answers.
FairSpec ==
    /\ Spec
    /\ \A c \in Callers : WF_vars(CallerStep(c))
    /\ \A j \in Jobs : WF_vars(BuildStep(j)) /\ WF_vars(Deadline(j))

-----------------------------------------------------------------------------
(* Properties *)

JobRecords == [domain : Domains \cup {None}, kind : Kinds \cup {None},
               phase : Phases, late : BOOLEAN, cancelled : BOOLEAN,
               attempted : BOOLEAN, indexing : BOOLEAN,
               result : {"nothing", "ready", "failed"},
               publication : {"absent", "ready", "failed"},
               terminal : {None, "ready", "failed"}]

CallerRecords == [pc : {"idle", "waiting", "expired", "late", "answered"},
                  kind : Kinds \cup {None}, job : Jobs \cup {None},
                  started : BOOLEAN,
                  answer : {None, "busy", "doomed", "rebuilding", "nothing",
                            "ready", "failed"}]

\* The part of the types that the invariant below needs.
JobTypes ==
    /\ job \in [Jobs -> JobRecords]
    /\ slot \in Jobs \cup {None}
    /\ caller \in [Callers -> CallerRecords]
    /\ stopping \in BOOLEAN

\* Every variable stays in its type.
TypeOK ==
    /\ JobTypes
    /\ history \in Seq(Jobs) /\ Len(history) <= History
    /\ poller \in [Pollers ->
           [pc : {"idle", "looked", "found", "described", "answered"},
            domain : Domains \cup {None}, id : Jobs \cup {None}, job : Jobs \cup {None},
            said : {None, "nothing", "unknown", "running", "ready", "failed"},
            warned : BOOLEAN]]

Unfinished == {j \in Jobs : Alive(j) /\ job[j].terminal = None}

\* "A single build runs at a time" (docs/code-graph.md): whoever asks, for
\* whatever domain, no second build starts before the first has its terminal
\* state.
OneBuildAtATime == Cardinality(Unfinished) <= 1

\* The build behind an explicit wiki_code_index is never cancelled by another
\* caller whose wait has expired, joined callers included.
ExplicitIsNotCutShort ==
    \A c \in Callers :
        (caller[c].pc # "idle" /\ caller[c].job # None /\ Explicit(caller[c].kind))
            => stopping \/ ~job[caller[c].job].cancelled

\* A build without its terminal snapshot is the one in the slot.
SlotHoldsBuild == \A j \in Unfinished : slot = j

\* A caller waits for a build of the kind it asked for.
CallersKnowJobs ==
    \A c \in Callers :
        /\ caller[c].pc \in {"waiting", "expired", "late"} => caller[c].job # None
        /\ caller[c].job # None =>
              /\ job[caller[c].job].kind = caller[c].kind
              /\ job[caller[c].job].phase # "none"

\* Only the rebuild of a query is cancelled before a shutdown.
QueriesAreCancelled ==
    \A j \in Jobs : job[j].cancelled => stopping \/ job[j].kind = "query"

\* The inductive invariant of the registry.
RegistryInv ==
    /\ JobTypes
    /\ SlotHoldsBuild
    /\ CallersKnowJobs
    /\ QueriesAreCancelled

\* The caller of a forced build that is told busy at its deadline, and so given
\* no handle, misses nothing: the build never becomes ready and never publishes.
\* An incremental one may still find nothing changed, and publish that.
DoomedNeverPublishes ==
    \A c \in Callers : caller[c].kind = "forced" /\ caller[c].answer = "doomed" =>
        /\ job[caller[c].job].terminal # "ready"
        /\ job[caller[c].job].publication = "absent"

\* Neither the graph nor the target has changed for the build b, and unless it is
\* still before its gate, it has failed.
Unpublished(b) ==
    /\ b.publication = "absent" /\ b.terminal # "ready"
    /\ \/ b.phase \in {"preparing", "parsing", "gate"}
       \/ b.phase \in {"finishing", "exiting", "dead"} /\ b.result = "failed"

\* A forced build announces its attempt before it comes to the gate, and a late
\* one does not pass it.
AttemptsAreAnnounced ==
    /\ \A j \in Jobs : job[j].kind = "forced" /\ ~job[j].attempted =>
          Unpublished(job[j]) /\ job[j].phase # "gate"
    /\ \A c \in Callers : caller[c].pc = "late" => job[caller[c].job].late
    /\ \A c \in Callers : caller[c].answer = "doomed" =>
          /\ caller[c].job # None
          /\ caller[c].kind = "forced" =>
                job[caller[c].job].late /\ Unpublished(job[caller[c].job])

\* A poller told that its handle is unknown asked for a build that was never
\* issued, aged out of the history or belongs to another domain.
UnknownIsUnknown ==
    [][\A p \in Pollers :
          (poller[p].pc = "looked" /\ poller'[p].said = "unknown")
              => ~Remembered(poller[p].domain, poller[p].id)]_vars

\* An answer that warns of a failed publication describes a failed job.
WarningMatchesJob ==
    \A p \in Pollers : poller[p].warned => poller[p].said = "failed"

\* Every index call is answered, although a publication may hang for ever.
CallersAnswered ==
    \A c \in Callers : caller[c].pc = "waiting" ~> caller[c].pc = "answered"
=============================================================================
