-------------------------- MODULE LocalBuildsProofs --------------------------
(***************************************************************************)
(* What local code-graph builds promise for any number of callers,         *)
(* pollers, processes and builds: the registry that runs them in one       *)
(* server, and the graph that the builds and queries of several servers    *)
(* share.                                                                  *)
(***************************************************************************)
EXTENDS BuildJobs, LocalGraph, FiniteSetTheorems, TLAPS

-----------------------------------------------------------------------------
(* The registry of builds *)

LEMMA NoneIsNoJob ==
    /\ None \notin Jobs /\ None \notin {"ready", "failed", "doomed", "forced"}
    /\ Asked \subseteq Kinds
BY JobsAssumption DEF Jobs, Kinds

LEMMA InitInv == Init => RegistryInv
<1> SUFFICES ASSUME Init PROVE RegistryInv
  OBVIOUS
<1>1. JobTypes
  <2>1. NoJob \in JobRecords
    BY DEF NoJob, JobRecords, Phases
  <2>2. IdleCaller \in CallerRecords
    BY DEF IdleCaller, CallerRecords
  <2> QED
    BY <2>1, <2>2 DEF Init, JobTypes
<1>2. \A j \in Jobs : job[j].phase = "none" /\ ~job[j].cancelled
  BY DEF Init, NoJob
<1>3. \A c \in Callers : caller[c].job = None /\ caller[c].pc = "idle"
  BY DEF Init, IdleCaller
<1> QED
  BY <1>1, <1>2, <1>3
     DEF RegistryInv, SlotHoldsBuild, Unfinished, Alive, CallersKnowJobs, QueriesAreCancelled

-----------------------------------------------------------------------------
(* Steps of the build thread *)

\* Build j goes on: its kind and its callers stay, and if it is cancelled now
\* it was before.  It has its terminal snapshot exactly when it is finished.
LEMMA JobStepInv ==
    ASSUME RegistryInv, NEW j \in Jobs, NEW rec \in JobRecords,
           job' = [job EXCEPT ![j] = rec],
           Alive(j),
           rec.kind = job[j].kind, rec.phase # "none",
           rec.cancelled => job[j].cancelled,
           rec.terminal = None => job[j].terminal = None,
           slot' = slot \/ (rec.terminal # None /\ slot' = Released(j)),
           UNCHANGED <<caller, stopping>>
    PROVE  RegistryInv'
<1> USE NoneIsNoJob DEF RegistryInv
<1>1. job'[j] = rec /\ \A i \in Jobs \ {j} : job'[i] = job[i]
  BY DEF JobTypes
<1>2. job' \in [Jobs -> JobRecords] /\ slot' \in Jobs \cup {None}
  BY DEF JobTypes, Released
<1>3. JobTypes'
  BY <1>2 DEF JobTypes
<1>4. SlotHoldsBuild'
  <2> SUFFICES ASSUME NEW i \in Jobs, Alive(i)', job'[i].terminal = None PROVE slot' = i
    BY DEF SlotHoldsBuild, Unfinished
  <2>1. i \in Unfinished
    BY <1>1 DEF Unfinished, Alive
  <2>2. slot = i
    BY <2>1 DEF SlotHoldsBuild
  <2>3. CASE i = j
    BY <1>1, <2>2, <2>3
  <2>4. CASE i # j
    BY <2>2, <2>4 DEF Released
  <2> QED
    BY <2>3, <2>4
<1>5. CallersKnowJobs'
  BY <1>1 DEF CallersKnowJobs, JobTypes, CallerRecords
<1>6. QueriesAreCancelled'
  BY <1>1 DEF QueriesAreCancelled
<1> QED
  BY <1>3, <1>4, <1>5, <1>6

\* Every step of a build thread, its target and its clock is such a step.
LEMMA BuildStepInv ==
    ASSUME RegistryInv, NEW j \in Jobs, Deadline(j) \/ BuildStep(j) \/ RemoteAnswers(j)
    PROVE  RegistryInv'
<1> DEFINE old == job[j]
<1>1. old \in JobRecords
  BY DEF RegistryInv, JobTypes
<1>2. ASSUME NEW new \in JobRecords, new.phase # "none",
             new.kind = old.kind, new.cancelled = old.cancelled, new.terminal = old.terminal,
             Alive(j), Work(j), job' = [job EXCEPT ![j] = new]
      PROVE  RegistryInv'
  BY <1>2, JobStepInv DEF Work
<1>3. ASSUME NEW p \in Phases \ {"none"}, Alive(j), Work(j),
             job' = [job EXCEPT ![j] = [old EXCEPT !.phase = p]]
      PROVE  RegistryInv'
  <2>1. [old EXCEPT !.phase = p] \in JobRecords
    BY <1>1 DEF JobRecords
  <2> QED
    BY <1>1, <1>2, <1>3, <2>1 DEF JobRecords
<1>4. ASSUME NEW p \in Phases \ {"none"}, NEW r \in {"ready", "failed"}, Alive(j), Work(j),
             job' = [job EXCEPT ![j] = [old EXCEPT !.phase = p, !.result = r]]
      PROVE  RegistryInv'
  <2>1. [old EXCEPT !.phase = p, !.result = r] \in JobRecords
    BY <1>1 DEF JobRecords
  <2> QED
    BY <1>1, <1>2, <1>4, <2>1 DEF JobRecords
<1>5. CASE Deadline(j)
  <2>1. [old EXCEPT !.late = TRUE] \in JobRecords
    BY <1>1 DEF JobRecords
  <2> QED
    BY <1>1, <1>2, <1>5, <2>1 DEF Deadline, Alive, JobRecords
<1>6. CASE BuildFails(j)
  BY <1>4, <1>6 DEF BuildFails, Failing, Alive, Phases
<1>7. CASE BuildCompares(j) \/ BuildParses(j)
  BY <1>3, <1>7 DEF BuildCompares, BuildParses, Alive, Phases
<1>8. CASE BuildIsNoOp(j) \/ GraphReplaced(j)
  BY ZenonT(40), <1>4, <1>8 DEF BuildIsNoOp, GraphReplaced, Alive, Phases
<1>9. CASE EnterPublication(j)
  <2>1. [old EXCEPT !.phase = "gate", !.attempted = TRUE] \in JobRecords
    BY <1>1 DEF JobRecords, Phases
  <2>2. /\ job' = [job EXCEPT ![j] = [old EXCEPT !.phase = "gate", !.attempted = TRUE]]
        /\ Alive(j) /\ Work(j)
    BY <1>9 DEF EnterPublication, Attempt, Alive
  <2> QED
    BY <1>1, <1>2, <2>1, <2>2 DEF JobRecords
<1>10. CASE PublicationDecides(j)
  <2>1. CASE job' = Failing(j)
    BY ZenonT(40), <1>4, <1>10, <2>1 DEF PublicationDecides, Failing, Alive, Phases
  <2>2. CASE job' = [job EXCEPT ![j].phase = "replacing"]
    BY <1>3, <1>10, <2>2 DEF PublicationDecides, Alive, Phases
  <2> QED
    BY <1>10, <2>1, <2>2 DEF PublicationDecides
<1>11. CASE HandOver(j)
  <2>1. CASE Publishing(old.kind)
    <3>1. [old EXCEPT !.phase = "remote", !.indexing = FALSE] \in JobRecords
      BY <1>1 DEF JobRecords, Phases
    <3> QED
      BY ZenonT(40), <1>1, <1>2, <1>11, <2>1, <3>1 DEF HandOver, Alive, JobRecords
  <2>2. CASE ~Publishing(old.kind)
    BY <1>3, <1>11, <2>2 DEF HandOver, Alive, Phases
  <2> QED
    BY <2>1, <2>2
<1>12. CASE RemoteAnswers(j)
  <2>1. PICK q \in {"ready", "failed"} :
           job' = [job EXCEPT ![j] = [old EXCEPT !.phase = "finishing", !.publication = q]]
    BY <1>12 DEF RemoteAnswers
  <2>2. [old EXCEPT !.phase = "finishing", !.publication = q] \in JobRecords
    BY <1>1 DEF JobRecords, Phases
  <2> QED
    BY <1>1, <1>2, <1>12, <2>1, <2>2 DEF RemoteAnswers, Alive, JobRecords
<1>13. CASE Finish(j)
  <2> DEFINE new == [old EXCEPT !.phase = "exiting", !.terminal = TerminalState(j)]
  <2>1. TerminalState(j) \in {"ready", "failed"}
    BY DEF TerminalState
  <2>2. /\ new \in JobRecords
        /\ new.kind = old.kind /\ new.phase = "exiting" /\ new.terminal # None
        /\ new.cancelled = old.cancelled
    BY <1>1, <2>1, NoneIsNoJob DEF JobRecords, Phases
  <2>3. job' = [job EXCEPT ![j] = new] /\ Alive(j) /\ slot' = Released(j)
    BY <1>13 DEF Finish, Alive
  <2>4. UNCHANGED <<caller, stopping>>
    BY <1>13 DEF Finish
  <2> HIDE DEF new
  <2> QED
    BY <2>2, <2>3, <2>4, JobStepInv
<1>14. CASE Exit(j)
  BY <1>3, <1>14 DEF Exit, Alive, Phases
<1> QED
  BY <1>5, <1>6, <1>7, <1>8, <1>9, <1>10, <1>11, <1>12, <1>13, <1>14 DEF BuildStep

-----------------------------------------------------------------------------
(* Steps of the callers *)

\* Cancelling builds of queries, or any at shutdown, keeps the invariant.
LEMMA CancelInv ==
    ASSUME RegistryInv,
           job' \in [Jobs -> JobRecords],
           \A j \in Jobs : /\ job'[j].kind = job[j].kind
                           /\ job'[j].phase = job[j].phase
                           /\ job'[j].terminal = job[j].terminal
                           /\ job'[j].cancelled =>
                                 job[j].cancelled \/ stopping' \/ job[j].kind = "query",
           caller' \in [Callers -> CallerRecords],
           \A c \in Callers : /\ caller'[c].job = caller[c].job
                              /\ caller'[c].kind = caller[c].kind
                              /\ caller'[c].pc \in {"waiting", "expired", "late"} =>
                                    caller[c].pc \in {"waiting", "expired", "late"},
           slot' = slot, stopping' \in BOOLEAN, stopping => stopping'
    PROVE  RegistryInv'
<1> USE NoneIsNoJob DEF RegistryInv
<1>1. JobTypes'
  BY DEF JobTypes
<1>2. SlotHoldsBuild'
  BY DEF SlotHoldsBuild, Unfinished, Alive
<1>3. CallersKnowJobs'
  BY DEF CallersKnowJobs, JobTypes, CallerRecords
<1>4. QueriesAreCancelled'
  BY DEF QueriesAreCancelled
<1> QED
  BY <1>1, <1>2, <1>3, <1>4

\* An answer, or the next read on the way to one.
LEMMA AnswerStepInv ==
    ASSUME RegistryInv, NEW c \in Callers,
           NEW pc \in {"expired", "late", "answered"},
           pc # "answered" => caller[c].pc \in {"waiting", "expired"},
           NEW answer \in {None, "busy", "doomed", "rebuilding", "nothing", "ready", "failed"},
           caller' = [caller EXCEPT ![c].pc = pc, ![c].answer = answer],
           UNCHANGED <<job, slot, stopping>>
    PROVE  RegistryInv'
<1> DEFINE new == [caller[c] EXCEPT !.pc = pc, !.answer = answer]
<1>1. caller[c] \in CallerRecords /\ caller \in [Callers -> CallerRecords]
  BY DEF RegistryInv, JobTypes
<1>2. /\ new \in CallerRecords /\ new.pc = pc
      /\ new.job = caller[c].job /\ new.kind = caller[c].kind
  BY <1>1 DEF CallerRecords
<1>3. caller' = [caller EXCEPT ![c] = new]
  OBVIOUS
<1> HIDE DEF new
<1>4. caller' \in [Callers -> CallerRecords]
  BY <1>1, <1>2, <1>3
<1>5. \A b \in Callers : caller'[b] = IF b = c THEN new ELSE caller[b]
  BY <1>1, <1>3
<1>6. job' \in [Jobs -> JobRecords] /\ stopping' \in BOOLEAN
  BY DEF RegistryInv, JobTypes
<1> QED
  BY <1>2, <1>4, <1>5, <1>6, CancelInv

\* A build starts only when none is unfinished.
LEMMA StartInv ==
    ASSUME RegistryInv, NEW c \in Callers, NEW d \in Domains, NEW k \in Asked, Start(c, d, k)
    PROVE  RegistryInv'
<1> USE NoneIsNoJob
<1>1. PICK j \in Jobs :
         /\ job[j].phase = "none"
         /\ job' = [job EXCEPT ![j] = [NoJob EXCEPT !.domain = d, !.kind = k,
                                                    !.phase = "preparing"]]
         /\ slot' = j
         /\ Wait(c, k, j, TRUE)
  BY DEF Start
<1> DEFINE new == [NoJob EXCEPT !.domain = d, !.kind = k, !.phase = "preparing"]
           mine == [pc |-> "waiting", kind |-> k, job |-> j, started |-> TRUE, answer |-> None]
<1>2. /\ new \in JobRecords /\ new.kind = k /\ new.phase = "preparing" /\ ~new.cancelled
  BY DEF NoJob, JobRecords, Phases
<1>3. /\ mine \in CallerRecords /\ mine.kind = k /\ mine.job = j
  BY DEF CallerRecords
<1>4. job' = [job EXCEPT ![j] = new] /\ caller' = [caller EXCEPT ![c] = mine]
  BY <1>1 DEF Wait
<1> HIDE DEF new, mine
<1>5. /\ job'[j] = new /\ \A i \in Jobs \ {j} : job'[i] = job[i]
      /\ caller'[c] = mine /\ \A b \in Callers \ {c} : caller'[b] = caller[b]
  BY <1>4 DEF RegistryInv, JobTypes
<1>6. JobTypes'
  BY <1>1, <1>2, <1>3, <1>4 DEF RegistryInv, JobTypes, Start
<1>7. Unfinished = {}
  BY DEF RegistryInv, JobTypes, SlotHoldsBuild, Unfinished, Start, Live
<1>8. SlotHoldsBuild'
  BY <1>1, <1>5, <1>7 DEF SlotHoldsBuild, Unfinished, Alive
<1>9. CallersKnowJobs'
  <2> SUFFICES ASSUME NEW b \in Callers
               PROVE  /\ caller'[b].pc \in {"waiting", "expired", "late"} => caller'[b].job # None
                      /\ caller'[b].job # None =>
                            /\ job'[caller'[b].job].kind = caller'[b].kind
                            /\ job'[caller'[b].job].phase # "none"
    BY DEF CallersKnowJobs
  <2>1. CASE b = c
    BY <1>2, <1>3, <1>5, <2>1
  <2>2. CASE b # c
    BY <1>1, <1>5, <2>2 DEF RegistryInv, CallersKnowJobs, JobTypes, CallerRecords
  <2> QED
    BY <2>1, <2>2
<1>10. QueriesAreCancelled'
  BY <1>2, <1>5 DEF RegistryInv, QueriesAreCancelled, Start
<1> QED
  BY <1>6, <1>8, <1>9, <1>10 DEF RegistryInv

\* The other ways an index call begins.
LEMMA CallInv ==
    ASSUME RegistryInv, NEW c \in Callers, NEW d \in Domains, NEW k \in Asked,
           Join(c, d, k) \/ Refuse(c, d, k)
    PROVE  RegistryInv'
<1> USE NoneIsNoJob
<1>1. CASE Join(c, d, k)
  <2> DEFINE mine == [pc |-> "waiting", kind |-> k, job |-> slot, started |-> FALSE,
                      answer |-> None]
  <2>1. slot \in Jobs /\ job[slot].phase # "none" /\ job[slot].kind = k
    BY <1>1 DEF Join, Live, Alive, Matches, RegistryInv, JobTypes
  <2>2. mine \in CallerRecords /\ mine.kind = k /\ mine.job = slot
    BY <2>1 DEF CallerRecords
  <2>3. caller' = [caller EXCEPT ![c] = mine] /\ UNCHANGED <<job, slot, stopping>>
    BY <1>1 DEF Join, Wait
  <2> HIDE DEF mine
  <2>4. caller'[c] = mine /\ \A b \in Callers \ {c} : caller'[b] = caller[b]
    BY <2>3 DEF RegistryInv, JobTypes
  <2>5. JobTypes'
    BY <2>2, <2>3 DEF RegistryInv, JobTypes
  <2>6. CallersKnowJobs'
    BY <2>1, <2>2, <2>3, <2>4 DEF RegistryInv, CallersKnowJobs
  <2>7. SlotHoldsBuild' /\ QueriesAreCancelled'
    BY <2>3 DEF RegistryInv, SlotHoldsBuild, Unfinished, Alive, QueriesAreCancelled
  <2> QED
    BY <2>5, <2>6, <2>7 DEF RegistryInv
<1>2. CASE Refuse(c, d, k)
  BY <1>2, AnswerStepInv DEF Refuse, Answer
<1> QED
  BY <1>1, <1>2

\* The thread of a new build cannot be started: none was unfinished either.
LEMMA StartFailsInv ==
    ASSUME RegistryInv, NEW c \in Callers, NEW d \in Domains, StartFails(c, d)
    PROVE  RegistryInv'
<1> USE NoneIsNoJob
<1> DEFINE new == [caller[c] EXCEPT !.pc = "answered", !.answer = "failed"]
<1>1. caller[c] \in CallerRecords /\ caller \in [Callers -> CallerRecords]
  BY DEF RegistryInv, JobTypes
<1>2. /\ new \in CallerRecords /\ new.pc = "answered"
      /\ new.job = caller[c].job /\ new.kind = caller[c].kind
  BY <1>1 DEF CallerRecords
<1>3. caller' = [caller EXCEPT ![c] = new] /\ slot' = None /\ UNCHANGED <<job, stopping>>
  BY DEF StartFails, Answer
<1> HIDE DEF new
<1>4. caller'[c] = new /\ \A b \in Callers \ {c} : caller'[b] = caller[b]
  BY <1>1, <1>3
<1>5. JobTypes'
  BY <1>2, <1>3 DEF RegistryInv, JobTypes
<1>6. CallersKnowJobs'
  BY <1>2, <1>3, <1>4 DEF RegistryInv, CallersKnowJobs
<1>7. Unfinished = {}
  BY DEF RegistryInv, JobTypes, SlotHoldsBuild, Unfinished, StartFails, Live
<1>8. SlotHoldsBuild' /\ QueriesAreCancelled'
  BY <1>3, <1>7 DEF RegistryInv, SlotHoldsBuild, Unfinished, Alive, QueriesAreCancelled
<1> QED
  BY <1>5, <1>6, <1>8 DEF RegistryInv

\* A wait ends with the build, or at its deadline.
LEMMA CallerStepInv ==
    ASSUME RegistryInv, NEW c \in Callers, CallerStep(c)
    PROVE  RegistryInv'
<1> USE NoneIsNoJob
<1> DEFINE mine == caller[c].job
<1>1. /\ caller[c] \in CallerRecords /\ caller \in [Callers -> CallerRecords]
      /\ job \in [Jobs -> JobRecords] /\ stopping \in BOOLEAN
  BY DEF RegistryInv, JobTypes
<1>2. /\ caller[c].pc \in {"waiting", "expired", "late"} => mine \in Jobs
      /\ mine \in Jobs => job[mine] \in JobRecords /\ job[mine].kind = caller[c].kind
  BY <1>1 DEF RegistryInv, CallersKnowJobs, CallerRecords
<1>3. CASE AnswerEnded(c)
  <2>1. job[mine].result \in {"nothing", "ready", "failed"}
    BY <1>2, <1>3 DEF AnswerEnded, JobRecords
  <2> QED
    BY <1>3, <2>1, AnswerStepInv DEF AnswerEnded, Answer
<1>4. CASE GiveUp(c)
  <2> DEFINE new == [caller[c] EXCEPT !.pc = "answered", !.answer = "busy"]
  <2>1. /\ new \in CallerRecords /\ new.pc = "answered"
        /\ new.job = caller[c].job /\ new.kind = caller[c].kind
    BY <1>1 DEF CallerRecords
  <2>2. caller' = [caller EXCEPT ![c] = new] /\ UNCHANGED <<slot, stopping>>
    BY <1>4 DEF GiveUp, Answer
  <2> HIDE DEF new
  <2>3. /\ caller' \in [Callers -> CallerRecords]
        /\ \A b \in Callers : caller'[b] = IF b = c THEN new ELSE caller[b]
    BY <1>1, <2>1, <2>2
  <2>4. mine \in Jobs /\ caller[c].kind = "query"
    BY <1>1, <1>2, <1>4 DEF GiveUp, Explicit, Kinds, CallerRecords, RegistryInv, CallersKnowJobs, JobRecords
  <2>5. CASE job' = job
    BY <1>1, <2>1, <2>2, <2>3, <2>5, CancelInv
  <2>6. CASE job' = [job EXCEPT ![mine].cancelled = TRUE]
    <3>1. [job[mine] EXCEPT !.cancelled = TRUE] \in JobRecords
      BY <1>2, <2>4 DEF JobRecords
    <3>2. job' \in [Jobs -> JobRecords]
      BY <1>1, <2>4, <2>6, <3>1
    <3>3. \A j \in Jobs : /\ job'[j].kind = job[j].kind
                          /\ job'[j].phase = job[j].phase
                          /\ job'[j].terminal = job[j].terminal
                          /\ job'[j].cancelled => job[j].cancelled \/ job[j].kind = "query"
      BY <1>1, <1>2, <2>4, <2>6 DEF JobRecords
    <3> QED
      BY <1>1, <2>1, <2>2, <2>3, <3>2, <3>3, CancelInv
  <2> QED
    BY <1>4, <2>5, <2>6 DEF GiveUp
<1>5. ASSUME NEW pc \in {"expired", "late"}, caller[c].pc \in {"waiting", "expired"},
             caller' = [caller EXCEPT ![c].pc = pc], UNCHANGED <<job, slot, stopping>>
      PROVE  RegistryInv'
  <2>1. caller' \in [Callers -> CallerRecords]
    BY <1>1, <1>5 DEF CallerRecords
  <2>2. \A b \in Callers : /\ caller'[b].job = caller[b].job
                           /\ caller'[b].kind = caller[b].kind
                           /\ b # c => caller'[b].pc = caller[b].pc
    BY <1>1, <1>5 DEF CallerRecords
  <2> QED
    BY <1>1, <1>5, <2>1, <2>2, CancelInv
<1>6. CASE Expire(c)
  BY <1>5, <1>6 DEF Expire
<1>7. CASE ReadDeadline(c)
  <2>1. CASE caller' = [caller EXCEPT ![c].pc = "late"]
    BY <1>5, <1>7, <2>1 DEF ReadDeadline
  <2>2. CASE Answer(c, "rebuilding")
    BY <1>7, <2>2, AnswerStepInv DEF ReadDeadline, Answer
  <2> QED
    BY <1>7, <2>1, <2>2 DEF ReadDeadline
<1>8. CASE ReadAttempted(c)
  BY <1>8, AnswerStepInv DEF ReadAttempted, Answer
<1> QED
  BY <1>3, <1>4, <1>6, <1>7, <1>8 DEF CallerStep

-----------------------------------------------------------------------------
(* Results *)

LEMMA StepInv == RegistryInv /\ [Next]_vars => RegistryInv'
<1> SUFFICES ASSUME RegistryInv, [Next]_vars PROVE RegistryInv'
  OBVIOUS
<1>1. ASSUME UNCHANGED <<job, slot, caller, stopping>> PROVE RegistryInv'
  BY <1>1 DEF RegistryInv, JobTypes, SlotHoldsBuild, Unfinished, Alive, CallersKnowJobs,
              QueriesAreCancelled
<1>2. CASE Shutdown
  <2>1. /\ job \in [Jobs -> JobRecords] /\ slot \in Jobs \cup {None}
        /\ caller \in [Callers -> CallerRecords]
    BY DEF RegistryInv, JobTypes
  <2>2. CASE job' = job
    BY <1>2, <2>1, <2>2, CancelInv DEF Shutdown
  <2>3. CASE slot \in Jobs /\ job' = [job EXCEPT ![slot].cancelled = TRUE]
    <3>1. job' \in [Jobs -> JobRecords]
      <4>1. [job[slot] EXCEPT !.cancelled = TRUE] \in JobRecords
        BY <2>1, <2>3 DEF JobRecords
      <4> QED
        BY <2>1, <2>3, <4>1
    <3>2. \A j \in Jobs : /\ job'[j].kind = job[j].kind
                          /\ job'[j].phase = job[j].phase
                          /\ job'[j].terminal = job[j].terminal
      BY <2>1, <2>3 DEF JobRecords
    <3> QED
      BY <1>2, <2>1, <3>1, <3>2, CancelInv DEF Shutdown
  <2> QED
    BY <1>2, <2>1, <2>2, <2>3 DEF Shutdown
<1>3. ASSUME NEW p \in Pollers, NEW d \in Domains, NEW id \in Jobs \cup {None},
             PollHistory(p, d, id)
      PROVE  RegistryInv'
  BY <1>1, <1>3 DEF PollHistory
<1>4. ASSUME NEW p \in Pollers, PollCurrent(p) \/ Describe(p) \/ Warn(p) PROVE RegistryInv'
  BY <1>1, <1>4 DEF PollCurrent, Describe, Warn
<1>5. CASE UNCHANGED vars
  BY <1>1, <1>5 DEF vars
<1> QED
  BY <1>2, <1>3, <1>4, <1>5, BuildStepInv, StartInv, CallInv, StartFailsInv, CallerStepInv
     DEF Next

\* The inductive invariant of the registry holds.
THEOREM InvariantHolds == Spec => []RegistryInv
BY InitInv, StepInv, PTL DEF Spec

\* A single build runs at a time, whoever asks and for whatever domain.
THEOREM OneBuild == Spec => []OneBuildAtATime
<1>1. RegistryInv => OneBuildAtATime
  <2> SUFFICES ASSUME RegistryInv PROVE Cardinality(Unfinished) <= 1
    BY DEF OneBuildAtATime
  <2>1. CASE Unfinished = {}
    BY <2>1, FS_EmptySet
  <2>2. ASSUME NEW j \in Unfinished PROVE Cardinality(Unfinished) <= 1
    <3>1. Unfinished = {j}
      BY <2>2 DEF RegistryInv, SlotHoldsBuild
    <3>2. Cardinality({j}) = 1
      BY FS_Singleton
    <3> QED
      BY <3>1, <3>2
  <2> QED
    BY <2>1, <2>2
<1> QED
  BY <1>1, InvariantHolds, PTL

\* A caller whose wait expires never cancels the build of an explicit request.
THEOREM ExplicitKept == Spec => []ExplicitIsNotCutShort
<1>1. RegistryInv => ExplicitIsNotCutShort
  BY NoneIsNoJob DEF RegistryInv, JobTypes, CallersKnowJobs, QueriesAreCancelled,
     ExplicitIsNotCutShort, Explicit, CallerRecords
<1> QED
  BY <1>1, InvariantHolds, PTL

-----------------------------------------------------------------------------
(* The announced attempts *)

LEMMA InitAnnounced == Init => AttemptsAreAnnounced
BY NoneIsNoJob DEF Init, NoJob, IdleCaller, AttemptsAreAnnounced

\* Build j goes on, and callers stay.
LEMMA JobStepAnnounced ==
    ASSUME RegistryInv, AttemptsAreAnnounced, NEW j \in Jobs, NEW rec \in JobRecords,
           job' = [job EXCEPT ![j] = rec], caller' = caller,
           rec.kind = job[j].kind, job[j].late => rec.late,
           rec.kind = "forced" /\ ~rec.attempted => Unpublished(rec) /\ rec.phase # "gate",
           rec.kind = "forced" /\ job[j].late /\ Unpublished(job[j]) => Unpublished(rec)
    PROVE  AttemptsAreAnnounced'
<1>1. \A i \in Jobs : job'[i] = IF i = j THEN rec ELSE job[i]
  BY DEF RegistryInv, JobTypes
<1>2. \A c \in Callers : caller[c].job # None =>
         caller[c].job \in Jobs /\ job[caller[c].job].kind = caller[c].kind
  BY DEF RegistryInv, JobTypes, CallerRecords, CallersKnowJobs
<1>3. \A c \in Callers : caller[c].pc = "late" => caller[c].job # None
  BY DEF RegistryInv, CallersKnowJobs
<1> QED
  BY <1>1, <1>2, <1>3 DEF AttemptsAreAnnounced

LEMMA BuildStepAnnounced ==
    ASSUME RegistryInv, AttemptsAreAnnounced, NEW j \in Jobs,
           Deadline(j) \/ BuildStep(j) \/ RemoteAnswers(j)
    PROVE  AttemptsAreAnnounced'
<1> DEFINE old == job[j]
<1>1. old \in JobRecords /\ job \in [Jobs -> JobRecords]
  BY DEF RegistryInv, JobTypes
<1>2. old.kind = "forced" /\ ~old.attempted => Unpublished(old) /\ old.phase # "gate"
  BY DEF AttemptsAreAnnounced
<1>3. job'[j] \in JobRecords
  BY BuildStepInv DEF RegistryInv, JobTypes
<1>4. \E rec : job' = [job EXCEPT ![j] = rec]
  BY DEF Deadline, BuildStep, BuildFails, BuildCompares, BuildParses, BuildIsNoOp,
         EnterPublication, PublicationDecides, GraphReplaced, HandOver, Finish, Exit,
         RemoteAnswers, Failing, Attempt
<1>5. job' = [job EXCEPT ![j] = job'[j]]
  BY <1>1, <1>4
<1>6. caller' = caller
  BY DEF Deadline, BuildStep, BuildFails, BuildCompares, BuildParses, BuildIsNoOp,
         EnterPublication, PublicationDecides, GraphReplaced, HandOver, Finish, Exit,
         RemoteAnswers, Work
<1> DEFINE FollowsOn(rec) ==
             /\ rec.kind = old.kind /\ (old.late => rec.late)
             /\ rec.kind = "forced" /\ ~rec.attempted => Unpublished(rec) /\ rec.phase # "gate"
             /\ rec.kind = "forced" /\ old.late /\ Unpublished(old) => Unpublished(rec)
<1>7. ASSUME Deadline(j) PROVE FollowsOn(job'[j])
  BY <1>1, <1>2, <1>7 DEF Deadline, JobRecords, Unpublished
<1>8. ASSUME BuildFails(j) PROVE FollowsOn(job'[j])
  BY <1>1, <1>2, <1>8 DEF BuildFails, Failing, JobRecords, Unpublished
<1>9. ASSUME BuildCompares(j) \/ BuildParses(j) \/ BuildIsNoOp(j) PROVE FollowsOn(job'[j])
  BY <1>1, <1>2, <1>9 DEF BuildCompares, BuildParses, BuildIsNoOp, JobRecords, Unpublished
<1>10. ASSUME EnterPublication(j) PROVE FollowsOn(job'[j])
  BY <1>1, <1>2, <1>10 DEF EnterPublication, Attempt, JobRecords, Unpublished
<1>11. ASSUME PublicationDecides(j) PROVE FollowsOn(job'[j])
  BY <1>1, <1>2, <1>11 DEF PublicationDecides, Failing, JobRecords, Unpublished
<1>12. ASSUME GraphReplaced(j) \/ HandOver(j) \/ RemoteAnswers(j) PROVE FollowsOn(job'[j])
  BY <1>1, <1>2, <1>12 DEF GraphReplaced, HandOver, RemoteAnswers, JobRecords, Unpublished
<1>13. ASSUME Finish(j) \/ Exit(j) PROVE FollowsOn(job'[j])
  BY <1>1, <1>2, <1>13 DEF Finish, Exit, TerminalState, JobRecords, Unpublished
<1>14. FollowsOn(job'[j])
  BY <1>7, <1>8, <1>9, <1>10, <1>11, <1>12, <1>13 DEF BuildStep
<1> QED
  BY <1>3, <1>5, <1>6, <1>14, JobStepAnnounced

\* A caller gets an answer or reads on, and cancelling is all that happens to
\* the builds.
LEMMA AnswerAnnounced ==
    ASSUME RegistryInv, AttemptsAreAnnounced, NEW c \in Callers,
           \A j \in Jobs : /\ job'[j].kind = job[j].kind
                           /\ job'[j].attempted = job[j].attempted
                           /\ job'[j].late = job[j].late
                           /\ job'[j].phase = job[j].phase
                           /\ job'[j].result = job[j].result
                           /\ job'[j].publication = job[j].publication
                           /\ job'[j].terminal = job[j].terminal,
           \A b \in Callers \ {c} : caller'[b] = caller[b],
           caller'[c].job = caller[c].job, caller'[c].kind = caller[c].kind,
           caller'[c].pc = "late" => caller[c].job # None /\ job[caller[c].job].late,
           caller'[c].answer = "doomed" =>
              \/ caller[c].answer = "doomed"
              \/ /\ caller[c].job # None
                 /\ job[caller[c].job].late /\ ~job[caller[c].job].attempted
    PROVE  AttemptsAreAnnounced'
<1>1. \A b \in Callers : caller[b].job # None =>
         caller[b].job \in Jobs /\ job[caller[b].job].kind = caller[b].kind
  BY DEF RegistryInv, JobTypes, CallerRecords, CallersKnowJobs
<1>2. \A b \in Callers : caller[b].pc = "late" => caller[b].job # None
  BY DEF RegistryInv, CallersKnowJobs
<1>3. \A j \in Jobs : Unpublished(job[j]) => Unpublished(job'[j])
  BY DEF Unpublished
<1>4. \A j \in Jobs : job'[j].kind = "forced" /\ ~job'[j].attempted =>
         Unpublished(job'[j]) /\ job'[j].phase # "gate"
  BY <1>3 DEF AttemptsAreAnnounced
<1>5. \A b \in Callers : caller'[b].pc = "late" => job'[caller'[b].job].late
  BY <1>1, <1>2 DEF AttemptsAreAnnounced
<1>6. ASSUME NEW b \in Callers, caller'[b].answer = "doomed"
      PROVE  /\ caller'[b].job # None
             /\ caller'[b].kind = "forced" =>
                   job'[caller'[b].job].late /\ Unpublished(job'[caller'[b].job])
  <2>1. CASE caller[b].answer = "doomed"
    <3>1. caller'[b].job = caller[b].job /\ caller'[b].kind = caller[b].kind
      OBVIOUS
    <3> QED
      BY <1>1, <1>3, <2>1, <3>1 DEF AttemptsAreAnnounced
  <2>2. CASE caller[b].answer # "doomed"
    <3>1. b = c
      BY <1>6, <2>2
    <3>2. /\ caller[c].job # None /\ caller[c].job \in Jobs
          /\ job[caller[c].job].kind = caller[c].kind
          /\ job[caller[c].job].late /\ ~job[caller[c].job].attempted
      BY <1>1, <1>6, <2>2, <3>1
    <3>3. caller[c].kind = "forced" => Unpublished(job[caller[c].job])
      BY <3>2 DEF AttemptsAreAnnounced
    <3>4. /\ caller'[b].job = caller[c].job /\ caller'[b].kind = caller[c].kind
          /\ job'[caller[c].job].late = job[caller[c].job].late
      BY <3>1, <3>2
    <3>5. Unpublished(job[caller[c].job]) => Unpublished(job'[caller[c].job])
      BY <1>3, <3>2
    <3> QED
      BY <3>2, <3>3, <3>4, <3>5
  <2> QED
    BY <2>1, <2>2
<1> QED
  BY <1>4, <1>5, <1>6 DEF AttemptsAreAnnounced

\* A new build, of which nobody but its caller knows.
LEMMA StartAnnounced ==
    ASSUME RegistryInv, AttemptsAreAnnounced, NEW c \in Callers, NEW d \in Domains,
           NEW k \in Asked, Start(c, d, k)
    PROVE  AttemptsAreAnnounced'
<1> USE NoneIsNoJob
<1>1. PICK j \in Jobs :
         /\ job[j].phase = "none"
         /\ job' = [job EXCEPT ![j] = [NoJob EXCEPT !.domain = d, !.kind = k,
                                                    !.phase = "preparing"]]
         /\ Wait(c, k, j, TRUE)
  BY DEF Start
<1> DEFINE new == [NoJob EXCEPT !.domain = d, !.kind = k, !.phase = "preparing"]
<1>2. new.phase = "preparing" /\ Unpublished(new)
  BY DEF NoJob, Unpublished
<1>3. \A i \in Jobs : job'[i] = IF i = j THEN new ELSE job[i]
  BY <1>1 DEF RegistryInv, JobTypes
<1>4. /\ caller'[c].pc = "waiting" /\ caller'[c].answer = None
      /\ \A b \in Callers \ {c} : caller'[b] = caller[b]
  BY <1>1 DEF Wait, RegistryInv, JobTypes
<1> HIDE DEF new
<1>5. \A b \in Callers : caller[b].job # None => caller[b].job \in Jobs \ {j}
  BY <1>1 DEF RegistryInv, JobTypes, CallerRecords, CallersKnowJobs
<1>6. \A b \in Callers : caller[b].pc = "late" => caller[b].job # None
  BY DEF RegistryInv, CallersKnowJobs
<1> QED
  BY <1>2, <1>3, <1>4, <1>5, <1>6 DEF AttemptsAreAnnounced

\* A caller is refused.
LEMMA RefusedAnnounced ==
    ASSUME RegistryInv, AttemptsAreAnnounced, NEW c \in Callers, NEW answer \in {"busy", "failed"},
           Answer(c, answer), job' = job
    PROVE  AttemptsAreAnnounced'
<1>1. /\ caller'[c].pc = "answered" /\ caller'[c].answer # "doomed"
      /\ caller'[c].job = caller[c].job /\ caller'[c].kind = caller[c].kind
      /\ \A b \in Callers \ {c} : caller'[b] = caller[b]
  BY DEF Answer, CallerRecords, RegistryInv, JobTypes
<1> QED
  BY <1>1, AnswerAnnounced

\* The other ways an index call begins.
LEMMA CallAnnounced ==
    ASSUME RegistryInv, AttemptsAreAnnounced, NEW c \in Callers, NEW d \in Domains,
           NEW k \in Asked, Join(c, d, k) \/ Refuse(c, d, k)
    PROVE  AttemptsAreAnnounced'
<1>1. CASE Join(c, d, k)
  <2>1. /\ caller'[c].pc = "waiting" /\ caller'[c].answer = None
        /\ \A b \in Callers \ {c} : caller'[b] = caller[b]
        /\ job' = job
    BY <1>1 DEF Join, Wait, RegistryInv, JobTypes
  <2> QED
    BY <2>1, NoneIsNoJob DEF AttemptsAreAnnounced
<1>2. CASE Refuse(c, d, k)
  BY <1>2, RefusedAnnounced DEF Refuse
<1> QED
  BY <1>1, <1>2

\* A wait ends with the build, or at its deadline.
LEMMA CallerStepAnnounced ==
    ASSUME RegistryInv, AttemptsAreAnnounced, NEW c \in Callers, CallerStep(c)
    PROVE  AttemptsAreAnnounced'
<1> USE NoneIsNoJob
<1> DEFINE mine == caller[c].job
<1>1. caller \in [Callers -> CallerRecords] /\ job \in [Jobs -> JobRecords]
  BY DEF RegistryInv, JobTypes
<1>2. caller[c].pc \in {"waiting", "expired", "late"} => mine # None /\ mine \in Jobs
  BY <1>1 DEF RegistryInv, CallersKnowJobs, CallerRecords
<1>3. /\ caller'[c].job = mine /\ caller'[c].kind = caller[c].kind
      /\ \A b \in Callers \ {c} : caller'[b] = caller[b]
  BY <1>1 DEF CallerStep, AnswerEnded, GiveUp, Expire, ReadDeadline, ReadAttempted, Answer,
              CallerRecords
<1>4. CASE AnswerEnded(c)
  <2>1. job[mine].result # "doomed"
    BY <1>1, <1>2, <1>4 DEF AnswerEnded, JobRecords
  <2>2. caller'[c].pc = "answered" /\ caller'[c].answer # "doomed" /\ job' = job
    BY <1>1, <1>4, <2>1 DEF AnswerEnded, Answer, CallerRecords
  <2> QED
    BY <1>3, <2>2, AnswerAnnounced
<1>5. CASE GiveUp(c)
  <2>1. caller'[c].pc = "answered" /\ caller'[c].answer # "doomed"
    BY <1>1, <1>5 DEF GiveUp, Answer, CallerRecords
  <2>2. \A j \in Jobs : /\ job'[j].kind = job[j].kind
                        /\ job'[j].attempted = job[j].attempted
                        /\ job'[j].late = job[j].late
                        /\ job'[j].phase = job[j].phase
                        /\ job'[j].result = job[j].result
                        /\ job'[j].publication = job[j].publication
                        /\ job'[j].terminal = job[j].terminal
    BY <1>1, <1>5 DEF GiveUp, JobRecords
  <2> QED
    BY <1>3, <2>1, <2>2, AnswerAnnounced
<1>6. CASE Expire(c)
  <2>1. caller'[c].pc = "expired" /\ caller'[c].answer = caller[c].answer /\ job' = job
    BY <1>1, <1>6 DEF Expire, CallerRecords
  <2> QED
    BY <1>3, <2>1, AnswerAnnounced
<1>7. CASE ReadDeadline(c)
  <2>1. /\ caller'[c].pc = "late" => job[mine].late
        /\ caller'[c].answer = "doomed" => caller[c].answer = "doomed"
        /\ job' = job
    BY <1>1, <1>7 DEF ReadDeadline, Answer, CallerRecords
  <2>2. mine # None
    BY <1>2, <1>7 DEF ReadDeadline
  <2> QED
    BY <1>3, <2>1, <2>2, AnswerAnnounced
<1>8. CASE ReadAttempted(c)
  <2>1. /\ caller'[c].pc = "answered"
        /\ caller'[c].answer = "doomed" => ~job[mine].attempted
        /\ job' = job
    BY <1>1, <1>8 DEF ReadAttempted, Answer, CallerRecords
  <2>2. mine # None /\ job[mine].late
    BY <1>2, <1>8 DEF ReadAttempted, AttemptsAreAnnounced
  <2> QED
    BY <1>3, <2>1, <2>2, AnswerAnnounced
<1> QED
  BY <1>4, <1>5, <1>6, <1>7, <1>8 DEF CallerStep

LEMMA StepAnnounced == RegistryInv /\ AttemptsAreAnnounced /\ [Next]_vars => AttemptsAreAnnounced'
<1> SUFFICES ASSUME RegistryInv, AttemptsAreAnnounced, [Next]_vars PROVE AttemptsAreAnnounced'
  OBVIOUS
<1>1. ASSUME UNCHANGED <<job, caller>> PROVE AttemptsAreAnnounced'
  BY <1>1 DEF AttemptsAreAnnounced
<1>2. CASE Shutdown
  <2>1. \A j \in Jobs : /\ job'[j].kind = job[j].kind
                        /\ job'[j].attempted = job[j].attempted
                        /\ job'[j].late = job[j].late
                        /\ job'[j].phase = job[j].phase
                        /\ job'[j].result = job[j].result
                        /\ job'[j].publication = job[j].publication
                        /\ job'[j].terminal = job[j].terminal
    BY <1>2 DEF Shutdown, JobRecords, RegistryInv, JobTypes
  <2>2. \A j \in Jobs : Unpublished(job[j]) => Unpublished(job'[j])
    BY <2>1 DEF Unpublished
  <2>3. caller' = caller
    BY <1>2 DEF Shutdown
  <2>4. \A c \in Callers : /\ caller[c].job # None => caller[c].job \in Jobs
                           /\ caller[c].pc = "late" => caller[c].job # None
    BY DEF RegistryInv, JobTypes, CallerRecords, CallersKnowJobs
  <2> QED
    BY <2>1, <2>2, <2>3, <2>4 DEF AttemptsAreAnnounced
<1>3. ASSUME NEW p \in Pollers, NEW d \in Domains, NEW id \in Jobs \cup {None},
             PollHistory(p, d, id)
      PROVE  AttemptsAreAnnounced'
  BY <1>1, <1>3 DEF PollHistory
<1>4. ASSUME NEW p \in Pollers, PollCurrent(p) \/ Describe(p) \/ Warn(p)
      PROVE  AttemptsAreAnnounced'
  BY <1>1, <1>4 DEF PollCurrent, Describe, Warn
<1>5. ASSUME NEW c \in Callers, NEW d \in Domains, StartFails(c, d)
      PROVE  AttemptsAreAnnounced'
  BY <1>5, RefusedAnnounced DEF StartFails
<1>6. CASE UNCHANGED vars
  BY <1>1, <1>6 DEF vars
<1> QED
  BY <1>2, <1>3, <1>4, <1>5, <1>6, BuildStepAnnounced, StartAnnounced, CallAnnounced,
     CallerStepAnnounced DEF Next

\* The caller of a forced build that is told "busy" at its deadline misses
\* nothing: the build never becomes ready and never publishes.
THEOREM DoomedStay == Spec => []DoomedNeverPublishes
<1>1. RegistryInv /\ AttemptsAreAnnounced => DoomedNeverPublishes
  BY DEF AttemptsAreAnnounced, DoomedNeverPublishes, Unpublished
<1>2. Spec => []AttemptsAreAnnounced
  BY InitInv, StepInv, InitAnnounced, StepAnnounced, PTL DEF Spec
<1> QED
  BY <1>1, <1>2, InvariantHolds, PTL

-----------------------------------------------------------------------------
(* The graph that local servers share: what builds and queries know of it *)

QueryTypes == query \in [Processes -> QueryRecords]

LEMMA NoMetaIsMeta == NoMeta \in MetaRecords
BY DEF NoMeta, MetaRecords, States, UnfinishedKinds, Revisions

LEMMA IdleQueryIsQuery == IdleQuery \in QueryRecords
BY NoMetaIsMeta DEF IdleQuery, QueryRecords, QueryPcs

LEMMA IdleBuilderIsBuilder == IdleBuilder \in BuilderRecords
<1>1. [src |-> Nil, wiki |-> Nil] \in InputRecords
  BY DEF InputRecords
<1> QED
  BY <1>1, ZenonT(20) DEF IdleBuilder, BuilderRecords, BuilderPcs

LEMMA GraphInitInv == GraphInit => GraphInv
<1> SUFFICES ASSUME GraphInit PROVE GraphInv
  OBVIOUS
<1> USE GraphAssumption DEF GraphInit
<1>1. StoreTypes
  BY NoMetaIsMeta DEF StoreTypes, GraphRecords
<1>2. BuilderTypes
  BY IdleBuilderIsBuilder DEF BuilderTypes, IdleBuilder, Scanned
<1>3. query \in [Processes -> QueryRecords]
  BY IdleQueryIsQuery
<1>4. /\ LocksHeld /\ GenerationsGrow /\ QueriesKnow
      /\ ScansAreLate /\ PutIsThere /\ ReadyIsCurrent
  BY DEF LocksHeld, GenerationsGrow, QueriesKnow, ScansAreLate, PutIsThere,
         ReadyIsCurrent, Guarded, Told, Building, Planned, Announced, Put,
         NoMeta, IdleBuilder, IdleQuery
<1> QED
  BY <1>1, <1>2, <1>3, <1>4 DEF GraphInv, GraphTypeOK

LEMMA RowMarked ==
  ASSUME db \in GraphRecords, NEW state \in {"missing", "ready", "dirty"}, MarkRow(state)
  PROVE  /\ db' \in GraphRecords
         /\ db'.rev = db.rev /\ db'.gen = db.gen /\ db'.state = state
<1>1. db' = [db EXCEPT !.state = state, !.stamp = db.stamp + 1]
  BY DEF MarkRow
<1>2. db.stamp + 1 \in Nat
  BY DEF GraphRecords
<1> QED
  BY <1>1, <1>2 DEF GraphRecords

LEMMA PlainIsMeta ==
  ASSUME meta \in MetaRecords, db \in GraphRecords, NEW state \in States
  PROVE  Plain(state, meta.gen) \in MetaRecords
BY ZenonT(20) DEF Plain, MetaRecords, GraphRecords, NoMeta, States, UnfinishedKinds

LEMMA BuilderStarted ==
  ASSUME BuilderTypes, NEW p \in Processes, NEW restore \in BOOLEAN,
         Started(p, restore)
  PROVE  /\ builder'[p].pc = "capture" /\ builder'[p].result = "nothing"
         /\ \A o \in Processes \ {p} : builder'[o] = builder[o]
BY DEF Started, BuilderTypes, IdleBuilder

-----------------------------------------------------------------------------
(* Types *)

\* What a build becomes: another record, or the same one elsewhere.
LEMMA BuilderStays ==
  ASSUME BuilderTypes, NEW p \in Processes, NEW b \in BuilderRecords,
         b.pc \in Scanned => b.in \in Revisions,
         b.pc = "lock" => b.in.wiki \in Contents,
         builder' = [builder EXCEPT ![p] = b]
  PROVE  BuilderTypes'
BY DEF BuilderTypes

LEMMA BuilderRewritten ==
  ASSUME NEW b \in BuilderRecords, NEW pc \in BuilderPcs, NEW in \in InputRecords
  PROVE  /\ [b EXCEPT !.pc = pc, !.in = in] \in BuilderRecords
         /\ [b EXCEPT !.pc = pc, !.fenced = FALSE] \in BuilderRecords
         /\ [b EXCEPT !.pc = pc] \in BuilderRecords
         /\ \A result \in {"nothing", "ready", "failed"} :
               [b EXCEPT !.result = result] \in BuilderRecords
         /\ \A restore \in BOOLEAN :
               [b EXCEPT !.pc = pc, !.restore = restore] \in BuilderRecords
BY ZenonT(20) DEF BuilderRecords

LEMMA BuilderGoes ==
  ASSUME BuilderTypes, NEW p \in Processes, NEW pc \in BuilderPcs \ {"lock"},
         pc \in Scanned => builder[p].pc \in Scanned,
         Goes(p, pc)
  PROVE  BuilderTypes'
<1>1. [builder[p] EXCEPT !.pc = pc] \in BuilderRecords
  <2>1. builder[p] \in BuilderRecords /\ builder[p].in \in InputRecords
    BY DEF BuilderTypes, BuilderRecords
  <2> QED
    BY <2>1, BuilderRewritten
<1> QED
  BY <1>1, BuilderStays DEF Goes, BuilderTypes, BuilderRecords

LEMMA BuilderEnds ==
  ASSUME BuilderTypes, NEW p \in Processes, NEW result \in {"ready", "failed"},
         Ends(p, result)
  PROVE  BuilderTypes'
<1>1. [IdleBuilder EXCEPT !.result = result] \in BuilderRecords
  <2>1. IdleBuilder.in \in InputRecords
    BY DEF IdleBuilder, InputRecords
  <2> QED
    BY <2>1, IdleBuilderIsBuilder, BuilderRewritten DEF BuilderPcs
<1> QED
  BY <1>1, BuilderStays DEF Ends, IdleBuilder, Scanned

LEMMA BuilderStarts ==
  ASSUME BuilderTypes, NEW p \in Processes, NEW restore \in BOOLEAN,
         Started(p, restore)
  PROVE  BuilderTypes'
<1> DEFINE b == [IdleBuilder EXCEPT !.pc = "capture", !.restore = restore]
<1>1. b \in BuilderRecords
  <2>1. IdleBuilder.in \in InputRecords
    BY DEF IdleBuilder, InputRecords
  <2> QED
    BY <2>1, IdleBuilderIsBuilder, BuilderRewritten DEF BuilderPcs
<1>2. b.pc = "capture"
  BY DEF IdleBuilder
<1>3. builder' = [builder EXCEPT ![p] = b]
  BY DEF Started
<1> HIDE DEF b
<1> QED
  BY <1>1, <1>2, <1>3, BuilderStays DEF Scanned

LEMMA BuilderTypesStep ==
  ASSUME GraphInv, [GraphNext]_graphVars
  PROVE  BuilderTypes'
<1> USE DEF GraphInv, GraphTypeOK, StoreTypes
<1>1. CASE EditSources \/ EditWiki
  BY <1>1 DEF EditSources, EditWiki, Edited, BuilderTypes
<1>2. ASSUME NEW p \in Processes, Index(p) PROVE BuilderTypes'
  BY <1>2, BuilderStarts DEF Index
<1>3. ASSUME NEW p \in Processes, Capture(p) PROVE BuilderTypes'
  <2> DEFINE b == [builder[p] EXCEPT !.pc = "lock",
                                     !.in = [builder[p].in EXCEPT !.wiki = wiki]]
  <2>1. builder[p] \in BuilderRecords /\ builder[p].in \in InputRecords
    BY DEF BuilderTypes, BuilderRecords
  <2>2. [builder[p].in EXCEPT !.wiki = wiki] \in InputRecords
    BY <2>1 DEF InputRecords
  <2>3. b \in BuilderRecords
    BY <2>1, <2>2, BuilderRewritten DEF BuilderPcs
  <2>4. b.pc = "lock" /\ b.in.wiki = wiki
    BY <2>1 DEF BuilderRecords, InputRecords
  <2>5. builder' = [builder EXCEPT ![p] = b]
    BY <1>3 DEF Capture
  <2> HIDE DEF b
  <2> QED
    BY <2>3, <2>4, <2>5, BuilderStays DEF Scanned
<1>4. ASSUME NEW p \in Processes, Scan(p) PROVE BuilderTypes'
  <2> PICK pc \in {"compare", "announce"} :
            builder' = [builder EXCEPT ![p] =
                [builder[p] EXCEPT !.pc = pc, !.gen = meta.gen + 1, !.in.src = src,
                                   !.prior = db.state, !.previous = db.rev]]
    BY <1>4 DEF Scan
  <2> DEFINE in == [builder[p].in EXCEPT !.src = src]
             gen == meta.gen + 1
             b == [builder[p] EXCEPT !.pc = pc, !.gen = gen, !.in = in,
                                     !.prior = db.state, !.previous = db.rev]
  <2>1. builder[p] \in BuilderRecords /\ builder[p].in \in InputRecords
    BY DEF BuilderTypes, BuilderRecords
  <2>2. in \in InputRecords
    BY <2>1 DEF InputRecords
  <2>3. /\ gen \in Nat /\ db.state \in {"missing", "ready", "dirty"}
        /\ db.rev \in Revisions \cup {Nil}
    BY DEF MetaRecords, GraphRecords
  <2>4. b \in BuilderRecords
    <3>1. pc \in BuilderPcs
      BY DEF BuilderPcs
    <3> HIDE DEF in, gen
    <3> QED
      BY <2>1, <2>2, <2>3, <3>1, ZenonT(20) DEF BuilderRecords
  <2>5. in \in Revisions
    BY <1>4, <2>1 DEF Scan, BuilderTypes, InputRecords, Revisions
  <2>6. b.pc = pc /\ b.in = in
    BY <2>1 DEF BuilderRecords
  <2>7. builder' = [builder EXCEPT ![p] = b]
    OBVIOUS
  <2> HIDE DEF b, in, gen
  <2>8. b.pc # "lock"
    BY <2>6
  <2> QED
    BY <2>4, <2>5, <2>6, <2>7, <2>8, BuilderStays
<1>5. ASSUME NEW p \in Processes, NoOp(p) PROVE BuilderTypes'
  BY <1>5, BuilderEnds DEF NoOp
<1>6. ASSUME NEW p \in Processes, NoOpIsStale(p) PROVE BuilderTypes'
  BY <1>6, BuilderGoes DEF NoOpIsStale, BuilderPcs, Scanned
<1>7. ASSUME NEW p \in Processes, MarkStale(p) PROVE BuilderTypes'
  BY <1>7, BuilderGoes DEF MarkStale, BuilderPcs, Scanned
<1>8. ASSUME NEW p \in Processes, Compared(p) PROVE BuilderTypes'
  BY <1>8, BuilderGoes DEF Compared, BuilderPcs, Scanned
<1>9. ASSUME NEW p \in Processes, Announce(p) PROVE BuilderTypes'
  BY <1>9, BuilderGoes DEF Announce, BuilderPcs, Scanned
<1>10. ASSUME NEW p \in Processes, SelectorsChanged(p) PROVE BuilderTypes'
  BY <1>10, BuilderGoes DEF SelectorsChanged, BuilderPcs, Scanned
<1>11. ASSUME NEW p \in Processes, Resolve(p) PROVE BuilderTypes'
  BY <1>11, BuilderGoes DEF Resolve, BuilderPcs, Scanned
<1>12. ASSUME NEW p \in Processes, Refused(p) PROVE BuilderTypes'
  BY <1>12, BuilderEnds DEF Refused
<1>13. ASSUME NEW p \in Processes, Guard(p) PROVE BuilderTypes'
  BY <1>13, BuilderGoes DEF Guard, BuilderPcs, Scanned
<1>14. ASSUME NEW p \in Processes, Replace(p) PROVE BuilderTypes'
  BY <1>14, BuilderGoes DEF Replace, BuilderPcs, Scanned
<1>15. ASSUME NEW p \in Processes, Provisional(p) PROVE BuilderTypes'
  BY <1>15, BuilderGoes DEF Provisional, BuilderPcs, Scanned
<1>16. ASSUME NEW p \in Processes, Pending(p) PROVE BuilderTypes'
  BY <1>16, BuilderGoes DEF Pending, BuilderPcs, Scanned
<1>17. ASSUME NEW p \in Processes, Seal(p) PROVE BuilderTypes'
  BY <1>17, BuilderGoes DEF Seal, BuilderPcs, Scanned
<1>18. ASSUME NEW p \in Processes, Return(p) PROVE BuilderTypes'
  BY <1>18, BuilderEnds DEF Return
<1>19. ASSUME NEW p \in Processes, Disown(p) PROVE BuilderTypes'
  BY <1>19, BuilderGoes DEF Disown, BuilderPcs, Scanned
<1>20. ASSUME NEW p \in Processes, DisownRow(p) PROVE BuilderTypes'
  <2>1. CASE Goes(p, "disowned")
    BY <2>1, BuilderGoes DEF BuilderPcs, Scanned
  <2>2. CASE Ends(p, "failed")
    BY <2>2, BuilderEnds
  <2> QED
    BY <1>20, <2>1, <2>2 DEF DisownRow
<1>21. ASSUME NEW p \in Processes, DisownMeta(p) PROVE BuilderTypes'
  BY <1>21, BuilderEnds DEF DisownMeta
<1>22. ASSUME NEW p \in Processes, Abort(p) PROVE BuilderTypes'
  BY <1>22, BuilderEnds DEF Abort
<1>23. ASSUME NEW p \in Processes, SelectorsUnreadable(p) PROVE BuilderTypes'
  <2> DEFINE b == [builder[p] EXCEPT !.pc = "relock", !.fenced = FALSE]
  <2>1. b \in BuilderRecords /\ b.pc = "relock"
    <3>1. builder[p] \in BuilderRecords /\ builder[p].in \in InputRecords
      BY DEF BuilderTypes, BuilderRecords
    <3>2. b.pc = "relock"
      BY <3>1 DEF BuilderRecords
    <3> QED
      BY <3>1, <3>2, BuilderRewritten DEF BuilderPcs
  <2>2. builder' = [builder EXCEPT ![p] = b]
    BY <1>23 DEF SelectorsUnreadable
  <2> HIDE DEF b
  <2> QED
    BY <2>1, <2>2, BuilderStays DEF Scanned
<1>24. ASSUME NEW p \in Processes, StatusRebuilds(p) PROVE BuilderTypes'
  BY <1>24, BuilderStarts DEF StatusRebuilds, BuilderTypes
<1>25. ASSUME NEW p \in Processes, Crash(p) PROVE BuilderTypes'
  <2>1. IdleBuilder \in BuilderRecords /\ IdleBuilder.pc = "idle"
    BY IdleBuilderIsBuilder DEF IdleBuilder
  <2> QED
    BY <1>25, <2>1, BuilderStays DEF Crash, Scanned
<1>26. ASSUME NEW p \in Processes,
            \/ Ask(p) \/ ReadBusy(p) \/ StatusReady(p) \/ StatusNotReady(p) \/ StatusRebuilding(p)
            \/ StatusStale(p) \/ Recover(p) \/ RecoverBusy(p) \/ Fresh(p) \/ NotFresh(p)
            \/ TakeWiki(p) \/ FreshAfterAll(p) \/ MarkDirtyRow(p) \/ MarkDirtyMeta(p) \/ Waited(p) \/ Search(p) \/ RebuildWaitExpires(p)
     PROVE  BuilderTypes'
  BY <1>26 DEF BuilderTypes, Ask, ReadBusy, StatusReady, StatusNotReady,
           StatusRebuilding, StatusStale, Recover, RecoverBusy, Fresh, NotFresh,
           TakeWiki, FreshAfterAll, MarkDirtyRow, MarkDirtyMeta, Waited, Search,
           RebuildWaitExpires
<1>27. CASE UNCHANGED graphVars
  BY <1>27 DEF graphVars, BuilderTypes
<1> QED
  BY <1>1, <1>2, <1>3, <1>4, <1>5, <1>6, <1>7, <1>8, <1>9, <1>10, <1>11, <1>12,
     <1>13, <1>14, <1>15, <1>16, <1>17, <1>18, <1>19, <1>20, <1>21, <1>22, <1>23,
     <1>24, <1>25, <1>26, <1>27
     DEF GraphNext, IndexerStep, QueryStep

LEMMA QueryStays ==
  ASSUME QueryTypes, NEW p \in Processes, NEW q \in QueryRecords, Asks(p, q)
  PROVE  QueryTypes'
BY DEF QueryTypes, Asks

LEMMA QueryEnds ==
  ASSUME QueryTypes, NEW p \in Processes, NoRows(p)
  PROVE  QueryTypes'
BY IdleQueryIsQuery, QueryStays DEF NoRows

\* The query goes on, of this stage.
LEMMA QueryMoves ==
  ASSUME NEW q \in QueryRecords, NEW pc \in QueryPcs
  PROVE  /\ [q EXCEPT !.pc = pc] \in QueryRecords
         /\ \A stage \in {"guard", "confirm", "tell"} :
               [q EXCEPT !.pc = pc, !.stage = stage] \in QueryRecords
BY DEF QueryRecords

LEMMA QueryWitnesses ==
  ASSUME GraphTypeOK, NEW q \in QueryRecords, src' \in Contents, wiki' \in Contents
  PROVE  Witness(q) \in QueryRecords
BY DEF Witness, QueryRecords, Revisions

LEMMA QueryTypesStep ==
  ASSUME GraphInv, [GraphNext]_graphVars
  PROVE  QueryTypes'
<1> USE DEF GraphInv, GraphTypeOK, StoreTypes, QueryTypes
<1>1. CASE EditSources \/ EditWiki
  <2>1. src' \in Contents /\ wiki' \in Contents
    BY <1>1 DEF EditSources, EditWiki
  <2>2. query' = [p \in Processes |-> Witness(query[p])]
    BY <1>1 DEF EditSources, EditWiki, Edited
  <2> QED
    BY <2>1, <2>2, QueryWitnesses
<1>2. ASSUME NEW p \in Processes, Index(p) \/ IndexerStep(p) \/ Abort(p) \/ SelectorsUnreadable(p)
     PROVE  QueryTypes'
  BY <1>2 DEF IndexerStep, Index, Capture, Scan, NoOp, NoOpIsStale, MarkStale,
           Compared, Announce, SelectorsChanged, Resolve, Refused, Guard, Replace,
           Provisional, Pending, Seal, Return, Disown, DisownRow, DisownMeta, Abort,
           SelectorsUnreadable
<1>3. ASSUME NEW p \in Processes, ReadBusy(p) PROVE QueryTypes'
  BY <1>3, QueryEnds DEF ReadBusy
<1>4. ASSUME NEW p \in Processes, StatusNotReady(p) PROVE QueryTypes'
  BY <1>4, QueryEnds DEF StatusNotReady
<1>5. ASSUME NEW p \in Processes, StatusRebuilding(p) PROVE QueryTypes'
  BY <1>5, QueryEnds DEF StatusRebuilding
<1>6. ASSUME NEW p \in Processes, RecoverBusy(p) PROVE QueryTypes'
  BY <1>6, QueryEnds DEF RecoverBusy
<1>7. ASSUME NEW p \in Processes, Ask(p) PROVE QueryTypes'
  <2> DEFINE q == [IdleQuery EXCEPT !.pc = "status", !.seen = {Now}]
  <2>1. {Now} \in SUBSET Revisions
    BY DEF Now, Revisions
  <2>2. q \in QueryRecords
    BY <2>1, IdleQueryIsQuery DEF QueryRecords, QueryPcs
  <2> QED
    BY <1>7, <2>2, QueryStays DEF Ask
<1>8. ASSUME NEW p \in Processes, StatusReady(p) PROVE QueryTypes'
  <2>1. [query[p] EXCEPT !.pc = "fresh"] \in QueryRecords
    BY QueryMoves DEF QueryPcs
  <2>2. [query[p] EXCEPT !.pc = "search", !.rev = db.rev] \in QueryRecords
    BY DEF QueryRecords, QueryPcs, GraphRecords
  <2> QED
    BY <1>8, <2>1, <2>2, QueryStays DEF StatusReady
<1>9. ASSUME NEW p \in Processes, StatusRebuilds(p) PROVE QueryTypes'
  <2>1. [query[p] EXCEPT !.pc = "wait"] \in QueryRecords
    BY QueryMoves DEF QueryPcs
  <2> QED
    BY <1>9, <2>1, QueryStays DEF StatusRebuilds
<1>10. ASSUME NEW p \in Processes, StatusStale(p) PROVE QueryTypes'
  <2>1. [query[p] EXCEPT !.pc = "recover", !.meta = meta] \in QueryRecords
    BY IdleQueryIsQuery, NoMetaIsMeta DEF QueryRecords, QueryPcs
  <2> QED
    BY <1>10, <2>1, QueryStays DEF StatusStale
<1>11. ASSUME NEW p \in Processes, Recover(p) PROVE QueryTypes'
  <2>1. [query[p] EXCEPT !.pc = "status", !.meta = NoMeta] \in QueryRecords
    BY IdleQueryIsQuery, NoMetaIsMeta DEF QueryRecords, QueryPcs
  <2> QED
    BY <1>11, <2>1, QueryStays DEF Recover
<1>12. ASSUME NEW p \in Processes, Fresh(p) PROVE QueryTypes'
  <2>1. [query[p] EXCEPT !.pc = "status", !.stage = "confirm"] \in QueryRecords
    BY QueryMoves DEF QueryPcs
  <2> QED
    BY <1>12, <2>1, QueryStays DEF Fresh
<1>13. ASSUME NEW p \in Processes, NotFresh(p) PROVE QueryTypes'
  <2>1. [query[p] EXCEPT !.pc = "mutate"] \in QueryRecords
    BY QueryMoves DEF QueryPcs
  <2> QED
    BY <1>13, <2>1, QueryStays DEF NotFresh
<1>14. ASSUME NEW p \in Processes, TakeWiki(p) PROVE QueryTypes'
  <2>1. [query[p] EXCEPT !.pc = "lock"] \in QueryRecords
    BY QueryMoves DEF QueryPcs
  <2> QED
    BY <1>14, <2>1, QueryStays DEF TakeWiki
<1>15. ASSUME NEW p \in Processes, FreshAfterAll(p) PROVE QueryTypes'
  <2>1. [query[p] EXCEPT !.pc = "status", !.stage = "confirm"] \in QueryRecords
    BY QueryMoves DEF QueryPcs
  <2> QED
    BY <1>15, <2>1, QueryStays DEF FreshAfterAll
<1>16. ASSUME NEW p \in Processes, MarkDirtyRow(p) PROVE QueryTypes'
  <2>1. [query[p] EXCEPT !.pc = "marked"] \in QueryRecords
    BY QueryMoves DEF QueryPcs
  <2> QED
    BY <1>16, <2>1, QueryStays DEF MarkDirtyRow
<1>17. ASSUME NEW p \in Processes, MarkDirtyMeta(p) PROVE QueryTypes'
  <2>1. [query[p] EXCEPT !.pc = "status", !.stage = "confirm"] \in QueryRecords
    BY QueryMoves DEF QueryPcs
  <2> QED
    BY <1>17, <2>1, QueryStays DEF MarkDirtyMeta
<1>18. ASSUME NEW p \in Processes, Waited(p) PROVE QueryTypes'
  <2> DEFINE stage == IF builder[p].result = "ready" THEN "confirm" ELSE "tell"
  <2>1. [query[p] EXCEPT !.pc = "status", !.stage = stage] \in QueryRecords
    BY QueryMoves DEF QueryPcs
  <2> QED
    BY <1>18, <2>1, QueryStays DEF Waited
<1>19. ASSUME NEW p \in Processes, Search(p) PROVE QueryTypes'
  <2>1. [IdleQuery EXCEPT !.rev = query[p].rev, !.rows = db.rev] \in QueryRecords
    BY IdleQueryIsQuery DEF QueryRecords, GraphRecords
  <2> QED
    BY <1>19, <2>1, QueryStays, QueryEnds DEF Search
<1>20. ASSUME NEW p \in Processes, RebuildWaitExpires(p) PROVE QueryTypes'
  <2>1. [query[p] EXCEPT !.pc = "status", !.stage = "tell"] \in QueryRecords
    BY QueryMoves DEF QueryPcs
  <2> QED
    BY <1>20, <2>1, QueryStays DEF RebuildWaitExpires
<1>21. ASSUME NEW p \in Processes, Crash(p) PROVE QueryTypes'
  BY <1>21, IdleQueryIsQuery DEF Crash
<1>22. CASE UNCHANGED graphVars
  BY <1>22 DEF graphVars
<1> QED
  BY <1>1, <1>2, <1>3, <1>4, <1>5, <1>6, <1>7, <1>8, <1>9, <1>10, <1>11, <1>12,
     <1>13, <1>14, <1>15, <1>16, <1>17, <1>18, <1>19, <1>20, <1>21, <1>22 DEF GraphNext, QueryStep

LEMMA StoreTypesStep ==
  ASSUME GraphInv, [GraphNext]_graphVars
  PROVE  StoreTypes'
<1> USE GraphAssumption
    DEF GraphInv, GraphTypeOK, Builds, Queries, Threads, StoreTypes, BuilderTypes,
        GraphRecords, MetaRecords, UnfinishedKinds, States, Scanned, Revisions,
        BuilderRecords
<1>1. CASE EditSources
  BY <1>1 DEF EditSources, Edited, Witness, lockVars, countVars
<1>2. CASE EditWiki
  BY <1>2 DEF EditWiki, Edited, Witness, lockVars, countVars
<1>3. ASSUME NEW p \in Processes, Index(p) PROVE StoreTypes'
  BY <1>3 DEF Index, Building, Started, inputVars, lockVars, IdleBuilder
<1>4. ASSUME NEW p \in Processes, Capture(p) PROVE StoreTypes'
  BY <1>4 DEF Capture, inputVars, lockVars, countVars
<1>5. ASSUME NEW p \in Processes, Scan(p) PROVE StoreTypes'
  BY <1>5 DEF Scan, Builds, inputVars, countVars
<1>6. ASSUME NEW p \in Processes, NoOp(p) PROVE StoreTypes'
  BY <1>6 DEF NoOp, ReadyFor, Ends, inputVars, countVars, MetaMatches, IdleBuilder,
           Unlocked, Builds
<1>7. ASSUME NEW p \in Processes, NoOpIsStale(p) PROVE StoreTypes'
  BY <1>7, RowMarked DEF NoOpIsStale, ReadyFor, Goes, inputVars, lockVars, countVars,
                      MetaMatches
<1>8. ASSUME NEW p \in Processes, MarkStale(p) PROVE StoreTypes'
  BY <1>8 DEF MarkStale, Transition, Goes, inputVars, lockVars, countVars, Resealed,
           Plain, NoMeta
<1>9. ASSUME NEW p \in Processes, Compared(p) PROVE StoreTypes'
  BY <1>9 DEF Compared, ReadyFor, Goes, inputVars, lockVars, countVars, MetaMatches
<1>10. ASSUME NEW p \in Processes, Announce(p) PROVE StoreTypes'
  BY <1>10 DEF Announce, Goes, inputVars, lockVars, countVars
<1>11. ASSUME NEW p \in Processes, SelectorsChanged(p) PROVE StoreTypes'
  BY <1>11 DEF SelectorsChanged, Goes, Unlocked, Builds, inputVars, countVars
<1>12. ASSUME NEW p \in Processes, Resolve(p) PROVE StoreTypes'
  BY <1>12 DEF Resolve, Goes, inputVars, lockVars, countVars
<1>13. ASSUME NEW p \in Processes, Refused(p) PROVE StoreTypes'
  BY <1>13 DEF Refused, ReadyFor, WikiTaken, Ends, inputVars, countVars, MetaMatches,
           IdleBuilder, Unlocked, Builds
<1>14. ASSUME NEW p \in Processes, Guard(p) PROVE StoreTypes'
  BY <1>14 DEF Guard, Builds, Goes, inputVars, countVars
<1>15. ASSUME NEW p \in Processes, Replace(p) PROVE StoreTypes'
  BY <1>15 DEF Replace, Goes, inputVars, lockVars, countVars
<1>16. ASSUME NEW p \in Processes, Provisional(p) PROVE StoreTypes'
  BY <1>16 DEF Provisional, Describes, Goes, inputVars, lockVars, countVars
<1>17. ASSUME NEW p \in Processes, Pending(p) PROVE StoreTypes'
  BY <1>17 DEF Pending, Describes, Goes, inputVars, lockVars, countVars
<1>18. ASSUME NEW p \in Processes, Seal(p) PROVE StoreTypes'
  BY <1>18 DEF Seal, Describes, Goes, inputVars, lockVars, countVars
<1>19. ASSUME NEW p \in Processes, Return(p) PROVE StoreTypes'
  BY <1>19 DEF Return, Ends, inputVars, countVars, IdleBuilder, Unlocked, Builds
<1>20. ASSUME NEW p \in Processes, Disown(p) PROVE StoreTypes'
  BY <1>20 DEF Disown, Builds, Goes, inputVars, countVars
<1>21. ASSUME NEW p \in Processes, DisownRow(p) PROVE StoreTypes'
  <2>1. CASE SameGeneration(p) /\ db.state # "missing"
    <3>1. MarkRow("dirty")
      BY <1>21, <2>1 DEF DisownRow
    <3>2. /\ db'.rev = db.rev /\ db'.gen = db.gen /\ db'.state = "dirty"
          /\ db' \in GraphRecords
      <4>1. db \in GraphRecords
        BY DEF StoreTypes
      <4> HIDE DEF GraphInv, GraphRecords
      <4> QED
        BY <3>1, <4>1, RowMarked
    <3>3. /\ builder[p].pc = "relock" /\ holder = Nil
          /\ builder' = [builder EXCEPT ![p].pc = "disowned"]
          /\ meta' = meta /\ query' = query /\ holder' = Builds(p)
          /\ src' = src /\ wiki' = wiki /\ mutator' = mutator /\ sharers' = sharers
          /\ begun' = begun /\ edits' = edits /\ crashes' = crashes
      BY <1>21, <2>1 DEF DisownRow, Goes, inputVars, countVars
    <3> QED
      BY <3>2, <3>3
  <2>2. CASE ~(SameGeneration(p) /\ db.state # "missing")
    BY <1>21, <2>2 DEF DisownRow, Ends, Unlocked, IdleBuilder, Builds, inputVars, countVars
  <2> QED
    BY <2>1, <2>2
<1>22. ASSUME NEW p \in Processes, DisownMeta(p) PROVE StoreTypes'
  BY <1>22 DEF DisownMeta, Transition, Ends, inputVars, countVars, Resealed, Plain,
           IdleBuilder, Unlocked, Builds, NoMeta
<1>23. ASSUME NEW p \in Processes, Abort(p) PROVE StoreTypes'
  BY <1>23 DEF Abort, Building, Ends, inputVars, countVars, IdleBuilder, Unlocked,
           Builds
<1>24. ASSUME NEW p \in Processes, SelectorsUnreadable(p) PROVE StoreTypes'
  BY <1>24 DEF SelectorsUnreadable, Builds, inputVars, countVars
<1>25. ASSUME NEW p \in Processes, Ask(p) PROVE StoreTypes'
  BY <1>25 DEF Ask, Asks, IdleQuery, Now, inputVars, lockVars, countVars, NoMeta
<1>26. ASSUME NEW p \in Processes, ReadBusy(p) PROVE StoreTypes'
  BY <1>26 DEF ReadBusy, NoRows, inputVars, countVars, Asks, IdleQuery, Unlocked,
           Queries, NoMeta
<1>27. ASSUME NEW p \in Processes, StatusReady(p) PROVE StoreTypes'
  BY <1>27 DEF StatusReady, Crashed, Status, Asks, inputVars, lockVars, countVars,
           UnfinishedKinds, MetaMatches
<1>28. ASSUME NEW p \in Processes, StatusRebuilds(p) PROVE StoreTypes'
  BY <1>28 DEF StatusRebuilds, Crashed, Status, Building, Started, Asks, inputVars,
           lockVars, UnfinishedKinds, MetaMatches, IdleBuilder
<1>29. ASSUME NEW p \in Processes, StatusNotReady(p) PROVE StoreTypes'
  BY <1>29 DEF StatusNotReady, Crashed, Status, Building, NoRows, inputVars, countVars,
           UnfinishedKinds, MetaMatches, Asks, IdleQuery, Unlocked, Queries, NoMeta
<1>30. ASSUME NEW p \in Processes, StatusRebuilding(p) PROVE StoreTypes'
  BY <1>30 DEF StatusRebuilding, Crashed, Building, NoRows, inputVars, countVars,
           UnfinishedKinds, Asks, IdleQuery, Unlocked, Queries, NoMeta
<1>31. ASSUME NEW p \in Processes, StatusStale(p) PROVE StoreTypes'
  BY <1>31 DEF StatusStale, Crashed, Building, Asks, inputVars, lockVars, countVars,
           UnfinishedKinds
<1>32. ASSUME NEW p \in Processes, Recover(p) PROVE StoreTypes'
  <2>1. CASE meta = query[p].meta /\ Recoverable
    <3> DEFINE state == IF RestoresPrior THEN meta.prior ELSE "failed"
    <3>1. state \in States
      BY DEF MetaRecords, States
    <3> HIDE DEF state
    <3>2. Plain(state, meta.gen) \in MetaRecords
      BY <3>1, PlainIsMeta
    <3>3. meta' = Plain(state, meta.gen)
      BY <1>32, <2>1 DEF Recover, state
    <3> QED
      BY <1>32, <3>2, <3>3 DEF Recover, inputVars, lockVars, countVars
  <2>2. CASE ~(meta = query[p].meta /\ Recoverable)
    BY <1>32, <2>2 DEF Recover, inputVars, lockVars, countVars
  <2> QED
    BY <2>1, <2>2
<1>33. ASSUME NEW p \in Processes, RecoverBusy(p) PROVE StoreTypes'
  BY <1>33 DEF RecoverBusy, NoRows, inputVars, countVars, Asks, IdleQuery, Unlocked,
           Queries, NoMeta
<1>34. ASSUME NEW p \in Processes, Fresh(p) PROVE StoreTypes'
  BY <1>34 DEF Fresh, ReadyFor, Now, Asks, inputVars, lockVars, countVars, MetaMatches
<1>35. ASSUME NEW p \in Processes, NotFresh(p) PROVE StoreTypes'
  BY <1>35 DEF NotFresh, ReadyFor, Now, Asks, inputVars, lockVars, countVars,
           MetaMatches
<1>36. ASSUME NEW p \in Processes, TakeWiki(p) PROVE StoreTypes'
  BY <1>36 DEF TakeWiki, Queries, Asks, inputVars, countVars
<1>37. ASSUME NEW p \in Processes, FreshAfterAll(p) PROVE StoreTypes'
  BY <1>37 DEF FreshAfterAll, ReadyFor, Now, Asks, Unlocked, Queries, inputVars,
           countVars, MetaMatches
<1>38. ASSUME NEW p \in Processes, MarkDirtyRow(p) PROVE StoreTypes'
  BY <1>38, RowMarked DEF MarkDirtyRow, ReadyFor, Now, Queries, Asks, inputVars,
                      countVars, MetaMatches
<1>39. ASSUME NEW p \in Processes, MarkDirtyMeta(p) PROVE StoreTypes'
  BY <1>39 DEF MarkDirtyMeta, Transition, Asks, Unlocked, Queries, inputVars, countVars,
           Resealed, Plain, NoMeta
<1>40. ASSUME NEW p \in Processes, Waited(p) PROVE StoreTypes'
  BY <1>40 DEF Waited, Building, Asks, inputVars, lockVars, countVars
<1>41. ASSUME NEW p \in Processes, Search(p) PROVE StoreTypes'
  BY <1>41 DEF Search, MetaMatches, GuardedRevision, Building, Asks, IdleQuery,
           lockVars, NoRows, inputVars, countVars, NoMeta, Unlocked, Queries
<1>42. ASSUME NEW p \in Processes, RebuildWaitExpires(p) PROVE StoreTypes'
  BY <1>42 DEF RebuildWaitExpires, Building, Asks, inputVars, lockVars, countVars
<1>43. ASSUME NEW p \in Processes, Crash(p) PROVE StoreTypes'
  BY <1>43 DEF Crash, Building, IdleBuilder, IdleQuery, Builds, Queries, inputVars,
           NoMeta
<1>44. CASE UNCHANGED graphVars
  BY <1>44 DEF graphVars, inputVars, lockVars, countVars
<1> QED
  BY <1>1, <1>2, <1>3, <1>4, <1>5, <1>6, <1>7, <1>8, <1>9, <1>10, <1>11, <1>12,
     <1>13, <1>14, <1>15, <1>16, <1>17, <1>18, <1>19, <1>20, <1>21, <1>22, <1>23,
     <1>24, <1>25, <1>26, <1>27, <1>28, <1>29, <1>30, <1>31, <1>32, <1>33, <1>34,
     <1>35, <1>36, <1>37, <1>38, <1>39, <1>40, <1>41, <1>42, <1>43, <1>44
     DEF GraphNext, IndexerStep, QueryStep

LEMMA LocksHeldStep ==
  ASSUME GraphInv, [GraphNext]_graphVars
  PROVE  LocksHeld'
<1> USE GraphAssumption
    DEF GraphInv, GraphTypeOK, Builds, Queries, Threads, LocksHeld, BuilderTypes,
        StoreTypes, Planned, Announced, Put
<1>1. CASE EditSources
  BY <1>1 DEF EditSources, Edited, Witness, lockVars, countVars
<1>2. CASE EditWiki
  BY <1>2 DEF EditWiki, Edited, Witness, lockVars, countVars
<1>3. ASSUME NEW p \in Processes, Index(p) PROVE LocksHeld'
  BY <1>3 DEF Index, Building, Started, inputVars, lockVars, IdleBuilder
<1>4. ASSUME NEW p \in Processes, Capture(p) PROVE LocksHeld'
  BY <1>4 DEF Capture, inputVars, lockVars, countVars
<1>5. ASSUME NEW p \in Processes, Scan(p) PROVE LocksHeld'
  BY <1>5 DEF Scan, Builds, inputVars, countVars
<1>6. ASSUME NEW p \in Processes, NoOp(p) PROVE LocksHeld'
  BY <1>6 DEF NoOp, ReadyFor, Ends, inputVars, countVars, MetaMatches, IdleBuilder,
           Unlocked, Builds
<1>7. ASSUME NEW p \in Processes, NoOpIsStale(p) PROVE LocksHeld'
  BY <1>7, RowMarked DEF NoOpIsStale, ReadyFor, Goes, inputVars, lockVars, countVars,
                      MetaMatches
<1>8. ASSUME NEW p \in Processes, MarkStale(p) PROVE LocksHeld'
  BY <1>8 DEF MarkStale, Transition, Goes, inputVars, lockVars, countVars, Resealed,
           Plain, NoMeta
<1>9. ASSUME NEW p \in Processes, Compared(p) PROVE LocksHeld'
  BY <1>9 DEF Compared, ReadyFor, Goes, inputVars, lockVars, countVars, MetaMatches
<1>10. ASSUME NEW p \in Processes, Announce(p) PROVE LocksHeld'
  BY <1>10 DEF Announce, Goes, inputVars, lockVars, countVars
<1>11. ASSUME NEW p \in Processes, SelectorsChanged(p) PROVE LocksHeld'
  BY <1>11 DEF SelectorsChanged, Goes, Unlocked, Builds, inputVars, countVars
<1>12. ASSUME NEW p \in Processes, Resolve(p) PROVE LocksHeld'
  BY <1>12 DEF Resolve, Goes, inputVars, lockVars, countVars
<1>13. ASSUME NEW p \in Processes, Refused(p) PROVE LocksHeld'
  BY <1>13 DEF Refused, ReadyFor, WikiTaken, Ends, inputVars, countVars, MetaMatches,
           IdleBuilder, Unlocked, Builds
<1>14. ASSUME NEW p \in Processes, Guard(p) PROVE LocksHeld'
  BY <1>14 DEF Guard, Builds, Goes, inputVars, countVars
<1>15. ASSUME NEW p \in Processes, Replace(p) PROVE LocksHeld'
  BY <1>15 DEF Replace, Goes, inputVars, lockVars, countVars
<1>16. ASSUME NEW p \in Processes, Provisional(p) PROVE LocksHeld'
  BY <1>16 DEF Provisional, Describes, Goes, inputVars, lockVars, countVars
<1>17. ASSUME NEW p \in Processes, Pending(p) PROVE LocksHeld'
  BY <1>17 DEF Pending, Describes, Goes, inputVars, lockVars, countVars
<1>18. ASSUME NEW p \in Processes, Seal(p) PROVE LocksHeld'
  BY <1>18 DEF Seal, Describes, Goes, inputVars, lockVars, countVars
<1>19. ASSUME NEW p \in Processes, Return(p) PROVE LocksHeld'
  BY <1>19 DEF Return, Ends, inputVars, countVars, IdleBuilder, Unlocked, Builds
<1>20. ASSUME NEW p \in Processes, Disown(p) PROVE LocksHeld'
  BY <1>20 DEF Disown, Builds, Goes, inputVars, countVars
<1>21. ASSUME NEW p \in Processes, DisownRow(p) PROVE LocksHeld'
  BY <1>21, RowMarked DEF DisownRow, SameGeneration, Builds, Goes, Ends, inputVars,
                      countVars, IdleBuilder, Unlocked
<1>22. ASSUME NEW p \in Processes, DisownMeta(p) PROVE LocksHeld'
  BY <1>22 DEF DisownMeta, Transition, Ends, inputVars, countVars, Resealed, Plain,
           IdleBuilder, Unlocked, Builds, NoMeta
<1>23. ASSUME NEW p \in Processes, Abort(p) PROVE LocksHeld'
  BY <1>23 DEF Abort, Building, Ends, inputVars, countVars, IdleBuilder, Unlocked,
           Builds
<1>24. ASSUME NEW p \in Processes, SelectorsUnreadable(p) PROVE LocksHeld'
  BY <1>24 DEF SelectorsUnreadable, Builds, inputVars, countVars
<1>25. ASSUME NEW p \in Processes, Ask(p) PROVE LocksHeld'
  BY <1>25 DEF Ask, Asks, IdleQuery, Now, inputVars, lockVars, countVars, NoMeta
<1>26. ASSUME NEW p \in Processes, ReadBusy(p) PROVE LocksHeld'
  BY <1>26 DEF ReadBusy, NoRows, inputVars, countVars, Asks, IdleQuery, Unlocked,
           Queries, NoMeta
<1>27. ASSUME NEW p \in Processes, StatusReady(p) PROVE LocksHeld'
  BY <1>27 DEF StatusReady, Crashed, Status, Asks, inputVars, lockVars, countVars,
           UnfinishedKinds, MetaMatches
<1>28. ASSUME NEW p \in Processes, StatusRebuilds(p) PROVE LocksHeld'
  <2>1. CASE Building(p)
    BY <1>28, <2>1 DEF StatusRebuilds, Asks, inputVars, lockVars
  <2>2. CASE ~Building(p)
    <3>1. Started(p, TRUE)
      BY <1>28, <2>2 DEF StatusRebuilds
    <3>2. /\ builder'[p].pc = "capture"
          /\ \A o \in Processes \ {p} : builder'[o] = builder[o]
      BY <3>1, BuilderStarted
    <3> QED
      BY <1>28, <2>2, <3>2 DEF StatusRebuilds, Asks, inputVars, lockVars
  <2> QED
    BY <2>1, <2>2
<1>29. ASSUME NEW p \in Processes, StatusNotReady(p) PROVE LocksHeld'
  BY <1>29 DEF StatusNotReady, Crashed, Status, Building, NoRows, inputVars, countVars,
           UnfinishedKinds, MetaMatches, Asks, IdleQuery, Unlocked, Queries, NoMeta
<1>30. ASSUME NEW p \in Processes, StatusRebuilding(p) PROVE LocksHeld'
  BY <1>30 DEF StatusRebuilding, Crashed, Building, NoRows, inputVars, countVars,
           UnfinishedKinds, Asks, IdleQuery, Unlocked, Queries, NoMeta
<1>31. ASSUME NEW p \in Processes, StatusStale(p) PROVE LocksHeld'
  BY <1>31 DEF StatusStale, Crashed, Building, Asks, inputVars, lockVars, countVars,
           UnfinishedKinds
<1>32. ASSUME NEW p \in Processes, Recover(p) PROVE LocksHeld'
  BY <1>32 DEF Recover, Recoverable, Plain, RestoresPrior, Asks, NoMeta, inputVars,
           lockVars, countVars, UnfinishedKinds
<1>33. ASSUME NEW p \in Processes, RecoverBusy(p) PROVE LocksHeld'
  BY <1>33 DEF RecoverBusy, NoRows, inputVars, countVars, Asks, IdleQuery, Unlocked,
           Queries, NoMeta
<1>34. ASSUME NEW p \in Processes, Fresh(p) PROVE LocksHeld'
  BY <1>34 DEF Fresh, ReadyFor, Now, Asks, inputVars, lockVars, countVars, MetaMatches
<1>35. ASSUME NEW p \in Processes, NotFresh(p) PROVE LocksHeld'
  BY <1>35 DEF NotFresh, ReadyFor, Now, Asks, inputVars, lockVars, countVars,
           MetaMatches
<1>36. ASSUME NEW p \in Processes, TakeWiki(p) PROVE LocksHeld'
  BY <1>36 DEF TakeWiki, Queries, Asks, inputVars, countVars
<1>37. ASSUME NEW p \in Processes, FreshAfterAll(p) PROVE LocksHeld'
  BY <1>37 DEF FreshAfterAll, ReadyFor, Now, Asks, Unlocked, Queries, inputVars,
           countVars, MetaMatches
<1>38. ASSUME NEW p \in Processes, MarkDirtyRow(p) PROVE LocksHeld'
  BY <1>38, RowMarked DEF MarkDirtyRow, ReadyFor, Now, Queries, Asks, inputVars,
                      countVars, MetaMatches
<1>39. ASSUME NEW p \in Processes, MarkDirtyMeta(p) PROVE LocksHeld'
  BY <1>39 DEF MarkDirtyMeta, Transition, Asks, Unlocked, Queries, inputVars, countVars,
           Resealed, Plain, NoMeta
<1>40. ASSUME NEW p \in Processes, Waited(p) PROVE LocksHeld'
  BY <1>40 DEF Waited, Building, Asks, inputVars, lockVars, countVars
<1>41. ASSUME NEW p \in Processes, Search(p) PROVE LocksHeld'
  <2>1. CASE Asks(p, [IdleQuery EXCEPT !.rev = query[p].rev, !.rows = db.rev])
    BY <1>41, <2>1 DEF Search, Asks, IdleQuery, NoRows, Unlocked, Queries, inputVars, lockVars,
       countVars
  <2>2. CASE NoRows(p)
    BY <1>41, <2>2 DEF Search, NoRows, Asks, IdleQuery, Unlocked, inputVars, countVars
  <2> QED
    BY <1>41, <2>1, <2>2 DEF Search
<1>42. ASSUME NEW p \in Processes, RebuildWaitExpires(p) PROVE LocksHeld'
  BY <1>42 DEF RebuildWaitExpires, Building, Asks, inputVars, lockVars, countVars
<1>43. ASSUME NEW p \in Processes, Crash(p) PROVE LocksHeld'
  BY <1>43 DEF Crash, Building, IdleBuilder, IdleQuery, Builds, Queries, inputVars,
           NoMeta
<1>44. CASE UNCHANGED graphVars
  BY <1>44 DEF graphVars, inputVars, lockVars, countVars
<1> QED
  BY <1>1, <1>2, <1>3, <1>4, <1>5, <1>6, <1>7, <1>8, <1>9, <1>10, <1>11, <1>12,
     <1>13, <1>14, <1>15, <1>16, <1>17, <1>18, <1>19, <1>20, <1>21, <1>22, <1>23,
     <1>24, <1>25, <1>26, <1>27, <1>28, <1>29, <1>30, <1>31, <1>32, <1>33, <1>34,
     <1>35, <1>36, <1>37, <1>38, <1>39, <1>40, <1>41, <1>42, <1>43, <1>44
     DEF GraphNext, IndexerStep, QueryStep

LEMMA GenerationsGrowStep ==
  ASSUME GraphInv, [GraphNext]_graphVars
  PROVE  GenerationsGrow'
<1> USE GraphAssumption
    DEF GraphInv, GraphTypeOK, Builds, Queries, Threads, GenerationsGrow,
        BuilderTypes, StoreTypes, LocksHeld, Planned, Announced, Put, GraphRecords,
        MetaRecords
<1>1. CASE EditSources
  BY <1>1 DEF EditSources, Edited, Witness, lockVars, countVars
<1>2. CASE EditWiki
  BY <1>2 DEF EditWiki, Edited, Witness, lockVars, countVars
<1>3. ASSUME NEW p \in Processes,
            \/ Ask(p) \/ ReadBusy(p) \/ StatusReady(p) \/ StatusNotReady(p)
            \/ StatusRebuilding(p) \/ StatusStale(p) \/ RecoverBusy(p)
            \/ Fresh(p) \/ NotFresh(p) \/ TakeWiki(p) \/ FreshAfterAll(p)
            \/ Waited(p) \/ Search(p) \/ RebuildWaitExpires(p)
     PROVE  GenerationsGrow'
  <2>1. UNCHANGED <<db, meta, builder>>
    BY <1>3 DEF Ask, ReadBusy, StatusReady, StatusNotReady, StatusRebuilding,
             StatusStale, RecoverBusy, Fresh, NotFresh, TakeWiki, FreshAfterAll,
             Waited, Search, RebuildWaitExpires, inputVars, lockVars, countVars
  <2> QED
    BY <2>1
<1>4. ASSUME NEW p \in Processes, Index(p) PROVE GenerationsGrow'
  BY <1>4 DEF Index, Building, Started, inputVars, lockVars, IdleBuilder
<1>5. ASSUME NEW p \in Processes, Capture(p) PROVE GenerationsGrow'
  BY <1>5 DEF Capture, inputVars, lockVars, countVars
<1>6. ASSUME NEW p \in Processes, Scan(p) PROVE GenerationsGrow'
  BY <1>6 DEF Scan, Builds, inputVars, countVars
<1>7. ASSUME NEW p \in Processes, NoOp(p) PROVE GenerationsGrow'
  BY <1>7 DEF NoOp, ReadyFor, Ends, inputVars, countVars, MetaMatches, IdleBuilder,
           Unlocked, Builds
<1>8. ASSUME NEW p \in Processes, NoOpIsStale(p) PROVE GenerationsGrow'
  BY <1>8, RowMarked DEF NoOpIsStale, ReadyFor, Goes, inputVars, lockVars, countVars,
                      MetaMatches
<1>9. ASSUME NEW p \in Processes, MarkStale(p) PROVE GenerationsGrow'
  BY <1>9 DEF MarkStale, Transition, Goes, inputVars, lockVars, countVars, Resealed,
           Plain, NoMeta
<1>10. ASSUME NEW p \in Processes, Compared(p) PROVE GenerationsGrow'
  BY <1>10 DEF Compared, ReadyFor, Goes, inputVars, lockVars, countVars, MetaMatches
<1>11. ASSUME NEW p \in Processes, Announce(p) PROVE GenerationsGrow'
  <2>1. meta'.gen = builder[p].gen /\ db' = db /\ holder' = holder
    BY <1>11 DEF Announce, lockVars
  <2>2. builder' = [builder EXCEPT ![p].pc = "resolve"] /\ builder[p].pc = "announce"
    BY <1>11 DEF Announce, Goes
  <2>3. builder[p].gen \in Nat
    BY DEF BuilderRecords
  <2>4. \A o \in Processes \ {p} : builder[o].pc \notin Planned \cup Announced
    BY <2>2
  <2>5. db'.gen <= meta'.gen
    BY <2>1, <2>2, <2>3
  <2> QED
    BY <2>1, <2>2, <2>4, <2>5
<1>12. ASSUME NEW p \in Processes, SelectorsChanged(p) PROVE GenerationsGrow'
  BY <1>12 DEF SelectorsChanged, Goes, Unlocked, Builds, inputVars, countVars
<1>13. ASSUME NEW p \in Processes, Resolve(p) PROVE GenerationsGrow'
  BY <1>13 DEF Resolve, Goes, inputVars, lockVars, countVars
<1>14. ASSUME NEW p \in Processes, Refused(p) PROVE GenerationsGrow'
  BY <1>14 DEF Refused, ReadyFor, WikiTaken, Ends, inputVars, countVars, MetaMatches,
           IdleBuilder, Unlocked, Builds
<1>15. ASSUME NEW p \in Processes, Guard(p) PROVE GenerationsGrow'
  BY <1>15 DEF Guard, Builds, Goes, inputVars, countVars
<1>16. ASSUME NEW p \in Processes, Replace(p) PROVE GenerationsGrow'
  BY <1>16 DEF Replace, Goes, inputVars, lockVars, countVars
<1>17. ASSUME NEW p \in Processes, Provisional(p) PROVE GenerationsGrow'
  BY <1>17 DEF Provisional, Describes, Goes, inputVars, lockVars, countVars
<1>18. ASSUME NEW p \in Processes, Pending(p) PROVE GenerationsGrow'
  BY <1>18 DEF Pending, Describes, Goes, inputVars, lockVars, countVars
<1>19. ASSUME NEW p \in Processes, Seal(p) PROVE GenerationsGrow'
  BY <1>19 DEF Seal, Describes, Goes, inputVars, lockVars, countVars
<1>20. ASSUME NEW p \in Processes, Return(p) PROVE GenerationsGrow'
  BY <1>20 DEF Return, Ends, inputVars, countVars, IdleBuilder, Unlocked, Builds
<1>21. ASSUME NEW p \in Processes, Disown(p) PROVE GenerationsGrow'
  BY <1>21 DEF Disown, Builds, Goes, inputVars, countVars
<1>22. ASSUME NEW p \in Processes, DisownRow(p) PROVE GenerationsGrow'
  <2>1. CASE SameGeneration(p) /\ db.state # "missing"
    <3>1. MarkRow("dirty")
      BY <1>22, <2>1 DEF DisownRow
    <3>2. /\ db'.rev = db.rev /\ db'.gen = db.gen /\ db'.state = "dirty"
          /\ db' \in GraphRecords
      <4>1. db \in GraphRecords
        BY DEF StoreTypes
      <4> HIDE DEF GraphInv, GraphRecords
      <4> QED
        BY <3>1, <4>1, RowMarked
    <3>3. /\ builder[p].pc = "relock" /\ holder = Nil
          /\ builder' = [builder EXCEPT ![p].pc = "disowned"]
          /\ meta' = meta /\ query' = query /\ holder' = Builds(p)
          /\ src' = src /\ wiki' = wiki /\ mutator' = mutator /\ sharers' = sharers
          /\ begun' = begun /\ edits' = edits /\ crashes' = crashes
      BY <1>22, <2>1 DEF DisownRow, Goes, inputVars, countVars
    <3> QED
      BY <3>2, <3>3
  <2>2. CASE ~(SameGeneration(p) /\ db.state # "missing")
    BY <1>22, <2>2 DEF DisownRow, Ends, Unlocked, IdleBuilder, Builds, inputVars, countVars
  <2> QED
    BY <2>1, <2>2
<1>23. ASSUME NEW p \in Processes, DisownMeta(p) PROVE GenerationsGrow'
  BY <1>23 DEF DisownMeta, Transition, Ends, inputVars, countVars, Resealed, Plain,
           IdleBuilder, Unlocked, Builds, NoMeta
<1>24. ASSUME NEW p \in Processes, Abort(p) PROVE GenerationsGrow'
  BY <1>24 DEF Abort, Building, Ends, inputVars, countVars, IdleBuilder, Unlocked,
           Builds
<1>25. ASSUME NEW p \in Processes, SelectorsUnreadable(p) PROVE GenerationsGrow'
  BY <1>25 DEF SelectorsUnreadable, Builds, inputVars, countVars
<1>26. ASSUME NEW p \in Processes, StatusRebuilds(p) PROVE GenerationsGrow'
  <2>1. CASE Building(p)
    BY <1>26, <2>1 DEF StatusRebuilds, Asks, inputVars, lockVars
  <2>2. CASE ~Building(p)
    <3>1. Started(p, TRUE)
      BY <1>26, <2>2 DEF StatusRebuilds
    <3>2. /\ builder'[p].pc = "capture"
          /\ \A o \in Processes \ {p} : builder'[o] = builder[o]
      BY <3>1, BuilderStarted
    <3> QED
      BY <1>26, <2>2, <3>2 DEF StatusRebuilds, Asks, inputVars, lockVars
  <2> QED
    BY <2>1, <2>2
<1>27. ASSUME NEW p \in Processes, Recover(p) PROVE GenerationsGrow'
  BY <1>27 DEF Recover, Recoverable, Plain, RestoresPrior, Asks, NoMeta, inputVars,
           lockVars, countVars, UnfinishedKinds
<1>28. ASSUME NEW p \in Processes, MarkDirtyRow(p) PROVE GenerationsGrow'
  BY <1>28, RowMarked DEF MarkDirtyRow, ReadyFor, Now, Queries, Asks, inputVars,
                      countVars, MetaMatches
<1>29. ASSUME NEW p \in Processes, MarkDirtyMeta(p) PROVE GenerationsGrow'
  BY <1>29 DEF MarkDirtyMeta, Transition, Asks, Unlocked, Queries, inputVars, countVars,
           Resealed, Plain, NoMeta
<1>30. ASSUME NEW p \in Processes, Crash(p) PROVE GenerationsGrow'
  BY <1>30 DEF Crash, Building, IdleBuilder, IdleQuery, Builds, Queries, inputVars,
           NoMeta
<1>31. CASE UNCHANGED graphVars
  BY <1>31 DEF graphVars, inputVars, lockVars, countVars
<1> QED
  BY <1>1, <1>2, <1>3, <1>4, <1>5, <1>6, <1>7, <1>8, <1>9, <1>10, <1>11, <1>12,
     <1>13, <1>14, <1>15, <1>16, <1>17, <1>18, <1>19, <1>20, <1>21, <1>22, <1>23,
     <1>24, <1>25, <1>26, <1>27, <1>28, <1>29, <1>30, <1>31
     DEF GraphNext, IndexerStep, QueryStep

LEMMA QueriesKnowStep ==
  ASSUME GraphInv, [GraphNext]_graphVars
  PROVE  QueriesKnow'
<1> USE GraphAssumption
    DEF GraphInv, GraphTypeOK, Builds, Queries, Threads, QueriesKnow, QueryRecords,
        Now
<1>1. CASE EditSources
  BY <1>1 DEF EditSources, Edited, Witness, lockVars, countVars
<1>2. CASE EditWiki
  BY <1>2 DEF EditWiki, Edited, Witness, lockVars, countVars
<1>3. ASSUME NEW p \in Processes,
            \/ Index(p) \/ Capture(p) \/ Scan(p) \/ NoOp(p) \/ NoOpIsStale(p)
            \/ MarkStale(p) \/ Compared(p) \/ Announce(p) \/ SelectorsChanged(p)
            \/ Resolve(p) \/ Refused(p) \/ Guard(p) \/ Replace(p)
            \/ Provisional(p) \/ Pending(p) \/ Seal(p) \/ Return(p) \/ Disown(p)
            \/ DisownRow(p) \/ DisownMeta(p) \/ Abort(p)
            \/ SelectorsUnreadable(p)
     PROVE  QueriesKnow'
  <2>1. UNCHANGED <<src, wiki, query>>
    BY <1>3 DEF Index, Capture, Scan, NoOp, NoOpIsStale, MarkStale, Compared, Announce,
             SelectorsChanged, Resolve, Refused, Guard, Replace, Provisional,
             Pending, Seal, Return, Disown, DisownRow, DisownMeta, Abort,
             SelectorsUnreadable, inputVars, lockVars, countVars
  <2> QED
    BY <2>1
<1>4. ASSUME NEW p \in Processes, Ask(p) PROVE QueriesKnow'
  BY <1>4 DEF Ask, Asks, IdleQuery, Now, inputVars, lockVars, countVars, NoMeta
<1>5. ASSUME NEW p \in Processes, ReadBusy(p) PROVE QueriesKnow'
  BY <1>5 DEF ReadBusy, NoRows, inputVars, countVars, Asks, IdleQuery, Unlocked,
           Queries, NoMeta
<1>6. ASSUME NEW p \in Processes, StatusReady(p) PROVE QueriesKnow'
  BY <1>6 DEF StatusReady, Crashed, Status, Asks, inputVars, lockVars, countVars,
           UnfinishedKinds, MetaMatches
<1>7. ASSUME NEW p \in Processes, StatusRebuilds(p) PROVE QueriesKnow'
  BY <1>7 DEF StatusRebuilds, Crashed, Status, Building, Started, Asks, inputVars,
           lockVars, UnfinishedKinds, MetaMatches, IdleBuilder
<1>8. ASSUME NEW p \in Processes, StatusNotReady(p) PROVE QueriesKnow'
  BY <1>8 DEF StatusNotReady, Crashed, Status, Building, NoRows, inputVars, countVars,
           UnfinishedKinds, MetaMatches, Asks, IdleQuery, Unlocked, Queries, NoMeta
<1>9. ASSUME NEW p \in Processes, StatusRebuilding(p) PROVE QueriesKnow'
  BY <1>9 DEF StatusRebuilding, Crashed, Building, NoRows, inputVars, countVars,
           UnfinishedKinds, Asks, IdleQuery, Unlocked, Queries, NoMeta
<1>10. ASSUME NEW p \in Processes, StatusStale(p) PROVE QueriesKnow'
  BY <1>10 DEF StatusStale, Crashed, Building, Asks, inputVars, lockVars, countVars,
           UnfinishedKinds
<1>11. ASSUME NEW p \in Processes, Recover(p) PROVE QueriesKnow'
  BY <1>11 DEF Recover, Recoverable, Plain, RestoresPrior, Asks, NoMeta, inputVars,
           lockVars, countVars, UnfinishedKinds
<1>12. ASSUME NEW p \in Processes, RecoverBusy(p) PROVE QueriesKnow'
  BY <1>12 DEF RecoverBusy, NoRows, inputVars, countVars, Asks, IdleQuery, Unlocked,
           Queries, NoMeta
<1>13. ASSUME NEW p \in Processes, Fresh(p) PROVE QueriesKnow'
  BY <1>13 DEF Fresh, ReadyFor, Now, Asks, inputVars, lockVars, countVars, MetaMatches
<1>14. ASSUME NEW p \in Processes, NotFresh(p) PROVE QueriesKnow'
  BY <1>14 DEF NotFresh, ReadyFor, Now, Asks, inputVars, lockVars, countVars,
           MetaMatches
<1>15. ASSUME NEW p \in Processes, TakeWiki(p) PROVE QueriesKnow'
  BY <1>15 DEF TakeWiki, Queries, Asks, inputVars, countVars
<1>16. ASSUME NEW p \in Processes, FreshAfterAll(p) PROVE QueriesKnow'
  BY <1>16 DEF FreshAfterAll, ReadyFor, Now, Asks, Unlocked, Queries, inputVars,
           countVars, MetaMatches
<1>17. ASSUME NEW p \in Processes, MarkDirtyRow(p) PROVE QueriesKnow'
  BY <1>17, RowMarked DEF MarkDirtyRow, ReadyFor, Now, Queries, Asks, inputVars,
                      countVars, MetaMatches
<1>18. ASSUME NEW p \in Processes, MarkDirtyMeta(p) PROVE QueriesKnow'
  BY <1>18 DEF MarkDirtyMeta, Transition, Asks, Unlocked, Queries, inputVars, countVars,
           Resealed, Plain, NoMeta
<1>19. ASSUME NEW p \in Processes, Waited(p) PROVE QueriesKnow'
  BY <1>19 DEF Waited, Building, Asks, inputVars, lockVars, countVars
<1>20. ASSUME NEW p \in Processes, Search(p) PROVE QueriesKnow'
  <2>1. CASE Asks(p, [IdleQuery EXCEPT !.rev = query[p].rev, !.rows = db.rev])
    BY <1>20, <2>1 DEF Search, Asks, IdleQuery, NoRows, Unlocked, Queries, inputVars, lockVars,
       countVars
  <2>2. CASE NoRows(p)
    BY <1>20, <2>2 DEF Search, NoRows, Asks, IdleQuery, Unlocked, inputVars, countVars
  <2> QED
    BY <1>20, <2>1, <2>2 DEF Search
<1>21. ASSUME NEW p \in Processes, RebuildWaitExpires(p) PROVE QueriesKnow'
  BY <1>21 DEF RebuildWaitExpires, Building, Asks, inputVars, lockVars, countVars
<1>22. ASSUME NEW p \in Processes, Crash(p) PROVE QueriesKnow'
  BY <1>22 DEF Crash, Building, IdleBuilder, IdleQuery, Builds, Queries, inputVars,
           NoMeta
<1>23. CASE UNCHANGED graphVars
  BY <1>23 DEF graphVars, inputVars, lockVars, countVars
<1> QED
  BY <1>1, <1>2, <1>3, <1>4, <1>5, <1>6, <1>7, <1>8, <1>9, <1>10, <1>11, <1>12,
     <1>13, <1>14, <1>15, <1>16, <1>17, <1>18, <1>19, <1>20, <1>21, <1>22, <1>23
     DEF GraphNext, IndexerStep, QueryStep

LEMMA ScansAreLateStep ==
  ASSUME GraphInv, [GraphNext]_graphVars
  PROVE  ScansAreLate'
<1> USE GraphAssumption
    DEF GraphInv, GraphTypeOK, Builds, Queries, Threads, ScansAreLate, BuilderTypes,
        LocksHeld, QueriesKnow, Planned, Announced, Put, Guarded, SourcesSince,
        WikiSince, Now
<1>1. CASE EditSources
  BY <1>1 DEF EditSources, Edited, Witness, lockVars, countVars
<1>2. CASE EditWiki
  BY <1>2 DEF EditWiki, Edited, Witness, lockVars, countVars
<1>3. ASSUME NEW p \in Processes, Index(p) PROVE ScansAreLate'
  BY <1>3 DEF Index, Building, Started, inputVars, lockVars, IdleBuilder
<1>4. ASSUME NEW p \in Processes, Capture(p) PROVE ScansAreLate'
  BY <1>4 DEF Capture, inputVars, lockVars, countVars
<1>5. ASSUME NEW p \in Processes, Scan(p) PROVE ScansAreLate'
  BY <1>5 DEF Scan, Builds, inputVars, countVars
<1>6. ASSUME NEW p \in Processes, NoOp(p) PROVE ScansAreLate'
  BY <1>6 DEF NoOp, ReadyFor, Ends, inputVars, countVars, MetaMatches, IdleBuilder,
           Unlocked, Builds
<1>7. ASSUME NEW p \in Processes, NoOpIsStale(p) PROVE ScansAreLate'
  BY <1>7, RowMarked DEF NoOpIsStale, ReadyFor, Goes, inputVars, lockVars, countVars,
                      MetaMatches
<1>8. ASSUME NEW p \in Processes, MarkStale(p) PROVE ScansAreLate'
  BY <1>8 DEF MarkStale, Transition, Goes, inputVars, lockVars, countVars, Resealed,
           Plain, NoMeta
<1>9. ASSUME NEW p \in Processes, Compared(p) PROVE ScansAreLate'
  BY <1>9 DEF Compared, ReadyFor, Goes, inputVars, lockVars, countVars, MetaMatches
<1>10. ASSUME NEW p \in Processes, Announce(p) PROVE ScansAreLate'
  BY <1>10 DEF Announce, Goes, inputVars, lockVars, countVars
<1>11. ASSUME NEW p \in Processes, SelectorsChanged(p) PROVE ScansAreLate'
  BY <1>11 DEF SelectorsChanged, Goes, Unlocked, Builds, inputVars, countVars
<1>12. ASSUME NEW p \in Processes, Resolve(p) PROVE ScansAreLate'
  BY <1>12 DEF Resolve, Goes, inputVars, lockVars, countVars
<1>13. ASSUME NEW p \in Processes, Refused(p) PROVE ScansAreLate'
  BY <1>13 DEF Refused, ReadyFor, WikiTaken, Ends, inputVars, countVars, MetaMatches,
           IdleBuilder, Unlocked, Builds
<1>14. ASSUME NEW p \in Processes, Guard(p) PROVE ScansAreLate'
  BY <1>14 DEF Guard, Builds, Goes, inputVars, countVars
<1>15. ASSUME NEW p \in Processes, Replace(p) PROVE ScansAreLate'
  BY <1>15 DEF Replace, Goes, inputVars, lockVars, countVars
<1>16. ASSUME NEW p \in Processes, Provisional(p) PROVE ScansAreLate'
  BY <1>16 DEF Provisional, Describes, Goes, inputVars, lockVars, countVars
<1>17. ASSUME NEW p \in Processes, Pending(p) PROVE ScansAreLate'
  BY <1>17 DEF Pending, Describes, Goes, inputVars, lockVars, countVars
<1>18. ASSUME NEW p \in Processes, Seal(p) PROVE ScansAreLate'
  BY <1>18 DEF Seal, Describes, Goes, inputVars, lockVars, countVars
<1>19. ASSUME NEW p \in Processes, Return(p) PROVE ScansAreLate'
  BY <1>19 DEF Return, Ends, inputVars, countVars, IdleBuilder, Unlocked, Builds
<1>20. ASSUME NEW p \in Processes, Disown(p) PROVE ScansAreLate'
  BY <1>20 DEF Disown, Builds, Goes, inputVars, countVars
<1>21. ASSUME NEW p \in Processes, DisownRow(p) PROVE ScansAreLate'
  <2>1. CASE SameGeneration(p) /\ db.state # "missing"
    <3>1. MarkRow("dirty")
      BY <1>21, <2>1 DEF DisownRow
    <3>2. /\ db'.rev = db.rev /\ db'.gen = db.gen /\ db'.state = "dirty"
          /\ db' \in GraphRecords
      <4>1. db \in GraphRecords
        BY DEF StoreTypes
      <4> HIDE DEF GraphInv, GraphRecords
      <4> QED
        BY <3>1, <4>1, RowMarked
    <3>3. /\ builder[p].pc = "relock" /\ holder = Nil
          /\ builder' = [builder EXCEPT ![p].pc = "disowned"]
          /\ meta' = meta /\ query' = query /\ holder' = Builds(p)
          /\ src' = src /\ wiki' = wiki /\ mutator' = mutator /\ sharers' = sharers
          /\ begun' = begun /\ edits' = edits /\ crashes' = crashes
      BY <1>21, <2>1 DEF DisownRow, Goes, inputVars, countVars
    <3> QED
      BY <3>2, <3>3
  <2>2. CASE ~(SameGeneration(p) /\ db.state # "missing")
    BY <1>21, <2>2 DEF DisownRow, Ends, Unlocked, IdleBuilder, Builds, inputVars, countVars
  <2> QED
    BY <2>1, <2>2
<1>22. ASSUME NEW p \in Processes, DisownMeta(p) PROVE ScansAreLate'
  BY <1>22 DEF DisownMeta, Transition, Ends, inputVars, countVars, Resealed, Plain,
           IdleBuilder, Unlocked, Builds, NoMeta
<1>23. ASSUME NEW p \in Processes, Abort(p) PROVE ScansAreLate'
  BY <1>23 DEF Abort, Building, Ends, inputVars, countVars, IdleBuilder, Unlocked,
           Builds
<1>24. ASSUME NEW p \in Processes, SelectorsUnreadable(p) PROVE ScansAreLate'
  BY <1>24 DEF SelectorsUnreadable, Builds, inputVars, countVars
<1>25. ASSUME NEW p \in Processes, Ask(p) PROVE ScansAreLate'
  BY <1>25 DEF Ask, Asks, IdleQuery, Now, inputVars, lockVars, countVars, NoMeta
<1>26. ASSUME NEW p \in Processes, ReadBusy(p) PROVE ScansAreLate'
  BY <1>26 DEF ReadBusy, NoRows, inputVars, countVars, Asks, IdleQuery, Unlocked,
           Queries, NoMeta
<1>27. ASSUME NEW p \in Processes, StatusReady(p) PROVE ScansAreLate'
  BY <1>27 DEF StatusReady, Crashed, Status, Asks, inputVars, lockVars, countVars,
           UnfinishedKinds, MetaMatches
<1>28. ASSUME NEW p \in Processes, StatusRebuilds(p) PROVE ScansAreLate'
  <2>1. CASE Building(p)
    BY <1>28, <2>1 DEF StatusRebuilds, Asks, inputVars, lockVars
  <2>2. CASE ~Building(p)
    <3>1. Started(p, TRUE)
      BY <1>28, <2>2 DEF StatusRebuilds
    <3>2. /\ builder'[p].pc = "capture"
          /\ \A o \in Processes \ {p} : builder'[o] = builder[o]
      BY <3>1, BuilderStarted
    <3> QED
      BY <1>28, <2>2, <3>2 DEF StatusRebuilds, Asks, inputVars, lockVars
  <2> QED
    BY <2>1, <2>2
<1>29. ASSUME NEW p \in Processes, StatusNotReady(p) PROVE ScansAreLate'
  BY <1>29 DEF StatusNotReady, Crashed, Status, Building, NoRows, inputVars, countVars,
           UnfinishedKinds, MetaMatches, Asks, IdleQuery, Unlocked, Queries, NoMeta
<1>30. ASSUME NEW p \in Processes, StatusRebuilding(p) PROVE ScansAreLate'
  BY <1>30 DEF StatusRebuilding, Crashed, Building, NoRows, inputVars, countVars,
           UnfinishedKinds, Asks, IdleQuery, Unlocked, Queries, NoMeta
<1>31. ASSUME NEW p \in Processes, StatusStale(p) PROVE ScansAreLate'
  BY <1>31 DEF StatusStale, Crashed, Building, Asks, inputVars, lockVars, countVars,
           UnfinishedKinds
<1>32. ASSUME NEW p \in Processes, Recover(p) PROVE ScansAreLate'
  BY <1>32 DEF Recover, Recoverable, Plain, RestoresPrior, Asks, NoMeta, inputVars,
           lockVars, countVars, UnfinishedKinds
<1>33. ASSUME NEW p \in Processes, RecoverBusy(p) PROVE ScansAreLate'
  BY <1>33 DEF RecoverBusy, NoRows, inputVars, countVars, Asks, IdleQuery, Unlocked,
           Queries, NoMeta
<1>34. ASSUME NEW p \in Processes, Fresh(p) PROVE ScansAreLate'
  BY <1>34 DEF Fresh, ReadyFor, Now, Asks, inputVars, lockVars, countVars, MetaMatches
<1>35. ASSUME NEW p \in Processes, NotFresh(p) PROVE ScansAreLate'
  BY <1>35 DEF NotFresh, ReadyFor, Now, Asks, inputVars, lockVars, countVars,
           MetaMatches
<1>36. ASSUME NEW p \in Processes, TakeWiki(p) PROVE ScansAreLate'
  BY <1>36 DEF TakeWiki, Queries, Asks, inputVars, countVars
<1>37. ASSUME NEW p \in Processes, FreshAfterAll(p) PROVE ScansAreLate'
  BY <1>37 DEF FreshAfterAll, ReadyFor, Now, Asks, Unlocked, Queries, inputVars,
           countVars, MetaMatches
<1>38. ASSUME NEW p \in Processes, MarkDirtyRow(p) PROVE ScansAreLate'
  BY <1>38, RowMarked DEF MarkDirtyRow, ReadyFor, Now, Queries, Asks, inputVars,
                      countVars, MetaMatches
<1>39. ASSUME NEW p \in Processes, MarkDirtyMeta(p) PROVE ScansAreLate'
  BY <1>39 DEF MarkDirtyMeta, Transition, Asks, Unlocked, Queries, inputVars, countVars,
           Resealed, Plain, NoMeta
<1>40. ASSUME NEW p \in Processes, Waited(p) PROVE ScansAreLate'
  BY <1>40 DEF Waited, Building, Asks, inputVars, lockVars, countVars
<1>41. ASSUME NEW p \in Processes, Search(p) PROVE ScansAreLate'
  BY <1>41 DEF Search, MetaMatches, GuardedRevision, Building, Asks, IdleQuery,
           lockVars, NoRows, inputVars, countVars, NoMeta, Unlocked, Queries
<1>42. ASSUME NEW p \in Processes, RebuildWaitExpires(p) PROVE ScansAreLate'
  BY <1>42 DEF RebuildWaitExpires, Building, Asks, inputVars, lockVars, countVars
<1>43. ASSUME NEW p \in Processes, Crash(p) PROVE ScansAreLate'
  BY <1>43 DEF Crash, Building, IdleBuilder, IdleQuery, Builds, Queries, inputVars,
           NoMeta
<1>44. CASE UNCHANGED graphVars
  BY <1>44 DEF graphVars, inputVars, lockVars, countVars
<1> QED
  BY <1>1, <1>2, <1>3, <1>4, <1>5, <1>6, <1>7, <1>8, <1>9, <1>10, <1>11, <1>12,
     <1>13, <1>14, <1>15, <1>16, <1>17, <1>18, <1>19, <1>20, <1>21, <1>22, <1>23,
     <1>24, <1>25, <1>26, <1>27, <1>28, <1>29, <1>30, <1>31, <1>32, <1>33, <1>34,
     <1>35, <1>36, <1>37, <1>38, <1>39, <1>40, <1>41, <1>42, <1>43, <1>44
     DEF GraphNext, IndexerStep, QueryStep

LEMMA PutIsThereStep ==
  ASSUME GraphInv, [GraphNext]_graphVars
  PROVE  PutIsThere'
<1> USE GraphAssumption
    DEF GraphInv, GraphTypeOK, Builds, Queries, Threads, PutIsThere, BuilderTypes,
        StoreTypes, LocksHeld, Planned, Announced, Put
<1>1. CASE EditSources
  BY <1>1 DEF EditSources, Edited, Witness, lockVars, countVars
<1>2. CASE EditWiki
  BY <1>2 DEF EditWiki, Edited, Witness, lockVars, countVars
<1>3. ASSUME NEW p \in Processes,
            \/ Ask(p) \/ ReadBusy(p) \/ StatusReady(p) \/ StatusNotReady(p)
            \/ StatusRebuilding(p) \/ StatusStale(p) \/ RecoverBusy(p)
            \/ Fresh(p) \/ NotFresh(p) \/ TakeWiki(p) \/ FreshAfterAll(p)
            \/ Waited(p) \/ Search(p) \/ RebuildWaitExpires(p)
     PROVE  PutIsThere'
  <2>1. UNCHANGED <<db, meta, builder>>
    BY <1>3 DEF Ask, ReadBusy, StatusReady, StatusNotReady, StatusRebuilding,
             StatusStale, RecoverBusy, Fresh, NotFresh, TakeWiki, FreshAfterAll,
             Waited, Search, RebuildWaitExpires, inputVars, lockVars, countVars
  <2> QED
    BY <2>1
<1>4. ASSUME NEW p \in Processes, Index(p) PROVE PutIsThere'
  BY <1>4 DEF Index, Building, Started, inputVars, lockVars, IdleBuilder
<1>5. ASSUME NEW p \in Processes, Capture(p) PROVE PutIsThere'
  BY <1>5 DEF Capture, inputVars, lockVars, countVars
<1>6. ASSUME NEW p \in Processes, Scan(p) PROVE PutIsThere'
  BY <1>6 DEF Scan, Builds, inputVars, countVars
<1>7. ASSUME NEW p \in Processes, NoOp(p) PROVE PutIsThere'
  BY <1>7 DEF NoOp, ReadyFor, Ends, inputVars, countVars, MetaMatches, IdleBuilder,
           Unlocked, Builds
<1>8. ASSUME NEW p \in Processes, NoOpIsStale(p) PROVE PutIsThere'
  BY <1>8, RowMarked DEF NoOpIsStale, ReadyFor, Goes, inputVars, lockVars, countVars,
                      MetaMatches
<1>9. ASSUME NEW p \in Processes, MarkStale(p) PROVE PutIsThere'
  BY <1>9 DEF MarkStale, Transition, Goes, inputVars, lockVars, countVars, Resealed,
           Plain, NoMeta
<1>10. ASSUME NEW p \in Processes, Compared(p) PROVE PutIsThere'
  BY <1>10 DEF Compared, ReadyFor, Goes, inputVars, lockVars, countVars, MetaMatches
<1>11. ASSUME NEW p \in Processes, Announce(p) PROVE PutIsThere'
  BY <1>11 DEF Announce, Goes, inputVars, lockVars, countVars
<1>12. ASSUME NEW p \in Processes, SelectorsChanged(p) PROVE PutIsThere'
  BY <1>12 DEF SelectorsChanged, Goes, Unlocked, Builds, inputVars, countVars
<1>13. ASSUME NEW p \in Processes, Resolve(p) PROVE PutIsThere'
  BY <1>13 DEF Resolve, Goes, inputVars, lockVars, countVars
<1>14. ASSUME NEW p \in Processes, Refused(p) PROVE PutIsThere'
  BY <1>14 DEF Refused, ReadyFor, WikiTaken, Ends, inputVars, countVars, MetaMatches,
           IdleBuilder, Unlocked, Builds
<1>15. ASSUME NEW p \in Processes, Guard(p) PROVE PutIsThere'
  BY <1>15 DEF Guard, Builds, Goes, inputVars, countVars
<1>16. ASSUME NEW p \in Processes, Replace(p) PROVE PutIsThere'
  BY <1>16 DEF Replace, Goes, inputVars, lockVars, countVars
<1>17. ASSUME NEW p \in Processes, Provisional(p) PROVE PutIsThere'
  BY <1>17 DEF Provisional, Describes, Goes, inputVars, lockVars, countVars
<1>18. ASSUME NEW p \in Processes, Pending(p) PROVE PutIsThere'
  BY <1>18 DEF Pending, Describes, Goes, inputVars, lockVars, countVars
<1>19. ASSUME NEW p \in Processes, Seal(p) PROVE PutIsThere'
  BY <1>19 DEF Seal, Describes, Goes, inputVars, lockVars, countVars
<1>20. ASSUME NEW p \in Processes, Return(p) PROVE PutIsThere'
  BY <1>20 DEF Return, Ends, inputVars, countVars, IdleBuilder, Unlocked, Builds
<1>21. ASSUME NEW p \in Processes, Disown(p) PROVE PutIsThere'
  BY <1>21 DEF Disown, Builds, Goes, inputVars, countVars
<1>22. ASSUME NEW p \in Processes, DisownRow(p) PROVE PutIsThere'
  <2>1. CASE SameGeneration(p) /\ db.state # "missing"
    <3>1. MarkRow("dirty")
      BY <1>22, <2>1 DEF DisownRow
    <3>2. /\ db'.rev = db.rev /\ db'.gen = db.gen /\ db'.state = "dirty"
          /\ db' \in GraphRecords
      <4>1. db \in GraphRecords
        BY DEF StoreTypes
      <4> HIDE DEF GraphInv, GraphRecords
      <4> QED
        BY <3>1, <4>1, RowMarked
    <3>3. /\ builder[p].pc = "relock" /\ holder = Nil
          /\ builder' = [builder EXCEPT ![p].pc = "disowned"]
          /\ meta' = meta /\ query' = query /\ holder' = Builds(p)
          /\ src' = src /\ wiki' = wiki /\ mutator' = mutator /\ sharers' = sharers
          /\ begun' = begun /\ edits' = edits /\ crashes' = crashes
      BY <1>22, <2>1 DEF DisownRow, Goes, inputVars, countVars
    <3> QED
      BY <3>2, <3>3
  <2>2. CASE ~(SameGeneration(p) /\ db.state # "missing")
    BY <1>22, <2>2 DEF DisownRow, Ends, Unlocked, IdleBuilder, Builds, inputVars, countVars
  <2> QED
    BY <2>1, <2>2
<1>23. ASSUME NEW p \in Processes, DisownMeta(p) PROVE PutIsThere'
  BY <1>23 DEF DisownMeta, Transition, Ends, inputVars, countVars, Resealed, Plain,
           IdleBuilder, Unlocked, Builds, NoMeta
<1>24. ASSUME NEW p \in Processes, Abort(p) PROVE PutIsThere'
  BY <1>24 DEF Abort, Building, Ends, inputVars, countVars, IdleBuilder, Unlocked,
           Builds
<1>25. ASSUME NEW p \in Processes, SelectorsUnreadable(p) PROVE PutIsThere'
  BY <1>25 DEF SelectorsUnreadable, Builds, inputVars, countVars
<1>26. ASSUME NEW p \in Processes, StatusRebuilds(p) PROVE PutIsThere'
  <2>1. CASE Building(p)
    BY <1>26, <2>1 DEF StatusRebuilds, Asks, inputVars, lockVars
  <2>2. CASE ~Building(p)
    <3>1. Started(p, TRUE)
      BY <1>26, <2>2 DEF StatusRebuilds
    <3>2. /\ builder'[p].pc = "capture"
          /\ \A o \in Processes \ {p} : builder'[o] = builder[o]
      BY <3>1, BuilderStarted
    <3> QED
      BY <1>26, <2>2, <3>2 DEF StatusRebuilds, Asks, inputVars, lockVars
  <2> QED
    BY <2>1, <2>2
<1>27. ASSUME NEW p \in Processes, Recover(p) PROVE PutIsThere'
  BY <1>27 DEF Recover, Recoverable, Plain, RestoresPrior, Asks, NoMeta, inputVars,
           lockVars, countVars, UnfinishedKinds
<1>28. ASSUME NEW p \in Processes, MarkDirtyRow(p) PROVE PutIsThere'
  BY <1>28, RowMarked DEF MarkDirtyRow, ReadyFor, Now, Queries, Asks, inputVars,
                      countVars, MetaMatches
<1>29. ASSUME NEW p \in Processes, MarkDirtyMeta(p) PROVE PutIsThere'
  BY <1>29 DEF MarkDirtyMeta, Transition, Asks, Unlocked, Queries, inputVars, countVars,
           Resealed, Plain, NoMeta
<1>30. ASSUME NEW p \in Processes, Crash(p) PROVE PutIsThere'
  BY <1>30 DEF Crash, Building, IdleBuilder, IdleQuery, Builds, Queries, inputVars,
           NoMeta
<1>31. CASE UNCHANGED graphVars
  BY <1>31 DEF graphVars, inputVars, lockVars, countVars
<1> QED
  BY <1>1, <1>2, <1>3, <1>4, <1>5, <1>6, <1>7, <1>8, <1>9, <1>10, <1>11, <1>12,
     <1>13, <1>14, <1>15, <1>16, <1>17, <1>18, <1>19, <1>20, <1>21, <1>22, <1>23,
     <1>24, <1>25, <1>26, <1>27, <1>28, <1>29, <1>30, <1>31
     DEF GraphNext, IndexerStep, QueryStep

LEMMA ReadyIsCurrentStep ==
  ASSUME GraphInv, [GraphNext]_graphVars
  PROVE  ReadyIsCurrent'
<1> USE GraphAssumption
    DEF GraphInv, GraphTypeOK, Builds, Queries, Threads, ReadyIsCurrent,
        BuilderTypes, StoreTypes, GraphRecords, LocksHeld, QueriesKnow,
        ScansAreLate, PutIsThere, Told, Since, SourcesSince, WikiSince, Planned,
        Announced, Put, Guarded, Now, ReadyFor, MetaMatches, Building
<1>1. CASE EditSources
  BY <1>1 DEF EditSources, Edited, Witness, lockVars, countVars
<1>2. CASE EditWiki
  BY <1>2 DEF EditWiki, Edited, Witness, lockVars, countVars
<1>3. ASSUME NEW p \in Processes, Index(p) PROVE ReadyIsCurrent'
  BY <1>3 DEF Index, Building, Started, inputVars, lockVars, IdleBuilder
<1>4. ASSUME NEW p \in Processes, Capture(p) PROVE ReadyIsCurrent'
  BY <1>4 DEF Capture, inputVars, lockVars, countVars
<1>5. ASSUME NEW p \in Processes, Scan(p) PROVE ReadyIsCurrent'
  BY <1>5 DEF Scan, Builds, inputVars, countVars
<1>6. ASSUME NEW p \in Processes, NoOp(p) PROVE ReadyIsCurrent'
  BY <1>6 DEF NoOp, ReadyFor, Ends, inputVars, countVars, MetaMatches, IdleBuilder,
           Unlocked, Builds
<1>7. ASSUME NEW p \in Processes, NoOpIsStale(p) PROVE ReadyIsCurrent'
  BY <1>7, RowMarked DEF NoOpIsStale, ReadyFor, Goes, inputVars, lockVars, countVars,
                      MetaMatches
<1>8. ASSUME NEW p \in Processes, MarkStale(p) PROVE ReadyIsCurrent'
  BY <1>8 DEF MarkStale, Transition, Goes, inputVars, lockVars, countVars, Resealed,
           Plain, NoMeta
<1>9. ASSUME NEW p \in Processes, Compared(p) PROVE ReadyIsCurrent'
  BY <1>9 DEF Compared, ReadyFor, Goes, inputVars, lockVars, countVars, MetaMatches
<1>10. ASSUME NEW p \in Processes, Announce(p) PROVE ReadyIsCurrent'
  BY <1>10 DEF Announce, Goes, inputVars, lockVars, countVars
<1>11. ASSUME NEW p \in Processes, SelectorsChanged(p) PROVE ReadyIsCurrent'
  BY <1>11 DEF SelectorsChanged, Goes, Unlocked, Builds, inputVars, countVars
<1>12. ASSUME NEW p \in Processes, Resolve(p) PROVE ReadyIsCurrent'
  BY <1>12 DEF Resolve, Goes, inputVars, lockVars, countVars
<1>13. ASSUME NEW p \in Processes, Refused(p) PROVE ReadyIsCurrent'
  BY <1>13 DEF Refused, ReadyFor, WikiTaken, Ends, inputVars, countVars, MetaMatches,
           IdleBuilder, Unlocked, Builds
<1>14. ASSUME NEW p \in Processes, Guard(p) PROVE ReadyIsCurrent'
  BY <1>14 DEF Guard, Builds, Goes, inputVars, countVars
<1>15. ASSUME NEW p \in Processes, Replace(p) PROVE ReadyIsCurrent'
  BY <1>15 DEF Replace, Goes, inputVars, lockVars, countVars
<1>16. ASSUME NEW p \in Processes, Provisional(p) PROVE ReadyIsCurrent'
  BY <1>16 DEF Provisional, Describes, Goes, inputVars, lockVars, countVars
<1>17. ASSUME NEW p \in Processes, Pending(p) PROVE ReadyIsCurrent'
  BY <1>17 DEF Pending, Describes, Goes, inputVars, lockVars, countVars
<1>18. ASSUME NEW p \in Processes, Seal(p) PROVE ReadyIsCurrent'
  BY <1>18 DEF Seal, Describes, Goes, inputVars, lockVars, countVars
<1>19. ASSUME NEW p \in Processes, Return(p) PROVE ReadyIsCurrent'
  BY <1>19 DEF Return, Ends, inputVars, countVars, IdleBuilder, Unlocked, Builds
<1>20. ASSUME NEW p \in Processes, Disown(p) PROVE ReadyIsCurrent'
  BY <1>20 DEF Disown, Builds, Goes, inputVars, countVars
<1>21. ASSUME NEW p \in Processes, DisownRow(p) PROVE ReadyIsCurrent'
  <2>1. CASE SameGeneration(p) /\ db.state # "missing"
    <3>1. MarkRow("dirty")
      BY <1>21, <2>1 DEF DisownRow
    <3>2. /\ db'.rev = db.rev /\ db'.gen = db.gen /\ db'.state = "dirty"
          /\ db' \in GraphRecords
      <4>1. db \in GraphRecords
        BY DEF StoreTypes
      <4> HIDE DEF GraphInv, GraphRecords
      <4> QED
        BY <3>1, <4>1, RowMarked
    <3>3. /\ builder[p].pc = "relock" /\ holder = Nil
          /\ builder' = [builder EXCEPT ![p].pc = "disowned"]
          /\ meta' = meta /\ query' = query /\ holder' = Builds(p)
          /\ src' = src /\ wiki' = wiki /\ mutator' = mutator /\ sharers' = sharers
          /\ begun' = begun /\ edits' = edits /\ crashes' = crashes
      BY <1>21, <2>1 DEF DisownRow, Goes, inputVars, countVars
    <3> QED
      BY <3>2, <3>3
  <2>2. CASE ~(SameGeneration(p) /\ db.state # "missing")
    BY <1>21, <2>2 DEF DisownRow, Ends, Unlocked, IdleBuilder, Builds, inputVars, countVars
  <2> QED
    BY <2>1, <2>2
<1>22. ASSUME NEW p \in Processes, DisownMeta(p) PROVE ReadyIsCurrent'
  BY <1>22 DEF DisownMeta, Transition, Ends, inputVars, countVars, Resealed, Plain,
           IdleBuilder, Unlocked, Builds, NoMeta
<1>23. ASSUME NEW p \in Processes, Abort(p) PROVE ReadyIsCurrent'
  BY <1>23 DEF Abort, Building, Ends, inputVars, countVars, IdleBuilder, Unlocked,
           Builds
<1>24. ASSUME NEW p \in Processes, SelectorsUnreadable(p) PROVE ReadyIsCurrent'
  BY <1>24 DEF SelectorsUnreadable, Builds, inputVars, countVars
<1>25. ASSUME NEW p \in Processes, Ask(p) PROVE ReadyIsCurrent'
  BY <1>25 DEF Ask, Asks, IdleQuery, Now, inputVars, lockVars, countVars, NoMeta
<1>26. ASSUME NEW p \in Processes, ReadBusy(p) PROVE ReadyIsCurrent'
  BY <1>26 DEF ReadBusy, NoRows, inputVars, countVars, Asks, IdleQuery, Unlocked,
           Queries, NoMeta
<1>27. ASSUME NEW p \in Processes, StatusReady(p) PROVE ReadyIsCurrent'
  BY <1>27 DEF StatusReady, Crashed, Status, Asks, inputVars, lockVars, countVars,
           UnfinishedKinds, MetaMatches
<1>28. ASSUME NEW p \in Processes, StatusRebuilds(p) PROVE ReadyIsCurrent'
  BY <1>28 DEF StatusRebuilds, Crashed, Status, Building, Started, Asks, inputVars,
           lockVars, UnfinishedKinds, MetaMatches, IdleBuilder
<1>29. ASSUME NEW p \in Processes, StatusNotReady(p) PROVE ReadyIsCurrent'
  BY <1>29 DEF StatusNotReady, Crashed, Status, Building, NoRows, inputVars, countVars,
           UnfinishedKinds, MetaMatches, Asks, IdleQuery, Unlocked, Queries, NoMeta
<1>30. ASSUME NEW p \in Processes, StatusRebuilding(p) PROVE ReadyIsCurrent'
  BY <1>30 DEF StatusRebuilding, Crashed, Building, NoRows, inputVars, countVars,
           UnfinishedKinds, Asks, IdleQuery, Unlocked, Queries, NoMeta
<1>31. ASSUME NEW p \in Processes, StatusStale(p) PROVE ReadyIsCurrent'
  BY <1>31 DEF StatusStale, Crashed, Building, Asks, inputVars, lockVars, countVars,
           UnfinishedKinds
<1>32. ASSUME NEW p \in Processes, Recover(p) PROVE ReadyIsCurrent'
  BY <1>32 DEF Recover, Recoverable, Plain, RestoresPrior, Asks, NoMeta, inputVars,
           lockVars, countVars, UnfinishedKinds
<1>33. ASSUME NEW p \in Processes, RecoverBusy(p) PROVE ReadyIsCurrent'
  BY <1>33 DEF RecoverBusy, NoRows, inputVars, countVars, Asks, IdleQuery, Unlocked,
           Queries, NoMeta
<1>34. ASSUME NEW p \in Processes, Fresh(p) PROVE ReadyIsCurrent'
  BY <1>34 DEF Fresh, ReadyFor, Now, Asks, inputVars, lockVars, countVars, MetaMatches
<1>35. ASSUME NEW p \in Processes, NotFresh(p) PROVE ReadyIsCurrent'
  BY <1>35 DEF NotFresh, ReadyFor, Now, Asks, inputVars, lockVars, countVars,
           MetaMatches
<1>36. ASSUME NEW p \in Processes, TakeWiki(p) PROVE ReadyIsCurrent'
  BY <1>36 DEF TakeWiki, Queries, Asks, inputVars, countVars
<1>37. ASSUME NEW p \in Processes, FreshAfterAll(p) PROVE ReadyIsCurrent'
  BY <1>37 DEF FreshAfterAll, ReadyFor, Now, Asks, Unlocked, Queries, inputVars,
           countVars, MetaMatches
<1>38. ASSUME NEW p \in Processes, MarkDirtyRow(p) PROVE ReadyIsCurrent'
  BY <1>38, RowMarked DEF MarkDirtyRow, ReadyFor, Now, Queries, Asks, inputVars,
                      countVars, MetaMatches
<1>39. ASSUME NEW p \in Processes, MarkDirtyMeta(p) PROVE ReadyIsCurrent'
  BY <1>39 DEF MarkDirtyMeta, Transition, Asks, Unlocked, Queries, inputVars, countVars,
           Resealed, Plain, NoMeta
<1>40. ASSUME NEW p \in Processes, Waited(p) PROVE ReadyIsCurrent'
  BY <1>40 DEF Waited, Building, Asks, inputVars, lockVars, countVars
<1>41. ASSUME NEW p \in Processes, Search(p) PROVE ReadyIsCurrent'
  <2>1. CASE Asks(p, [IdleQuery EXCEPT !.rev = query[p].rev, !.rows = db.rev])
    BY <1>41, <2>1 DEF Search, Asks, IdleQuery, NoRows, Unlocked, Queries, inputVars, lockVars,
       countVars
  <2>2. CASE NoRows(p)
    BY <1>41, <2>2 DEF Search, NoRows, Asks, IdleQuery, Unlocked, inputVars, countVars
  <2> QED
    BY <1>41, <2>1, <2>2 DEF Search
<1>42. ASSUME NEW p \in Processes, RebuildWaitExpires(p) PROVE ReadyIsCurrent'
  BY <1>42 DEF RebuildWaitExpires, Building, Asks, inputVars, lockVars, countVars
<1>43. ASSUME NEW p \in Processes, Crash(p) PROVE ReadyIsCurrent'
  BY <1>43 DEF Crash, Building, IdleBuilder, IdleQuery, Builds, Queries, inputVars,
           NoMeta
<1>44. CASE UNCHANGED graphVars
  BY <1>44 DEF graphVars, inputVars, lockVars, countVars
<1> QED
  BY <1>1, <1>2, <1>3, <1>4, <1>5, <1>6, <1>7, <1>8, <1>9, <1>10, <1>11, <1>12,
     <1>13, <1>14, <1>15, <1>16, <1>17, <1>18, <1>19, <1>20, <1>21, <1>22, <1>23,
     <1>24, <1>25, <1>26, <1>27, <1>28, <1>29, <1>30, <1>31, <1>32, <1>33, <1>34,
     <1>35, <1>36, <1>37, <1>38, <1>39, <1>40, <1>41, <1>42, <1>43, <1>44
     DEF GraphNext, IndexerStep, QueryStep

-----------------------------------------------------------------------------
(* What follows *)

LEMMA GraphInductive == GraphInv /\ [GraphNext]_graphVars => GraphInv'
BY BuilderTypesStep, QueryTypesStep, StoreTypesStep, LocksHeldStep, GenerationsGrowStep,
   QueriesKnowStep, ScansAreLateStep, PutIsThereStep, ReadyIsCurrentStep
   DEF GraphInv, GraphTypeOK, QueryTypes

\* Whatever processes build, query, edit and die, the locks, the generations and
\* what builds and queries have seen go together as the invariant says.
THEOREM GraphInvariantHolds == GraphSpec => []GraphInv
BY GraphInitInv, GraphInductive, PTL DEF GraphSpec

\* Database, metadata, locks, builders and queries keep their types.
THEOREM GraphTypesHold == GraphSpec => []GraphTypeOK
<1>1. GraphInv => GraphTypeOK
  BY DEF GraphInv
<1> QED
  BY GraphInvariantHolds, <1>1, PTL

\* A search is answered with the rows of one revision whose sources and whose
\* selectors have been current since it was asked (CodeGraphRuntime.search).
THEOREM AnswersHoldSinceAsked == GraphSpec => AnswersAreCurrent
<1>1. ASSUME GraphInv, [GraphNext]_graphVars, NEW p \in Processes,
             query[p].pc = "search", query'[p].rows # Nil
      PROVE  /\ query'[p].rows = query'[p].rev
             /\ Since(query[p], query'[p].rows)
  <2> USE DEF GraphInv, GraphTypeOK, QueriesKnow
  <2>1. query[p].rows = Nil /\ query[p].stage = "confirm"
    BY <1>1
  <2>2. query'[p] # query[p]
    BY <1>1, <2>1
  <2>3. CASE Search(p)
    <3>1. Asks(p, [IdleQuery EXCEPT !.rev = query[p].rev, !.rows = db.rev])
          /\ MetaMatches /\ db.state = "ready" /\ GuardedRevision(query[p].rev)
      BY <1>1, <2>3 DEF Search, NoRows, Asks, IdleQuery
    <3>2. query'[p].rev = query[p].rev /\ query'[p].rows = db.rev
      BY <1>1, <3>1 DEF Asks, IdleQuery
    <3>3. db.rev = query[p].rev
      BY <3>1 DEF MetaMatches, GuardedRevision
    <3> QED
      BY <1>1, <2>1, <3>1, <3>2, <3>3 DEF ReadyIsCurrent, Told
  <2>4. CASE ReadBusy(p) \/ Crash(p)
    BY <1>1, <2>4 DEF ReadBusy, Crash, NoRows, Asks, IdleQuery
  <2>5. CASE EditSources \/ EditWiki
    <3>1. query'[p] = Witness(query[p])
      BY <2>5 DEF EditSources, EditWiki, Edited
    <3>2. query[p] \in QueryRecords
      BY <1>1
    <3>3. Witness(query[p]).rows = query[p].rows
      BY <3>2 DEF Witness, QueryRecords
    <3> QED
      BY <1>1, <2>1, <3>1, <3>3
  <2>6. ASSUME NEW o \in Processes, o # p,
               Ask(o) \/ QueryStep(o) \/ RebuildWaitExpires(o) \/ Crash(o)
        PROVE  query'[p] = query[p]
    BY <1>1, <2>6 DEF Asks, NoRows, QueryStep, Ask, ReadBusy, StatusReady, StatusRebuilds, StatusNotReady,
         StatusRebuilding, StatusStale, Recover, RecoverBusy, Fresh, NotFresh,
         TakeWiki, FreshAfterAll, MarkDirtyRow, MarkDirtyMeta, Waited, Search,
         RebuildWaitExpires, Crash
  <2>7. ASSUME NEW o \in Processes,
               Index(o) \/ IndexerStep(o) \/ Abort(o) \/ SelectorsUnreadable(o)
        PROVE  query' = query
    BY <2>7 DEF IndexerStep, Index, Capture, Scan, NoOp, NoOpIsStale, MarkStale, Compared, Announce,
         SelectorsChanged, Resolve, Refused, Guard, Replace, Provisional,
         Pending, Seal, Return, Disown, DisownRow, DisownMeta, Abort,
         SelectorsUnreadable
  <2>8. ASSUME Ask(p) \/ QueryStep(p) \/ RebuildWaitExpires(p)
        PROVE  Search(p) \/ ReadBusy(p)
    BY <1>1, <2>8 DEF QueryStep, Ask, ReadBusy, StatusReady, StatusRebuilds, StatusNotReady,
         StatusRebuilding, StatusStale, Recover, RecoverBusy, Fresh, NotFresh,
         TakeWiki, FreshAfterAll, MarkDirtyRow, MarkDirtyMeta, Waited, Search,
         RebuildWaitExpires, Crash
  <2>9. CASE UNCHANGED graphVars
    BY <2>2, <2>9 DEF graphVars
  <2> QED
    BY <1>1, <2>2, <2>3, <2>4, <2>5, <2>6, <2>7, <2>8, <2>9 DEF GraphNext
<1> DEFINE A == \A p \in Processes :
                   (query[p].pc = "search" /\ query'[p].rows # Nil) =>
                       /\ query'[p].rows = query'[p].rev
                       /\ Since(query[p], query'[p].rows)
<1>2. GraphInv /\ [GraphNext]_graphVars => A
  BY <1>1
<1> QED
  BY <1>2, GraphInvariantHolds, PTL DEF GraphSpec, AnswersAreCurrent

\* A build that lost the lock since it scanned disowns no graph of a later build
\* (_mark_selector_snapshot_dirty).
THEOREM NewerStays == GraphSpec => NewerIsNotDisowned
<1>1. ASSUME GraphInv, [GraphNext]_graphVars, NEW p \in Processes,
             builder[p].pc = "relock", builder[p].fenced, db' # db,
             builder'[p].pc = "disowned"
      PROVE  db.gen <= builder[p].gen
  <2> USE DEF GraphInv, GraphTypeOK
  <2>1. CASE DisownRow(p)
    BY <1>1, <2>1 DEF DisownRow, SameGeneration, GenerationsGrow
  <2>2. ASSUME NEW o \in Processes, o # p,
               \/ Index(o) \/ IndexerStep(o) \/ Abort(o) \/ SelectorsUnreadable(o)
               \/ StatusRebuilds(o) \/ Crash(o)
        PROVE  builder'[p] = builder[p]
    BY <1>1, <2>2 DEF BuilderTypes, Goes, Ends, Started, StatusRebuilds, Crash, IndexerStep, Index, Capture, Scan, NoOp, NoOpIsStale, MarkStale, Compared, Announce,
         SelectorsChanged, Resolve, Refused, Guard, Replace, Provisional,
         Pending, Seal, Return, Disown, DisownRow, DisownMeta, Abort,
         SelectorsUnreadable
  <2>3. ASSUME NEW o \in Processes, Ask(o) \/ QueryStep(o) \/ RebuildWaitExpires(o)
        PROVE  builder' = builder \/ StatusRebuilds(o)
    BY <2>3 DEF QueryStep, Ask, ReadBusy, StatusReady, StatusNotReady, StatusRebuilding,
         StatusStale, Recover, RecoverBusy, Fresh, NotFresh, TakeWiki,
         FreshAfterAll, MarkDirtyRow, MarkDirtyMeta, Waited, Search,
         RebuildWaitExpires, Crash
  <2>4. CASE EditSources \/ EditWiki \/ UNCHANGED graphVars
    BY <1>1, <2>4 DEF EditSources, EditWiki, Edited, graphVars
  <2>5. ASSUME Index(p) \/ IndexerStep(p) \/ Abort(p) \/ SelectorsUnreadable(p)
        PROVE  DisownRow(p)
    BY <1>1, <2>5 DEF BuilderTypes, Building, Ends, IdleBuilder, IndexerStep, Index, Capture, Scan, NoOp, NoOpIsStale, MarkStale, Compared, Announce,
         SelectorsChanged, Resolve, Refused, Guard, Replace, Provisional,
         Pending, Seal, Return, Disown, DisownRow, DisownMeta, Abort,
         SelectorsUnreadable
  <2>6. CASE StatusRebuilds(p) \/ Crash(p)
    BY <1>1, <2>6 DEF StatusRebuilds, Crash, Building, Started, IdleBuilder, BuilderTypes
  <2> QED
    BY <1>1, <2>1, <2>2, <2>3, <2>4, <2>5, <2>6 DEF GraphNext
<1> DEFINE A == \A p \in Processes :
                   (builder[p].pc = "relock" /\ builder[p].fenced /\ db' # db
                       /\ builder'[p].pc = "disowned") => db.gen <= builder[p].gen
<1>2. GraphInv /\ [GraphNext]_graphVars => A
  BY <1>1
<1> QED
  BY <1>2, GraphInvariantHolds, PTL DEF GraphSpec, NewerIsNotDisowned

=============================================================================
