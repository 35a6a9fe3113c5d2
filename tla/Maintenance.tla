----------------------------- MODULE Maintenance -----------------------------
(***************************************************************************)
(* The background maintenance of a hosted server                           *)
(* (src/iwiki_mcp/codegraph/maintenance.py, MaintenanceRuntime): requests  *)
(* submit one cleanup job per domain into a bounded queue, a fixed set of  *)
(* workers runs them, and at shutdown the queue is drained, each worker is *)
(* sent a sentinel and joined.  The queue has a lock of its own; the set   *)
(* of scheduled keys and the stopping flag share another.                  *)
(***************************************************************************)
EXTENDS Naturals, Sequences, FiniteSets, SequencesExt

CONSTANTS
    Keys,        \* (wiki, domain) pairs
    Submitters,  \* request threads
    Workers,     \* worker threads
    QueueSize,   \* queue_size
    None,
    Shutdown     \* the sentinel

\* A request between its check and its put may land behind the drain, so the
\* sentinels fit only while the queue is larger than the requests in flight.
ASSUME MaintenanceAssumption ==
    /\ QueueSize \in Nat
    /\ IsFiniteSet(Workers) /\ IsFiniteSet(Submitters)
    /\ QueueSize >= Cardinality(Workers) + Cardinality(Submitters)
    /\ None \notin Keys \cup Workers /\ Shutdown \notin Keys \cup {None}

VARIABLES
    queue,      \* _queue
    scheduled,  \* _scheduled
    stopping,   \* _stopping
    submitter,  \* the submit call of each request thread
    worker,     \* each worker thread
    owner       \* the thread that starts and stops the runtime

runtimeVars == <<queue, scheduled, stopping, submitter, worker, owner>>

IdleSubmit == [pc |-> "idle", key |-> None]

MaintenanceInit ==
    /\ queue = <<>>
    /\ scheduled = {}
    /\ stopping = FALSE
    /\ submitter = [t \in Submitters |-> IdleSubmit]
    /\ worker = [w \in Workers |-> [pc |-> "new", key |-> None]]
    /\ owner = [pc |-> "starting", key |-> None, waited |-> {}, sent |-> 0]

-----------------------------------------------------------------------------
(* submit *)

\* Faulty: a runtime that stops accepts jobs.
AcceptsStopping == TRUE

Accepts == ~stopping

SubmitCheck(t, k) ==
    /\ submitter[t].pc = "idle"
    /\ Accepts
    /\ k \notin scheduled
    /\ scheduled' = scheduled \cup {k}
    /\ submitter' = [submitter EXCEPT ![t] = [pc |-> "put", key |-> k]]
    /\ UNCHANGED <<queue, stopping, worker, owner>>

\* Faulty: an unbounded queue.
Unbounded == TRUE

Room == Len(queue) < QueueSize

SubmitPut(t) ==
    /\ submitter[t].pc = "put"
    /\ Room
    /\ queue' = Append(queue, submitter[t].key)
    /\ submitter' = [submitter EXCEPT ![t] = IdleSubmit]
    /\ UNCHANGED <<scheduled, stopping, worker, owner>>

SubmitFull(t) ==
    /\ submitter[t].pc = "put"
    /\ ~Room
    /\ submitter' = [submitter EXCEPT ![t].pc = "full"]
    /\ UNCHANGED <<queue, scheduled, stopping, worker, owner>>

\* Faulty: the refused job keeps its key.
KeepKey(k) == scheduled

DropKey(k) == scheduled \ {k}

SubmitDrop(t) ==
    /\ submitter[t].pc = "full"
    /\ scheduled' = DropKey(submitter[t].key)
    /\ submitter' = [submitter EXCEPT ![t] = IdleSubmit]
    /\ UNCHANGED <<queue, stopping, worker, owner>>

-----------------------------------------------------------------------------
(* _work *)

WorkerStop(w) ==
    /\ worker[w].pc = "get"
    /\ queue # <<>>
    /\ Head(queue) = Shutdown
    /\ queue' = Tail(queue)
    /\ worker' = [worker EXCEPT ![w].pc = "done"]
    /\ UNCHANGED <<scheduled, stopping, submitter, owner>>

\* Faulty: the key is released when the job leaves the queue.
TakenRelease(w) == scheduled \ {Head(queue)}

Taken(w) == scheduled

WorkerGet(w) ==
    /\ worker[w].pc = "get"
    /\ queue # <<>>
    /\ Head(queue) # Shutdown
    /\ queue' = Tail(queue)
    /\ scheduled' = Taken(w)
    /\ worker' = [worker EXCEPT ![w] = [pc |-> "run", key |-> Head(queue)]]
    /\ UNCHANGED <<stopping, submitter, owner>>

\* The cycle ends, by an exception or not: _run's finally, or the backstop of
\* _work when _run failed before its own try, releases the key.
WorkerRelease(w) ==
    /\ worker[w].pc = "run"
    /\ scheduled' = scheduled \ {worker[w].key}
    /\ worker' = [worker EXCEPT ![w] = [pc |-> "get", key |-> None]]
    /\ UNCHANGED <<queue, stopping, submitter, owner>>

-----------------------------------------------------------------------------
(* start and stop: one thread, stop after start has returned or raised *)

Unstarted == {w \in Workers : worker[w].pc = "new"}

StartWorker(w) ==
    /\ owner.pc = "starting"
    /\ w \in Unstarted
    /\ worker' = [worker EXCEPT ![w].pc = "get"]
    /\ UNCHANGED <<queue, scheduled, stopping, submitter, owner>>

StopBegin ==
    /\ owner.pc = "starting"
    /\ stopping' = TRUE
    /\ owner' = [owner EXCEPT !.pc = "draining"]
    /\ UNCHANGED <<queue, scheduled, submitter, worker>>

\* get_nowait, then _scheduled.discard.
StopTake ==
    /\ owner.pc = "draining"
    /\ owner.key = None
    /\ queue # <<>>
    /\ queue' = Tail(queue)
    /\ owner' = [owner EXCEPT !.key = Head(queue)]
    /\ UNCHANGED <<scheduled, stopping, submitter, worker>>

StopDiscard ==
    /\ owner.key # None
    /\ scheduled' = scheduled \ {owner.key}
    /\ owner' = [owner EXCEPT !.key = None]
    /\ UNCHANGED <<queue, stopping, submitter, worker>>

Drained == queue = <<>>

StopDrained ==
    /\ owner.pc = "draining"
    /\ owner.key = None
    /\ Drained
    /\ owner' = [owner EXCEPT !.pc = "sending"]
    /\ UNCHANGED <<queue, scheduled, stopping, submitter, worker>>

\* One sentinel per thread of the list, started or not; none once one is refused.
StopSend ==
    /\ owner.pc = "sending"
    /\ \/ /\ owner.sent < Cardinality(Workers)
          /\ Room
          /\ queue' = Append(queue, Shutdown)
          /\ owner' = [owner EXCEPT !.sent = @ + 1]
       \/ /\ owner.sent = Cardinality(Workers) \/ ~Room
          /\ owner' = [owner EXCEPT !.pc = "joining"]
          /\ UNCHANGED queue
    /\ UNCHANGED <<scheduled, stopping, submitter, worker>>

\* join returns when the thread ends or its timeout does, and raises at once
\* for a thread that never started.
StopJoin(w) ==
    /\ owner.pc = "joining"
    /\ w \notin owner.waited
    /\ owner' = [owner EXCEPT !.waited = @ \cup {w}]
    /\ UNCHANGED <<queue, scheduled, stopping, submitter, worker>>

StopClear ==
    /\ owner.pc = "joining"
    /\ owner.waited = Workers
    /\ scheduled' = {}
    /\ owner' = [owner EXCEPT !.pc = "stopped"]
    /\ UNCHANGED <<queue, stopping, submitter, worker>>

-----------------------------------------------------------------------------

SubmitterStep(t) == SubmitPut(t) \/ SubmitFull(t) \/ SubmitDrop(t)

WorkerStep(w) == WorkerStop(w) \/ WorkerGet(w) \/ WorkerRelease(w)

StopStep ==
    \/ StopTake \/ StopDiscard \/ StopDrained \/ StopSend
    \/ \E w \in Workers : StopJoin(w)
    \/ StopClear

MaintenanceNext ==
    \/ \E t \in Submitters : SubmitterStep(t) \/ \E k \in Keys : SubmitCheck(t, k)
    \/ \E w \in Workers : WorkerStep(w) \/ StartWorker(w)
    \/ StopBegin
    \/ StopStep

MaintenanceSpec == MaintenanceInit /\ [][MaintenanceNext]_runtimeVars

\* Threads that can run do; a cycle ends because every statement of it has a
\* timeout; somebody starts the first worker.  Nobody has to stop.
MaintenanceFairSpec ==
    /\ MaintenanceSpec
    /\ \A t \in Submitters : WF_runtimeVars(SubmitterStep(t))
    /\ \A w \in Workers : WF_runtimeVars(WorkerStep(w))
    /\ WF_runtimeVars(\E w \in Workers : StartWorker(w))
    /\ WF_runtimeVars(StopStep)

-----------------------------------------------------------------------------
(* Properties *)

\* Every variable stays in its type.
RuntimeTypeOK ==
    /\ queue \in Seq(Keys \cup {Shutdown}) /\ Len(queue) <= QueueSize
    /\ scheduled \subseteq Keys
    /\ stopping \in BOOLEAN
    /\ submitter \in [Submitters -> [pc : {"idle", "put", "full"}, key : Keys \cup {None}]]
    /\ worker \in [Workers -> [pc : {"new", "get", "run", "done"}, key : Keys \cup {None}]]
    /\ owner \in [pc : {"starting", "draining", "sending", "joining", "stopped"},
                  key : Keys \cup {Shutdown, None}, waited : SUBSET Workers,
                  sent : 0..Cardinality(Workers)]

Running(k) == {w \in Workers : worker[w] = [pc |-> "run", key |-> k]}
Queued(k) == {i \in DOMAIN queue : queue[i] = k}
Submitting(k) == {t \in Submitters : submitter[t].key = k}

Held(k) == Running(k) \cup Queued(k) \cup Submitting(k) # {} \/ owner.key = k

\* One domain never has two jobs: none is queued, being queued or running while
\* another is, across submissions, drops, shutdown and its join timeouts.
OneJobPerKey ==
    \A k \in Keys :
        Cardinality(Running(k)) + Cardinality(Queued(k)) + Cardinality(Submitting(k)) <= 1

\* No key is stranded: whoever scheduled it, some thread or the queue still has
\* the job whose end will release it.
EveryKeyIsHeld ==
    \A k \in scheduled : Held(k)

\* A thread that is between two steps with a job knows the key of the job.
KeysInPlace ==
    /\ \A t \in Submitters : submitter[t].pc = "idle" <=> submitter[t].key = None
    /\ \A w \in Workers : worker[w].pc = "run" => worker[w].key # None
    /\ owner.key # None => owner.pc = "draining"
    /\ owner.pc # "starting" => stopping

\* A job has one place, and its key stays scheduled until the runtime stopped:
\* the check of submit is enough although its put comes later.
OnePlace ==
    \A k \in Keys :
        /\ \A i, j \in Queued(k) : i = j
        /\ \A t, u \in Submitting(k) : t = u
        /\ \A w, v \in Running(k) : w = v
        /\ Queued(k) # {} => Submitting(k) \cup Running(k) = {}
        /\ Submitting(k) # {} => Running(k) = {}
        /\ owner.key = k => Running(k) \cup Queued(k) \cup Submitting(k) = {}
        /\ Held(k) => k \in scheduled \/ owner.pc = "stopped"

\* The inductive invariant of the runtime.
MaintenanceInv == RuntimeTypeOK /\ KeysInPlace /\ OnePlace /\ EveryKeyIsHeld

\* A scheduled domain can be scheduled again later, or the runtime has stopped.
KeysAreReleased ==
    \A k \in Keys : k \in scheduled ~> k \notin scheduled
=============================================================================
