---------------------------- MODULE PublishClient ----------------------------
(***************************************************************************)
(* The publishing side (src/iwiki_mcp/codegraph/application.py,            *)
(* publish_snapshot, over codegraph/mcp_adapter.py or the PostgreSQL store *)
(* itself) and what reaches the target.  Each call opens a connection of   *)
(* its own.  A call the client gives up on may have been lost before it    *)
(* ran or after, and may still be running: its effect may come later than  *)
(* the client's next call.                                                 *)
(*                                                                         *)
(* The target is what PgPublication is proved to be, a compare-and-swap    *)
(* register: a session opens on the active snapshot and may replace it     *)
(* while it is the same.                                                   *)
(***************************************************************************)
EXTENDS Naturals, FiniteSets

CONSTANTS
    Clients,  \* publish_snapshot calls; each names its session and snapshot
    Batches,  \* batches of a snapshot
    Direct,   \* publish_mode "postgres": a failed call raises
    None

ASSUME ClientAssumption ==
    /\ Batches \in Nat
    /\ Direct \in BOOLEAN
    /\ None \notin Clients \cup {"ready", "failed"}

VARIABLES
    fate,      \* target: the state of each client's session
    base,      \* target: the snapshot it began on
    stored,    \* target: how many of its batches are stored
    active,    \* target: the active snapshot, named by its client
    activated, \* target: every snapshot that ever was active
    requests,  \* calls that have not run yet
    answers,   \* answers the client still waits for
    client     \* publish_snapshot of each client

target == <<fate, base, stored, active, activated>>
vars == <<target, requests, answers, client>>

Ops == {"begin", "batch", "finalize", "abort"}
Request(c, op, n) == [client |-> c, op |-> op, n |-> n]
Answer(r, result) == [client |-> r.client, op |-> r.op, result |-> result]

Init ==
    /\ fate = [c \in Clients |-> "none"]
    /\ base = [c \in Clients |-> None]
    /\ stored = [c \in Clients |-> 0]
    /\ active = None
    /\ activated = {}
    /\ requests = {}
    /\ answers = {}
    /\ client = [c \in Clients |->
                    [waits |-> "nothing", sent |-> 0, asks |-> FALSE,
                     told |-> "nothing", outcome |-> None]]

-----------------------------------------------------------------------------
(* The target *)

\* A transient refusal (busy, no pages to read) leaves the session as it was.
Reply(r, result) ==
    /\ requests' = requests \ {r}
    /\ answers' = IF client[r.client].waits = r.op
                  THEN answers \cup {Answer(r, result)} ELSE answers
    /\ UNCHANGED client

ServeBegin(r) ==
    /\ r.op = "begin"
    /\ Reply(r, "begun")
    /\ fate' = [fate EXCEPT ![r.client] = "staging"]
    /\ base' = [base EXCEPT ![r.client] = active]
    /\ UNCHANGED <<stored, active, activated>>

ServeBatch(r) ==
    LET c == r.client IN
    /\ r.op = "batch"
    /\ \/ /\ fate[c] = "staging"
          /\ stored' = [stored EXCEPT ![c] = r.n]
          /\ Reply(r, "accepted")
       \/ /\ fate[c] # "staging"
          /\ Reply(r, "refused")
          /\ UNCHANGED stored
    /\ UNCHANGED <<fate, base, active, activated>>

BaseIsActive(c) == base[c] = active

ServeFinalize(r) ==
    LET c == r.client IN
    /\ r.op = "finalize"
    /\ \/ /\ fate[c] = "staging" /\ BaseIsActive(c) /\ stored[c] = Batches
          /\ fate' = [fate EXCEPT ![c] = "ready"]
          /\ active' = c
          /\ activated' = activated \cup {c}
          /\ Reply(r, "ready")
       \/ /\ Reply(r, IF fate[c] \in {"ready", "aborted"} THEN fate[c] ELSE "refused")
          /\ UNCHANGED <<fate, active, activated>>
    /\ UNCHANGED <<base, stored>>

DropSession(c) ==
    /\ fate' = [fate EXCEPT ![c] = "aborted"]
    /\ stored' = [stored EXCEPT ![c] = 0]

ServeAbort(r) ==
    LET c == r.client IN
    /\ r.op = "abort"
    /\ \/ /\ fate[c] \in {"staging", "aborted"}
          /\ DropSession(c)
          /\ Reply(r, "aborted")
       \/ /\ fate[c] = "ready"
          /\ Reply(r, "ready")
          /\ UNCHANGED <<fate, stored>>
       \/ /\ fate[c] = "deleted"
          /\ Reply(r, "refused")
          /\ UNCHANGED <<fate, stored>>
    /\ UNCHANGED <<base, active, activated>>

Serve(r) == ServeBegin(r) \/ ServeBatch(r) \/ ServeFinalize(r) \/ ServeAbort(r)

\* The staging cleanup of somebody's begin.
Expire(c) ==
    /\ fate[c] = "staging"
    /\ fate' = [fate EXCEPT ![c] = "deleted"]
    /\ stored' = [stored EXCEPT ![c] = 0]
    /\ UNCHANGED <<base, active, activated, requests, answers, client>>

\* A request the network loses never runs.
Lose(r) ==
    /\ requests' = requests \ {r}
    /\ UNCHANGED <<target, answers, client>>

-----------------------------------------------------------------------------
(* publish_snapshot *)

Send(c, op, n) ==
    /\ client' = [client EXCEPT ![c].waits = op, ![c].sent = n]
    /\ requests' = requests \cup {Request(c, op, n)}

\* The answer has been read, or the connection closed: none is expected now.
Forget(c) == answers' = {a \in answers : a.client # c}

Report(c, outcome, told) ==
    /\ client' = [client EXCEPT ![c].waits = "nothing", ![c].outcome = outcome,
                                ![c].told = told]
    /\ Forget(c)
    /\ UNCHANGED <<target, requests>>

PublishBegin(c) ==
    /\ client[c].waits = "nothing" /\ client[c].outcome = None
    /\ Send(c, "begin", 0)
    /\ UNCHANGED <<target, answers>>

Answered(c, op, results) ==
    /\ client[c].waits = op
    /\ \E a \in answers : a.client = c /\ a.op = op /\ a.result \in results

\* Faulty: one batch too many.
OneMoreBatch(c) == client[c].sent <= Batches

MoreBatches(c) == client[c].sent < Batches

SendNext(c) ==
    /\ \/ Answered(c, "begin", {"begun"})
       \/ Answered(c, "batch", {"accepted"})
    /\ IF MoreBatches(c)
       THEN Send(c, "batch", client[c].sent + 1)
       ELSE Send(c, "finalize", client[c].sent)
    /\ Forget(c)
    /\ UNCHANGED target

FinalizeReady(c) ==
    /\ Answered(c, "finalize", {"ready"})
    /\ Report(c, "ready", "ready")

\* A dropped connection or a timeout: mcp_adapter turns it into an answer, the
\* PostgreSQL driver raises.  Without a session there is nothing to abort.
BeginLost(c) ==
    /\ client[c].waits = "begin"
    /\ Report(c, "failed", "lost")

\* Whether publish_snapshot will look at what the abort answers.
Asks(c, lost) == client[c].waits = "finalize" /\ ~(Direct /\ lost)

SendAbort(c, lost) ==
    /\ client' = [client EXCEPT ![c].waits = "abort", ![c].asks = Asks(c, lost)]
    /\ requests' = requests \cup {Request(c, "abort", 0)}
    /\ Forget(c)
    /\ UNCHANGED target

Refused(c) ==
    /\ \/ Answered(c, "batch", {"refused"})
       \/ Answered(c, "finalize", {"refused", "aborted"})
    /\ SendAbort(c, FALSE)

CallLost(c) ==
    /\ client[c].waits \in {"batch", "finalize"}
    /\ SendAbort(c, TRUE)

\* Faulty: any answer to the abort is taken for a finished activation.
AnyAnswer(c, result) == client[c].asks

\* Faulty: the abort's answer is ignored.
NoAnswer(c, result) == FALSE

\* _activated_despite_the_failure
ActivatedDespite(c, result) == client[c].asks /\ result = "ready"

AbortAnswered(c) ==
    \E result \in {"aborted", "ready", "refused"} :
        /\ Answered(c, "abort", {result})
        /\ Report(c, IF ActivatedDespite(c, result) THEN "ready" ELSE "failed", result)

AbortLost(c) ==
    /\ client[c].waits = "abort"
    /\ Report(c, "failed", "lost")

-----------------------------------------------------------------------------

ClientStep(c) ==
    \/ SendNext(c) \/ FinalizeReady(c) \/ Refused(c) \/ AbortAnswered(c)
    \/ BeginLost(c) \/ CallLost(c) \/ AbortLost(c)

Next ==
    \/ \E c \in Clients : PublishBegin(c) \/ ClientStep(c) \/ Expire(c)
    \/ \E r \in requests : Serve(r) \/ Lose(r)

Spec == Init /\ [][Next]_vars

-----------------------------------------------------------------------------
(* Properties *)

Requests == [client : Clients, op : Ops, n : 0..Batches]

Answers == [client : Clients, op : Ops,
            result : {"begun", "accepted", "refused", "ready", "aborted"}]

ClientRecords == [waits : Ops \cup {"nothing"}, sent : 0..Batches, asks : BOOLEAN,
                  told : {"nothing", "lost", "refused", "ready", "aborted"},
                  outcome : {None, "ready", "failed"}]

\* Every variable stays in its type.
TypeOK ==
    /\ fate \in [Clients -> {"none", "staging", "ready", "aborted", "deleted"}]
    /\ base \in [Clients -> Clients \cup {None}]
    /\ stored \in [Clients -> 0..Batches]
    /\ active \in Clients \cup {None} /\ activated \subseteq Clients
    /\ requests \subseteq Requests
    /\ answers \subseteq Answers
    /\ client \in [Clients -> ClientRecords]

\* A session begins once, however late its begin arrives.
BeginsOnce ==
    /\ \A r \in requests : r.op = "begin" =>
          fate[r.client] = "none" /\ r = Request(r.client, "begin", 0)
    /\ \A c \in Clients : client[c].waits = "nothing" /\ client[c].outcome = None =>
          /\ fate[c] = "none"
          /\ client[c].told = "nothing"
          /\ \A r \in requests : r.client # c

\* A terminal state that was answered, or told, is the session's for ever.
TerminalStays ==
    /\ \A c \in Clients : c \in activated <=> fate[c] = "ready"
    /\ \A a \in answers : a.result \in {"ready", "aborted"} => fate[a.client] = a.result
    /\ \A c \in Clients :
          /\ client[c].told \in {"ready", "aborted"} => fate[c] = client[c].told
          /\ client[c].outcome = "ready" => fate[c] = "ready"

\* What is active has not been replaced, so no session that is ready began on it.
BasesAreReplaced ==
    /\ active \in activated \cup {None}
    /\ \A c \in Clients : base[c] \in activated \cup {None}
    /\ \A c \in activated : base[c] # active
    /\ \A c, d \in activated : c # d => base[c] # base[d]

\* The inductive invariant of publishers and target.
ClientInv == TypeOK /\ BeginsOnce /\ TerminalStays /\ BasesAreReplaced

\* Over the remote adapter, a client that has sent its finalize looks at the
\* answer to whatever it still waits for.
FinalizesAreAsked ==
    /\ \A c \in Clients : client[c].waits # "nothing" => client[c].outcome = None
    /\ ~Direct => \A c \in Clients :
          /\ (fate[c] = "ready" \/ \E r \in requests : r.client = c /\ r.op = "finalize") =>
                \/ client[c].waits = "finalize"
                \/ client[c].waits = "abort" /\ client[c].asks
                \/ client[c].outcome # None
          /\ client[c].told = "ready" => client[c].outcome = "ready"

\* Whoever is told that its snapshot is ready published it: no answer of an
\* earlier or another call is taken for it.
ReadyIsTrue == \A c \in Clients : client[c].outcome = "ready" => c \in activated

\* A failure whose abort was answered "aborted" is final: no finalize that was
\* given up on and still runs can publish the snapshot later.
AbortIsFinal ==
    \A c \in Clients : client[c].told = "aborted" => c \notin activated

\* Two publishers that both report ready published one after the other: the
\* second one's session began on what the first had published.
ReadyOnesFollow ==
    \A c, d \in Clients :
        (c # d /\ client[c].outcome = "ready" /\ client[d].outcome = "ready")
            => base[c] # base[d]

\* "Only a session the target never activated is reported as a publication
\* failure" (docs/code-graph-publishing.md).
FailedMeansNeverActivated ==
    \A c \in Clients : client[c].outcome = "failed" => c \notin activated

\* The same, of those whose abort was answered: the answer says what happened.
AnsweredFailureIsTrue ==
    \A c \in Clients :
        (client[c].outcome = "failed" /\ client[c].told \in {"ready", "aborted"})
            => c \notin activated

\* What publish_snapshot reports happened, whichever answers were lost, late
\* or overtaken.
ReportsAreTrue == ReadyIsTrue /\ AnsweredFailureIsTrue
=============================================================================
