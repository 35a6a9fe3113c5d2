-------------------------- MODULE PublishClientProofs --------------------------
(***************************************************************************)
(* What publishers are told is so, for any number of publishers and       *)
(* batches and whatever calls are lost, late or overtaken.                 *)
(***************************************************************************)
EXTENDS PublishClient, TLAPS

LEMMA Constants ==
    None \notin Clients /\ None \notin {"ready", "failed"} /\ Batches \in Nat
BY ClientAssumption

LEMMA InitInv == Init => ClientInv
<1> SUFFICES ASSUME Init PROVE ClientInv
  OBVIOUS
<1>1. TypeOK
  BY Constants DEF Init, TypeOK, ClientRecords
<1>2. BeginsOnce
  BY Constants DEF Init, BeginsOnce
<1>3. TerminalStays
  BY Constants DEF Init, TerminalStays
<1>4. BasesAreReplaced
  BY DEF Init, BasesAreReplaced
<1> QED
  BY <1>1, <1>2, <1>3, <1>4 DEF ClientInv

-----------------------------------------------------------------------------
(* The target *)

\* Every answer is of a known kind, and goes only to a client that waits.
LEMMA ReplyTypes ==
    ASSUME TypeOK, NEW r \in requests,
           NEW result \in {"begun", "accepted", "refused", "ready", "aborted"}, Reply(r, result)
    PROVE  /\ requests' \subseteq Requests /\ answers' \subseteq Answers
           /\ requests' = requests \ {r}
           /\ \A a \in answers' : a \in answers \/ (a.client = r.client /\ a.result = result)
           /\ client' = client
<1>1. r \in Requests
  BY DEF TypeOK
<1>2. Answer(r, result) \in Answers /\ Answer(r, result).client = r.client
      /\ Answer(r, result).result = result
  BY <1>1 DEF Answer, Requests, Answers
<1> QED
  BY <1>2 DEF Reply, TypeOK

LEMMA BeginInv ==
    ASSUME ClientInv, NEW r \in requests, ServeBegin(r)
    PROVE  ClientInv'
<1> DEFINE c == r.client
<1>1. /\ c \in Clients /\ fate[c] = "none" /\ r = Request(c, "begin", 0)
      /\ client[c].waits # "nothing" \/ client[c].outcome # None
  BY DEF ClientInv, TypeOK, Requests, BeginsOnce, ServeBegin
<1>2. /\ requests' \subseteq Requests /\ answers' \subseteq Answers
      /\ requests' = requests \ {r}
      /\ \A a \in answers' : a \in answers \/ (a.client = c /\ a.result = "begun")
      /\ client' = client
  BY ReplyTypes DEF ClientInv, ServeBegin
<1>3. /\ fate' = [fate EXCEPT ![c] = "staging"]
      /\ base' = [base EXCEPT ![c] = active]
      /\ UNCHANGED <<stored, active, activated>>
  BY DEF ServeBegin
<1> HIDE DEF c
<1>4. TypeOK'
  BY <1>1, <1>2, <1>3 DEF ClientInv, TypeOK
<1>5. BeginsOnce'
  <2>1. \A q \in requests' : q.op = "begin" => q.client # c
    BY <1>1, <1>2 DEF ClientInv, BeginsOnce
  <2>2. \A d \in Clients \ {c} : fate'[d] = fate[d]
    BY <1>1, <1>3 DEF ClientInv, TypeOK
  <2>3. \A q \in requests' : q \in requests /\ q.client \in Clients
    BY <1>2 DEF Requests
  <2> QED
    BY <1>1, <1>2, <2>1, <2>2, <2>3 DEF ClientInv, BeginsOnce
<1>6. TerminalStays'
  <2>1. \A d \in Clients : fate'[d] = IF d = c THEN "staging" ELSE fate[d]
    BY <1>3 DEF ClientInv, TypeOK
  <2>2. \A a \in answers : a.client \in Clients
    BY DEF ClientInv, TypeOK, Answers
  <2> QED
    BY <1>1, <1>2, <1>3, <2>1, <2>2 DEF ClientInv, TerminalStays
<1>7. BasesAreReplaced'
  <2>1. c \notin activated
    BY <1>1 DEF ClientInv, TerminalStays
  <2>2. \A d \in Clients : base'[d] = IF d = c THEN active ELSE base[d]
    BY <1>3 DEF ClientInv, TypeOK
  <2> QED
    BY <1>3, <2>1, <2>2 DEF ClientInv, BasesAreReplaced, TypeOK
<1> QED
  BY <1>4, <1>5, <1>6, <1>7 DEF ClientInv

\* What is answered about the end of c's session, in state f, is so.
AnsweredTruly(c, f) ==
    \A a \in answers' :
        \/ a \in answers
        \/ a.client = c /\ (a.result \in {"ready", "aborted"} => f = a.result)

\* A session keeps its state, or leaves staging without being activated, and
\* whatever is answered about its end is so.
LEMMA SettleInv ==
    ASSUME ClientInv, NEW c \in Clients,
           NEW f \in {"none", "staging", "ready", "aborted", "deleted"},
           f = fate[c] \/ (fate[c] = "staging" /\ f \in {"aborted", "deleted"}),
           fate' = [fate EXCEPT ![c] = f],
           stored' \in [Clients -> 0..Batches],
           UNCHANGED <<base, active, activated, client>>,
           requests' \subseteq requests, answers' \subseteq Answers,
           AnsweredTruly(c, f)
    PROVE  ClientInv'
<1>1. \A d \in Clients : fate'[d] = IF d = c THEN f ELSE fate[d]
  BY DEF ClientInv, TypeOK
<1>2. TypeOK'
  BY DEF ClientInv, TypeOK
<1>3. BeginsOnce'
  <2>1. \A q \in requests : q.client \in Clients
    BY DEF ClientInv, TypeOK, Requests
  <2> QED
    BY <1>1, <2>1 DEF ClientInv, BeginsOnce
<1>4. TerminalStays'
  <2>1. \A a \in answers : a.client \in Clients
    BY DEF ClientInv, TypeOK, Answers
  <2> QED
    BY <1>1, <2>1 DEF ClientInv, TerminalStays, AnsweredTruly
<1>5. BasesAreReplaced'
  BY DEF ClientInv, BasesAreReplaced
<1> QED
  BY <1>2, <1>3, <1>4, <1>5 DEF ClientInv

LEMMA ActivateInv ==
    ASSUME ClientInv, NEW r \in requests,
           fate[r.client] = "staging", BaseIsActive(r.client),
           fate' = [fate EXCEPT ![r.client] = "ready"],
           active' = r.client, activated' = activated \cup {r.client},
           UNCHANGED <<base, stored>>, Reply(r, "ready")
    PROVE  ClientInv'
<1> DEFINE c == r.client
<1>1. c \in Clients /\ c \notin activated
  BY DEF ClientInv, TypeOK, Requests, TerminalStays
<1>2. /\ requests' \subseteq Requests /\ answers' \subseteq Answers
      /\ requests' = requests \ {r}
      /\ \A a \in answers' : a \in answers \/ (a.client = c /\ a.result = "ready")
      /\ client' = client
  BY ReplyTypes DEF ClientInv
<1>3. fate[c] = "staging" /\ base[c] = active
  BY DEF BaseIsActive
<1>4. /\ fate' = [fate EXCEPT ![c] = "ready"]
      /\ active' = c /\ activated' = activated \cup {c}
  OBVIOUS
<1> HIDE DEF c
<1>5. \A d \in Clients : fate'[d] = IF d = c THEN "ready" ELSE fate[d]
  BY <1>4 DEF ClientInv, TypeOK
<1>6. TypeOK'
  BY <1>1, <1>2, <1>4 DEF ClientInv, TypeOK
<1>7. BeginsOnce'
  <2>1. \A q \in requests : q.client \in Clients
    BY DEF ClientInv, TypeOK, Requests
  <2> QED
    BY <1>2, <1>3, <1>5, <2>1 DEF ClientInv, BeginsOnce
<1>8. TerminalStays'
  <2>1. \A a \in answers : a.client \in Clients
    BY DEF ClientInv, TypeOK, Answers
  <2>2. \A d \in Clients : d \in activated' <=> fate'[d] = "ready"
    BY <1>4, <1>5 DEF ClientInv, TerminalStays
  <2>3. \A a \in answers' : a.result \in {"ready", "aborted"} => fate'[a.client] = a.result
    BY <1>1, <1>2, <1>3, <1>5, <2>1 DEF ClientInv, TerminalStays
  <2>4. \A d \in Clients :
           /\ client'[d].told \in {"ready", "aborted"} => fate'[d] = client'[d].told
           /\ client'[d].outcome = "ready" => fate'[d] = "ready"
    BY <1>2, <1>3, <1>5 DEF ClientInv, TerminalStays
  <2> QED
    BY <2>2, <2>3, <2>4 DEF TerminalStays
<1>9. BasesAreReplaced'
  BY <1>1, <1>3, <1>4, Constants DEF ClientInv, TypeOK, BasesAreReplaced
<1> QED
  BY <1>6, <1>7, <1>8, <1>9 DEF ClientInv

LEMMA TargetInv ==
    ASSUME ClientInv, NEW r \in requests, ServeBatch(r) \/ ServeFinalize(r) \/ ServeAbort(r)
    PROVE  ClientInv'
<1> DEFINE c == r.client
<1>1. /\ c \in Clients /\ r \in Requests /\ r.n \in 0..Batches
      /\ fate \in [Clients -> {"none", "staging", "ready", "aborted", "deleted"}]
      /\ stored \in [Clients -> 0..Batches]
  BY DEF ClientInv, TypeOK, Requests
<1>2. ASSUME NEW f \in {"none", "staging", "ready", "aborted", "deleted"},
             f = fate[c] \/ (fate[c] = "staging" /\ f \in {"aborted", "deleted"}),
             fate' = [fate EXCEPT ![c] = f], stored' \in [Clients -> 0..Batches],
             UNCHANGED <<base, active, activated>>,
             NEW result \in {"begun", "accepted", "refused", "ready", "aborted"},
             result \in {"ready", "aborted"} => f = result, Reply(r, result)
      PROVE  ClientInv'
  <2>1. /\ requests' \subseteq requests /\ answers' \subseteq Answers /\ client' = client
        /\ \A a \in answers' : a \in answers \/ (a.client = c /\ a.result = result)
    BY <1>2, ReplyTypes DEF ClientInv
  <2>2. AnsweredTruly(c, f)
    BY <1>2, <2>1 DEF AnsweredTruly
  <2> HIDE DEF c
  <2>3. UNCHANGED <<base, active, activated, client>>
    BY <1>2, <2>1
  <2>4. c \in Clients
    BY <1>1
  <2>5. f = fate[c] \/ (fate[c] = "staging" /\ f \in {"aborted", "deleted"})
    BY <1>2
  <2>6. fate' = [fate EXCEPT ![c] = f] /\ stored' \in [Clients -> 0..Batches]
    BY <1>2
  <2> QED
    BY <2>1, <2>2, <2>3, <2>4, <2>5, <2>6, SettleInv
<1>3. fate = [fate EXCEPT ![c] = fate[c]]
  BY <1>1
<1>4. CASE ServeBatch(r)
  <2>1. PICK result \in {"accepted", "refused"} : Reply(r, result)
    BY <1>4 DEF ServeBatch
  <2>2. stored' \in [Clients -> 0..Batches] /\ UNCHANGED <<fate, base, active, activated>>
    BY <1>1, <1>4 DEF ServeBatch
  <2> QED
    BY <1>1, <1>2, <1>3, <2>1, <2>2
<1>5. CASE ServeFinalize(r)
  <2>1. CASE /\ fate[c] = "staging" /\ BaseIsActive(c)
             /\ fate' = [fate EXCEPT ![c] = "ready"]
             /\ active' = c /\ activated' = activated \cup {c}
             /\ Reply(r, "ready")
    BY <1>5, <2>1, ActivateInv DEF ServeFinalize
  <2>2. CASE /\ Reply(r, IF fate[c] \in {"ready", "aborted"} THEN fate[c] ELSE "refused")
             /\ UNCHANGED <<fate, active, activated>>
    BY <1>1, <1>2, <1>3, <1>5, <2>2 DEF ServeFinalize
  <2> QED
    BY <1>5, <2>1, <2>2 DEF ServeFinalize
<1>6. CASE ServeAbort(r)
  <2>1. CASE fate[c] \in {"staging", "aborted"} /\ DropSession(c) /\ Reply(r, "aborted")
    <3>1. /\ fate' = [fate EXCEPT ![c] = "aborted"]
          /\ stored' \in [Clients -> 0..Batches]
      BY <1>1, <2>1, Constants DEF DropSession
    <3> QED
      BY <1>1, <1>2, <1>6, <2>1, <3>1 DEF ServeAbort
  <2>2. CASE fate[c] = "ready" /\ Reply(r, "ready") /\ UNCHANGED <<fate, stored>>
    BY <1>1, <1>2, <1>3, <1>6, <2>2 DEF ServeAbort
  <2>3. CASE fate[c] = "deleted" /\ Reply(r, "refused") /\ UNCHANGED <<fate, stored>>
    BY <1>1, <1>2, <1>3, <1>6, <2>3 DEF ServeAbort
  <2> QED
    BY <1>6, <2>1, <2>2, <2>3 DEF ServeAbort
<1> QED
  BY <1>4, <1>5, <1>6

LEMMA NetworkInv ==
    ASSUME ClientInv,
           (\E r \in requests : Lose(r)) \/ (\E c \in Clients : Expire(c))
    PROVE  ClientInv'
<1>1. ASSUME NEW r \in requests, Lose(r) PROVE ClientInv'
  <2>1. r.client \in Clients
    BY DEF ClientInv, TypeOK, Requests
  <2>2. /\ fate' = [fate EXCEPT ![r.client] = fate[r.client]]
        /\ fate[r.client] \in {"none", "staging", "ready", "aborted", "deleted"}
        /\ stored' \in [Clients -> 0..Batches]
        /\ UNCHANGED <<base, active, activated, client>>
        /\ requests' \subseteq requests /\ answers' \subseteq Answers
        /\ AnsweredTruly(r.client, fate[r.client])
    BY <1>1, <2>1 DEF Lose, target, ClientInv, TypeOK, AnsweredTruly
  <2> QED
    BY <2>1, <2>2, SettleInv
<1>2. ASSUME NEW c \in Clients, Expire(c) PROVE ClientInv'
  <2>1. /\ fate' = [fate EXCEPT ![c] = "deleted"] /\ fate[c] = "staging"
        /\ stored' \in [Clients -> 0..Batches]
        /\ UNCHANGED <<base, active, activated, client, requests, answers>>
        /\ answers' \subseteq Answers /\ AnsweredTruly(c, "deleted")
    BY <1>2, Constants DEF Expire, ClientInv, TypeOK, AnsweredTruly
  <2> QED
    BY <2>1, SettleInv
<1> QED
  BY <1>1, <1>2

-----------------------------------------------------------------------------
(* The clients *)

\* A client sends or reports something, and what it says it was told is so.
LEMMA ClientMoveInv ==
    ASSUME ClientInv, NEW c \in Clients, NEW rec \in ClientRecords,
           client' = [client EXCEPT ![c] = rec],
           rec.waits # "nothing" \/ rec.outcome # None,
           rec.told \in {"ready", "aborted"} => fate[c] = rec.told,
           rec.outcome = "ready" => fate[c] = "ready",
           UNCHANGED target,
           requests' \subseteq Requests,
           \A r \in requests' :
               \/ r \in requests
               \/ r.client = c /\ (r.op = "begin" => fate[c] = "none" /\ r = Request(c, "begin", 0)),
           answers' \subseteq answers
    PROVE  ClientInv'
<1>1. \A d \in Clients : client'[d] = IF d = c THEN rec ELSE client[d]
  BY DEF ClientInv, TypeOK
<1>2. TypeOK'
  BY DEF ClientInv, TypeOK, target
<1>3. BeginsOnce'
  <2>1. \A r \in requests' : r.op = "begin" =>
           fate'[r.client] = "none" /\ r = Request(r.client, "begin", 0)
    BY DEF ClientInv, BeginsOnce, target
  <2>2. ASSUME NEW d \in Clients, client'[d].waits = "nothing", client'[d].outcome = None
        PROVE  /\ fate'[d] = "none" /\ client'[d].told = "nothing"
               /\ \A r \in requests' : r.client # d
    BY <1>1, <2>2 DEF ClientInv, BeginsOnce, target
  <2> QED
    BY <2>1, <2>2 DEF BeginsOnce
<1>4. TerminalStays'
  BY <1>1 DEF ClientInv, TerminalStays, target
<1>5. BasesAreReplaced'
  BY DEF ClientInv, BasesAreReplaced, target
<1> QED
  BY <1>2, <1>3, <1>4, <1>5 DEF ClientInv

\* What may be sent by a client that has begun.
LEMMA SendInv ==
    ASSUME ClientInv, NEW c \in Clients, NEW op \in Ops, NEW n \in 0..Batches,
           NEW sent \in 0..Batches, NEW asks \in BOOLEAN,
           client' = [client EXCEPT ![c] = [client[c] EXCEPT !.waits = op, !.sent = sent,
                                                             !.asks = asks]],
           requests' = requests \cup {Request(c, op, n)},
           op = "begin" => fate[c] = "none" /\ n = 0,
           answers' \subseteq answers,
           UNCHANGED target
    PROVE  ClientInv'
<1> DEFINE rec == [client[c] EXCEPT !.waits = op, !.sent = sent, !.asks = asks]
<1>1. client[c] \in ClientRecords
  BY DEF ClientInv, TypeOK
<1>2. /\ rec \in ClientRecords /\ rec.waits # "nothing"
      /\ rec.told = client[c].told /\ rec.outcome = client[c].outcome
  BY <1>1 DEF ClientRecords, Ops
<1>3. /\ Request(c, op, n) \in Requests
      /\ Request(c, op, n).client = c /\ Request(c, op, n).op = op
  BY DEF Request, Requests
<1>4. requests' \subseteq Requests
  BY <1>3 DEF ClientInv, TypeOK
<1>5. \A r \in requests' :
         \/ r \in requests
         \/ r.client = c /\ (r.op = "begin" => fate[c] = "none" /\ r = Request(c, "begin", 0))
  BY <1>3
<1>6. /\ rec.told \in {"ready", "aborted"} => fate[c] = rec.told
      /\ rec.outcome = "ready" => fate[c] = "ready"
  BY <1>2 DEF ClientInv, TerminalStays
<1>7. client' = [client EXCEPT ![c] = rec]
  OBVIOUS
<1> HIDE DEF rec
<1> QED
  BY <1>2, <1>4, <1>5, <1>6, <1>7, ClientMoveInv

LEMMA ReportInv ==
    ASSUME ClientInv, NEW c \in Clients, NEW outcome \in {"ready", "failed"},
           NEW told \in {"lost", "refused", "ready", "aborted"},
           Report(c, outcome, told),
           told \in {"ready", "aborted"} => fate[c] = told,
           outcome = "ready" => fate[c] = "ready"
    PROVE  ClientInv'
<1> DEFINE rec == [client[c] EXCEPT !.waits = "nothing", !.outcome = outcome, !.told = told]
<1>1. client[c] \in ClientRecords
  BY DEF ClientInv, TypeOK
<1>2. /\ rec \in ClientRecords /\ rec.outcome = outcome /\ rec.told = told
  BY <1>1 DEF ClientRecords
<1>3. client' = [client EXCEPT ![c] = rec]
  BY DEF Report
<1>4. /\ UNCHANGED target /\ requests' = requests /\ requests' \subseteq Requests
      /\ answers' \subseteq answers
  BY DEF Report, Forget, ClientInv, TypeOK
<1> HIDE DEF rec
<1> QED
  BY <1>2, <1>3, <1>4, Constants, ClientMoveInv

LEMMA ClientStepInv ==
    ASSUME ClientInv, NEW c \in Clients, PublishBegin(c) \/ ClientStep(c)
    PROVE  ClientInv'
<1>1. /\ client[c] \in ClientRecords /\ client[c].sent \in 0..Batches
      /\ client[c].asks \in BOOLEAN
      /\ client \in [Clients -> ClientRecords]
      /\ Batches \in Nat
  BY Constants DEF ClientInv, TypeOK, ClientRecords
<1>2. \A a \in answers : a.result \in {"ready", "aborted"} => fate[a.client] = a.result
  BY DEF ClientInv, TerminalStays
<1>3. ASSUME NEW op \in {"batch", "finalize"}, NEW n \in 0..Batches, Send(c, op, n),
             Forget(c), UNCHANGED target
      PROVE  ClientInv'
  <2>1. client' = [client EXCEPT ![c] = [client[c] EXCEPT !.waits = op, !.sent = n,
                                                          !.asks = client[c].asks]]
    BY <1>1, <1>3 DEF Send, ClientRecords
  <2>2. /\ requests' = requests \cup {Request(c, op, n)} /\ answers' \subseteq answers
        /\ op \in Ops
    BY <1>3 DEF Send, Forget, Ops
  <2> QED
    BY <1>1, <1>3, <2>1, <2>2, SendInv
<1>4. ASSUME NEW lost \in BOOLEAN, SendAbort(c, lost) PROVE ClientInv'
  <2>1. client' = [client EXCEPT ![c] = [client[c] EXCEPT !.waits = "abort",
                                             !.sent = client[c].sent, !.asks = Asks(c, lost)]]
    BY <1>1, <1>4 DEF SendAbort, ClientRecords
  <2>2. /\ requests' = requests \cup {Request(c, "abort", 0)} /\ answers' \subseteq answers
        /\ UNCHANGED target /\ "abort" \in Ops /\ 0 \in 0..Batches
    BY <1>1, <1>4 DEF SendAbort, Forget, Ops
  <2>3. Asks(c, lost) \in BOOLEAN
    BY DEF Asks
  <2> QED
    BY <1>1, <2>1, <2>2, <2>3, SendInv
<1>5. CASE PublishBegin(c)
  <2>1. client' = [client EXCEPT ![c] = [client[c] EXCEPT !.waits = "begin", !.sent = 0,
                                                          !.asks = client[c].asks]]
    BY <1>1, <1>5 DEF PublishBegin, Send, ClientRecords
  <2>2. /\ requests' = requests \cup {Request(c, "begin", 0)} /\ answers' \subseteq answers
        /\ UNCHANGED target /\ "begin" \in Ops /\ 0 \in 0..Batches
    BY <1>1, <1>5 DEF PublishBegin, Send, Ops
  <2>3. fate[c] = "none"
    BY <1>5 DEF PublishBegin, ClientInv, BeginsOnce
  <2> QED
    BY <1>1, <2>1, <2>2, <2>3, SendInv
<1>6. CASE SendNext(c)
  <2>1. CASE MoreBatches(c)
    <3>1. client[c].sent + 1 \in 0..Batches
      BY <1>1, <2>1 DEF MoreBatches
    <3> QED
      BY <1>3, <1>6, <2>1, <3>1 DEF SendNext
  <2>2. CASE ~MoreBatches(c)
    BY <1>1, <1>3, <1>6, <2>2 DEF SendNext
  <2> QED
    BY <2>1, <2>2
<1>7. CASE FinalizeReady(c)
  <2>1. fate[c] = "ready"
    BY <1>2, <1>7 DEF FinalizeReady, Answered
  <2> QED
    BY <1>7, <2>1, ReportInv DEF FinalizeReady
<1>8. CASE AbortAnswered(c)
  <2>1. PICK result \in {"aborted", "ready", "refused"} :
           /\ Answered(c, "abort", {result})
           /\ Report(c, IF ActivatedDespite(c, result) THEN "ready" ELSE "failed", result)
    BY <1>8 DEF AbortAnswered
  <2>2. result \in {"ready", "aborted"} => fate[c] = result
    BY <1>2, <2>1 DEF Answered
  <2>3. ActivatedDespite(c, result) => fate[c] = "ready"
    BY <2>2 DEF ActivatedDespite
  <2>4. CASE ActivatedDespite(c, result)
    BY <2>1, <2>2, <2>3, <2>4, ReportInv
  <2>5. CASE ~ActivatedDespite(c, result)
    BY <2>1, <2>2, <2>5, ReportInv
  <2> QED
    BY <2>4, <2>5
<1>9. CASE BeginLost(c) \/ AbortLost(c)
  BY <1>9, ReportInv DEF BeginLost, AbortLost
<1>10. CASE Refused(c) \/ CallLost(c)
  BY <1>4, <1>10 DEF Refused, CallLost
<1> QED
  BY <1>5, <1>6, <1>7, <1>8, <1>9, <1>10 DEF ClientStep

-----------------------------------------------------------------------------
(* What every publisher is told *)

LEMMA StepInv ==
    ASSUME ClientInv, [Next]_vars
    PROVE  ClientInv'
<1>1. CASE UNCHANGED vars
  BY <1>1 DEF vars, target, ClientInv, TypeOK, BeginsOnce, TerminalStays, BasesAreReplaced
<1>2. ASSUME NEW c \in Clients, PublishBegin(c) \/ ClientStep(c) \/ Expire(c)
      PROVE  ClientInv'
  BY <1>2, ClientStepInv, NetworkInv
<1>3. ASSUME NEW r \in requests, Serve(r) \/ Lose(r)
      PROVE  ClientInv'
  BY <1>3, BeginInv, TargetInv, NetworkInv DEF Serve
<1> QED
  BY <1>1, <1>2, <1>3 DEF Next

\* The inductive invariant of publishers and target holds.
THEOREM InvariantHolds == Spec => []ClientInv
BY InitInv, StepInv, PTL DEF Spec

\* A publish_snapshot that reports ready has published its own snapshot,
\* whatever calls were lost, late or overtaken.
THEOREM ReadyTrue == Spec => []ReadyIsTrue
<1>1. ClientInv => ReadyIsTrue
  BY DEF ClientInv, TerminalStays, ReadyIsTrue
<1> QED
  BY <1>1, InvariantHolds, PTL

\* An abort that was answered "aborted" is final: no finalize still under way
\* publishes the snapshot later.
THEOREM AbortFinal == Spec => []AbortIsFinal
<1>1. ClientInv => AbortIsFinal
  <2> SUFFICES ASSUME ClientInv, NEW c \in Clients, client[c].told = "aborted"
               PROVE  c \notin activated
    BY DEF AbortIsFinal
  <2>1. fate[c] = "aborted"
    BY DEF ClientInv, TerminalStays
  <2> QED
    BY <2>1 DEF ClientInv, TerminalStays
<1> QED
  BY <1>1, InvariantHolds, PTL

\* Two publishers that both report ready published one after the other.
THEOREM ReadyFollow == Spec => []ReadyOnesFollow
<1>1. ClientInv => ReadyOnesFollow
  BY DEF ClientInv, TerminalStays, BasesAreReplaced, ReadyOnesFollow
<1> QED
  BY <1>1, InvariantHolds, PTL

-----------------------------------------------------------------------------
(* What every publisher reports *)

\* The target activates only a snapshot whose finalize was sent.
LEMMA TargetAsked ==
    ASSUME ClientInv, FinalizesAreAsked,
           \/ \E r \in requests : Serve(r) \/ Lose(r)
           \/ \E c \in Clients : Expire(c)
    PROVE  FinalizesAreAsked'
<1>1. client' = client /\ requests' \subseteq requests
  BY DEF Serve, ServeBegin, ServeBatch, ServeFinalize, ServeAbort, Reply, Lose, Expire
<1>2. ASSUME NEW c \in Clients, fate'[c] = "ready"
      PROVE  fate[c] = "ready" \/ \E r \in requests : r.client = c /\ r.op = "finalize"
  <2>1. fate \in [Clients -> {"none", "staging", "ready", "aborted", "deleted"}]
    BY DEF ClientInv, TypeOK
  <2>2. CASE \E r \in requests : ServeFinalize(r)
    BY <1>2, <2>1, <2>2 DEF ServeFinalize
  <2>3. CASE \E r \in requests : ServeBegin(r) \/ ServeBatch(r) \/ ServeAbort(r) \/ Lose(r)
    BY <1>2, <2>1, <2>3 DEF ServeBegin, ServeBatch, ServeAbort, DropSession, Lose, target
  <2>4. CASE \E d \in Clients : Expire(d)
    BY <1>2, <2>1, <2>4 DEF Expire
  <2>5. QED
    BY <2>2, <2>3, <2>4 DEF Serve
<1>3. QED
  BY <1>1, <1>2 DEF FinalizesAreAsked

\* What a client does about its own publication.
LEMMA ClientAsked ==
    ASSUME ClientInv, FinalizesAreAsked, NEW c \in Clients, PublishBegin(c) \/ ClientStep(c)
    PROVE  FinalizesAreAsked'
<1>a. /\ client \in [Clients -> ClientRecords] /\ client[c] \in ClientRecords
      /\ \A a \in answers : a.result \in {"ready", "aborted"} => fate[a.client] = a.result
      /\ client[c].waits = "nothing" /\ client[c].outcome = None =>
            fate[c] = "none" /\ \A r \in requests : r.client # c
      /\ client[c].waits # "nothing" => client[c].outcome = None
  BY DEF ClientInv, TypeOK, TerminalStays, BeginsOnce, FinalizesAreAsked
<1>f. fate' = fate
  BY DEF PublishBegin, ClientStep, SendNext, FinalizeReady, Refused, AbortAnswered, BeginLost,
         CallLost, AbortLost, Report, SendAbort, target
<1> DEFINE begun == fate[c] = "ready" \/ \E r \in requests : r.client = c /\ r.op = "finalize"
<1>1. ASSUME NEW new, client' = [client EXCEPT ![c] = new],
             \/ requests' = requests
             \/ \E op, n : /\ requests' = requests \cup {Request(c, op, n)}
                           /\ op = "finalize" => new.waits = "finalize",
             new.waits # "nothing" => new.outcome = None,
             ~Direct =>
                /\ begun => \/ new.waits = "finalize" \/ (new.waits = "abort" /\ new.asks)
                            \/ new.outcome # None
                /\ new.told = "ready" => new.outcome = "ready"
      PROVE  FinalizesAreAsked'
  <2>1. client'[c] = new /\ \A d \in Clients \ {c} : client'[d] = client[d]
    BY <1>a, <1>1
  <2>2. \A d \in Clients \ {c} : \A r \in requests' : r.client = d => r \in requests
    BY <1>1 DEF Request
  <2>3. ASSUME NEW r \in requests', r.client = c, r.op = "finalize"
        PROVE  begun \/ new.waits = "finalize"
    BY <1>1, <2>3 DEF Request
  <2>4. ASSUME NEW d \in Clients, ~Direct
        PROVE  /\ (fate'[d] = "ready" \/ \E r \in requests' : r.client = d /\ r.op = "finalize") =>
                     \/ client'[d].waits = "finalize"
                     \/ client'[d].waits = "abort" /\ client'[d].asks
                     \/ client'[d].outcome # None
               /\ client'[d].told = "ready" => client'[d].outcome = "ready"
    <3>1. CASE d = c
      BY <1>1, <1>f, <2>1, <2>3, <2>4, <3>1
    <3>2. CASE d # c
      BY <1>f, <2>1, <2>2, <2>4, <3>2 DEF FinalizesAreAsked
    <3>3. QED
      BY <3>1, <3>2
  <2>5. \A d \in Clients : client'[d].waits # "nothing" => client'[d].outcome = None
    BY <1>1, <2>1 DEF FinalizesAreAsked
  <2>6. QED
    BY <2>4, <2>5 DEF FinalizesAreAsked
<1>2. CASE PublishBegin(c) \/ SendNext(c)
  <2>1. PICK op \in {"begin", "batch", "finalize"} : \E n : Send(c, op, n)
    BY <1>2 DEF PublishBegin, SendNext
  <2>2. PICK n : Send(c, op, n)
    BY <2>1
  <2> DEFINE new == [client[c] EXCEPT !.waits = op, !.sent = n]
  <2>3. client' = [client EXCEPT ![c] = new] /\ requests' = requests \cup {Request(c, op, n)}
    BY <1>a, <2>2 DEF Send
  <2>4. new.waits = op /\ new.outcome = client[c].outcome /\ new.told = client[c].told
    BY <1>a DEF ClientRecords
  <2>5. client[c].outcome = None
    BY <1>a, <1>2 DEF PublishBegin, SendNext, Answered
  <2>6. ~Direct => ~begun /\ client[c].told # "ready"
    BY <1>a, <1>2, <2>5, Constants DEF PublishBegin, SendNext, Answered, FinalizesAreAsked
  <2> HIDE DEF new
  <2>7. QED
    BY <1>1, <2>3, <2>4, <2>5, <2>6, Constants
<1>3. CASE Refused(c) \/ CallLost(c)
  <2>1. PICK lost \in BOOLEAN : SendAbort(c, lost)
    BY <1>3 DEF Refused, CallLost
  <2> DEFINE new == [client[c] EXCEPT !.waits = "abort", !.asks = Asks(c, lost)]
  <2>2. client' = [client EXCEPT ![c] = new] /\ requests' = requests \cup {Request(c, "abort", 0)}
    BY <1>a, <2>1 DEF SendAbort
  <2>3. /\ new.waits = "abort" /\ new.outcome = client[c].outcome /\ new.told = client[c].told
        /\ new.asks = Asks(c, lost)
    BY <1>a DEF ClientRecords
  <2>4. client[c].waits \in {"batch", "finalize"} /\ client[c].outcome = None
    BY <1>a, <1>3 DEF Refused, CallLost, Answered
  <2>5. ~Direct => (begun => Asks(c, lost)) /\ client[c].told # "ready"
    BY <2>4, Constants DEF Asks, FinalizesAreAsked
  <2> HIDE DEF new
  <2>6. QED
    BY <1>1, <2>2, <2>3, <2>4, <2>5
<1>4. ASSUME NEW outcome \in {"ready", "failed"}, NEW told, Report(c, outcome, told),
             ~Direct => (told = "ready" => outcome = "ready")
      PROVE  FinalizesAreAsked'
  <2> DEFINE new == [client[c] EXCEPT !.waits = "nothing", !.outcome = outcome, !.told = told]
  <2>1. client' = [client EXCEPT ![c] = new] /\ requests' = requests
    BY <1>a, <1>4 DEF Report
  <2>2. new.waits = "nothing" /\ new.outcome = outcome /\ new.told = told
    BY <1>a DEF ClientRecords
  <2> HIDE DEF new
  <2>3. QED
    BY <1>1, <1>4, <2>1, <2>2, Constants
<1>5. CASE AbortAnswered(c)
  <2>1. PICK result \in {"aborted", "ready", "refused"} :
           /\ Answered(c, "abort", {result})
           /\ Report(c, IF ActivatedDespite(c, result) THEN "ready" ELSE "failed", result)
    BY <1>5 DEF AbortAnswered
  <2>2. ~Direct /\ result = "ready" => client[c].asks
    <3> SUFFICES ASSUME ~Direct, result = "ready"
                 PROVE  client[c].asks
      OBVIOUS
    <3>1. client[c].waits = "abort" /\ fate[c] = "ready"
      BY <1>a, <2>1 DEF Answered
    <3>2. QED
      BY <1>a, <3>1 DEF FinalizesAreAsked
  <2>3. QED
    BY <1>4, <2>1, <2>2 DEF ActivatedDespite
<1>6. CASE FinalizeReady(c) \/ BeginLost(c) \/ AbortLost(c)
  BY <1>4, <1>6 DEF FinalizeReady, BeginLost, AbortLost
<1>7. QED
  BY <1>2, <1>3, <1>5, <1>6 DEF ClientStep

\* Over the remote adapter, whatever publish_snapshot reports is so: "ready"
\* when the target activated the snapshot, and a failure answered "ready" or
\* "aborted" only when it never did.
THEOREM ReportsTrue == Spec => [](~Direct => ReportsAreTrue)
<1>1. Init => FinalizesAreAsked
  BY DEF Init, FinalizesAreAsked
<1>2. ClientInv /\ FinalizesAreAsked /\ [Next]_vars => FinalizesAreAsked'
  <2> SUFFICES ASSUME ClientInv, FinalizesAreAsked, [Next]_vars
               PROVE  FinalizesAreAsked'
    OBVIOUS
  <2>1. CASE UNCHANGED vars
    BY <2>1 DEF vars, target, FinalizesAreAsked
  <2>2. QED
    BY <2>1, TargetAsked, ClientAsked DEF Next
<1>3. ClientInv /\ FinalizesAreAsked => (~Direct => ReportsAreTrue)
  <2> SUFFICES ASSUME ClientInv, FinalizesAreAsked, ~Direct
               PROVE  ReportsAreTrue
    OBVIOUS
  <2>1. ReadyIsTrue
    BY DEF ClientInv, TerminalStays, ReadyIsTrue
  <2>2. AnsweredFailureIsTrue
    BY DEF ClientInv, TerminalStays, FinalizesAreAsked, AnsweredFailureIsTrue
  <2>3. QED
    BY <2>1, <2>2 DEF ReportsAreTrue
<1>4. QED
  BY <1>1, <1>2, <1>3, InvariantHolds, PTL DEF Spec
=============================================================================
