----------------------------- MODULE TelegramBot -----------------------------
(***************************************************************************)
(* The Telegram bot: one task that fetches updates from Telegram, handles   *)
(* them in order with calls to the remote wiki, and remembers the offset    *)
(* after each (src/iwiki_mcp/telegram_bot/transport.py, conversation.py,    *)
(* main.py).  A lost wiki session is replaced, and the update replayed; any *)
(* other error ends the process, which the supervisor starts again with an  *)
(* empty memory.                                                            *)
(*                                                                          *)
(* A step is what the bot does between two awaits of one of its peers.      *)
(***************************************************************************)
EXTENDS Naturals, Sequences

CONSTANTS
    Users,
    Allowed,      \* allowed_telegram_ids
    Domains,
    Asked,        \* the updates that users may send
    MaxUpdates,   \* bound: updates
    MaxPreviews,  \* bound: previews
    MaxEdits,     \* bound: edits of the section by others
    MaxMishaps,   \* bound: lost sessions, lost fetches and ends of the process
    None

Ids == 1..MaxUpdates
Tokens == 1..MaxPreviews

Kinds == {"static", "domains", "question", "voice", "choose", "create", "update",
          "confirm", "reject"}
Updates == [by : Users, kind : Kinds, arg : Domains \cup Tokens \cup {None}]
Previews == [by : Users, does : {"create", "update"}]
Requests == [seen : Nat \cup {None}]

ASSUME BotAssumption ==
    /\ MaxUpdates \in Nat /\ MaxPreviews \in Nat
    /\ None \notin Users /\ None \notin Domains /\ None \notin Nat
    /\ None \notin Previews /\ None \notin Requests
    /\ Asked \subseteq Updates
    /\ \A a \in Asked : /\ a.kind = "choose" => a.arg \in Domains
                        /\ a.kind \in {"confirm", "reject"} => a.arg \in Tokens

VARIABLES
    sent,      \* Telegram: the updates, in the order of their ids
    dropped,   \* Telegram: updates up to this one are confirmed and forgotten
    told,      \* Telegram: what it delivered in answer to each update
    shown,     \* Telegram: the previews it delivered, with their buttons
    stage,     \* what the bot awaits
    work,      \* what the handler of the current update knows
    offset,    \* _poll_offset less one, 0 for None
    last,      \* the last update of the batch being handled
    selected,  \* _selected_domains
    question,  \* _pending_questions
    writes,    \* _pending_writes
    preview,   \* whose the preview of a token is and what it would do
    version,   \* the wiki: the section the updates are about
    landed,    \* the wiki: how often the change of a token was made
    late,      \* changes whose request was given up and may still be made
    mishaps

telegramVars == <<sent, dropped, told, shown>>
memoryVars == <<selected, question, writes>>
wikiVars == <<version, landed, late>>
vars == <<telegramVars, stage, work, offset, last, memoryVars, preview, wikiVars, mishaps>>

NoWork == [says |-> None, token |-> None, domain |-> None, seen |-> None]
NoQuestion == [of |-> None, lapsed |-> FALSE]

Forgotten ==
    /\ selected' = [u \in Users |-> None]
    /\ question' = [u \in Users |-> NoQuestion]
    /\ writes' = [t \in Tokens |-> "none"]

Init ==
    /\ sent = <<>> /\ dropped = 0 /\ shown = {}
    /\ told = [i \in Ids |-> {}]
    /\ stage = "down" /\ work = NoWork
    /\ offset = 0 /\ last = 0
    /\ selected = [u \in Users |-> None]
    /\ question = [u \in Users |-> NoQuestion]
    /\ writes = [t \in Tokens |-> "none"]
    /\ preview = [t \in Tokens |-> None]
    /\ version = 0
    /\ landed = [t \in Tokens |-> 0]
    /\ late = [t \in Tokens |-> None]
    /\ mishaps = 0

-----------------------------------------------------------------------------
(* Users, other writers and time *)

Send(a) ==
    /\ Len(sent) < MaxUpdates
    /\ a.kind \in {"confirm", "reject"} => a.arg \in shown
    /\ sent' = Append(sent, a)
    /\ UNCHANGED <<dropped, told, shown, stage, work, offset, last, memoryVars, preview,
                   wikiVars, mishaps>>

Edit ==
    /\ version < MaxEdits
    /\ version' = version + 1
    /\ UNCHANGED <<telegramVars, stage, work, offset, last, memoryVars, preview, landed,
                   late, mishaps>>

\* confirmation_ttl_seconds are over for a preview, or for a question.
Lapse ==
    /\ \/ \E t \in Tokens :
            /\ writes[t] = "pending"
            /\ writes' = [writes EXCEPT ![t] = "lapsed"]
            /\ UNCHANGED question
       \/ \E u \in Users :
            /\ question[u].of # None /\ ~question[u].lapsed
            /\ question' = [question EXCEPT ![u].lapsed = TRUE]
            /\ UNCHANGED writes
    /\ UNCHANGED <<telegramVars, stage, work, offset, last, selected, preview, wikiVars,
                   mishaps>>

\* expire_state
UnexpiredWrites == [t \in Tokens |-> IF writes[t] = "lapsed" THEN "none" ELSE writes[t]]
UnexpiredQuestions ==
    [u \in Users |-> IF question[u].lapsed THEN NoQuestion ELSE question[u]]

-----------------------------------------------------------------------------
(* getUpdates *)

Handled == IF offset > dropped THEN offset ELSE dropped

Current == Handled + 1
Update == sent[Current]

\* Telegram forgets the updates below the offset, and gives what it has.
Fetch ==
    /\ stage = "polling" /\ last <= Handled
    /\ Handled < Len(sent) \/ dropped < offset
    /\ dropped' = Handled
    /\ writes' = UnexpiredWrites /\ question' = UnexpiredQuestions
    /\ \E n \in Handled..Len(sent) :
          /\ n = Handled => Len(sent) = Handled
          /\ last' = n
    /\ UNCHANGED <<sent, told, shown, stage, work, offset, selected, preview, wikiVars,
                   mishaps>>

\* The answer is lost, and the loop sleeps and asks again.
FetchFails ==
    /\ mishaps < MaxMishaps
    /\ stage = "polling" /\ last <= Handled
    /\ dropped' = Handled
    /\ writes' = UnexpiredWrites /\ question' = UnexpiredQuestions
    /\ mishaps' = mishaps + 1
    /\ UNCHANGED <<sent, told, shown, stage, work, offset, last, selected, preview,
                   wikiVars>>

-----------------------------------------------------------------------------
(* handle_update *)

Takes(kinds) ==
    /\ stage = "polling" /\ last > Handled
    /\ Update.by \in Allowed /\ Update.kind \in kinds

Says(w) == stage' = "replying" /\ work' = [work EXCEPT !.says = w]

NoMemory == UNCHANGED memoryVars
Elsewhere == UNCHANGED <<telegramVars, offset, last, mishaps>>

Refuse ==
    /\ stage = "polling" /\ last > Handled /\ Update.by \notin Allowed
    /\ Says("denied")
    /\ NoMemory /\ Elsewhere /\ UNCHANGED <<preview, wikiVars>>

\* A command that is answered without the wiki.
Static ==
    /\ Takes({"static"})
    /\ Says("static")
    /\ NoMemory /\ Elsewhere /\ UNCHANGED <<preview, wikiVars>>

\* list_domains, /domains
List ==
    /\ Takes({"domains"})
    /\ stage' = "offering"
    /\ NoMemory /\ Elsewhere /\ UNCHANGED <<work, preview, wikiVars>>

\* answer_question: with no domain selected, the question is kept.
Ask ==
    LET u == Update.by IN
    /\ writes' = UnexpiredWrites
    /\ IF selected[u] = None
       THEN /\ question' = [UnexpiredQuestions EXCEPT ![u] = [of |-> Current, lapsed |-> FALSE]]
            /\ stage' = "offering"
            /\ UNCHANGED work
       ELSE /\ question' = UnexpiredQuestions
            /\ stage' = "answering"
            /\ work' = [work EXCEPT !.domain = selected[u]]
    /\ UNCHANGED selected

Question ==
    /\ Takes({"question"})
    /\ Ask
    /\ Elsewhere /\ UNCHANGED <<preview, wikiVars>>

\* answer_voice: downloaded and transcribed first.
Voice ==
    /\ Takes({"voice"})
    /\ stage' = "hearing"
    /\ NoMemory /\ Elsewhere /\ UNCHANGED <<work, preview, wikiVars>>

Heard ==
    /\ stage = "hearing"
    /\ \/ Ask
       \/ Says("failed") /\ NoMemory
    /\ Elsewhere /\ UNCHANGED <<preview, wikiVars>>

\* select_domain asks first what there is.
Choose ==
    /\ Takes({"choose"})
    /\ stage' = "listing"
    /\ NoMemory /\ Elsewhere /\ UNCHANGED <<work, preview, wikiVars>>

\* _write_domain: what is writable is known from the last status.
Propose ==
    LET u == Update.by IN
    /\ Takes({"create", "update"})
    /\ writes' = UnexpiredWrites /\ question' = UnexpiredQuestions
    /\ \/ selected[u] = None /\ stage' = "offering" /\ UNCHANGED work
       \/ selected[u] # None /\ Says("read-only")
       \/ selected[u] # None /\ stage' = "drafting" /\ UNCHANGED work
    /\ Elsewhere /\ UNCHANGED <<selected, preview, wikiVars>>

\* Faulty: a preview that is rejected stays.
ConsumedByConfirm(t) ==
    IF Update.kind = "reject" THEN writes ELSE [writes EXCEPT ![t] = "none"]

\* Faulty: a preview stays until its change is made.
ConsumedNever(t) == writes

Consumed(t) == [writes EXCEPT ![t] = "none"]

\* _consume_pending: for its user only, and before anything is awaited.
Press ==
    LET t == Update.arg
        mine == writes[t] # "none" /\ preview[t].by = Update.by
    IN
    /\ Takes({"confirm", "reject"})
    /\ IF mine THEN writes' = Consumed(t) ELSE UNCHANGED writes
    /\ \/ ~mine /\ Says("invalid")
       \/ mine /\ writes[t] = "lapsed" /\ Says("expired")
       \/ mine /\ writes[t] = "pending" /\ Update.kind = "reject" /\ Says("rejected")
       \/ /\ mine /\ writes[t] = "pending" /\ Update.kind = "confirm"
          /\ stage' = IF preview[t].does = "create" THEN "writing" ELSE "reading"
          /\ work' = [work EXCEPT !.token = t]
    /\ Elsewhere /\ UNCHANGED <<selected, question, preview, wikiVars>>

-----------------------------------------------------------------------------
(* Answers of the wiki *)

Awaits == {"offering", "listing", "answering", "drafting", "reading", "writing"}

Offered ==
    /\ stage = "offering"
    /\ Says("choose a domain")
    /\ NoMemory /\ Elsewhere /\ UNCHANGED <<preview, wikiVars>>

\* The kept question is taken out, and answered within the same update.
Listed ==
    LET u == Update.by IN
    /\ stage = "listing"
    /\ \/ Says("not available") /\ NoMemory
       \/ /\ selected' = [selected EXCEPT ![u] = Update.arg]
          /\ writes' = UnexpiredWrites
          /\ question' = [UnexpiredQuestions EXCEPT ![u] = NoQuestion]
          /\ IF UnexpiredQuestions[u].of = None
             THEN Says("selected")
             ELSE stage' = "answering" /\ work' = [work EXCEPT !.domain = Update.arg]
    /\ Elsewhere /\ UNCHANGED <<preview, wikiVars>>

Answered ==
    /\ stage = "answering"
    /\ Says("answered") \/ Says("failed")
    /\ NoMemory /\ Elsewhere /\ UNCHANGED <<preview, wikiVars>>

Unused == {t \in Tokens : preview[t] = None}

\* _store_preview
Drafted ==
    /\ stage = "drafting"
    /\ \/ Says("failed") /\ UNCHANGED <<writes, preview>>
       \/ \E t \in Unused :
             /\ \A x \in Unused : t <= x
             /\ writes' = [writes EXCEPT ![t] = "pending"]
             /\ preview' = [preview EXCEPT ![t] = [by |-> Update.by, does |-> Update.kind]]
             /\ stage' = "replying"
             /\ work' = [work EXCEPT !.says = "preview", !.token = t]
    /\ Elsewhere /\ UNCHANGED <<selected, question, wikiVars>>

\* confirm_write reads the section again, for the revision and the hash of now.
Read ==
    /\ stage = "reading"
    /\ \/ Says("failed")
       \/ stage' = "writing" /\ work' = [work EXCEPT !.seen = version]
    /\ NoMemory /\ Elsewhere /\ UNCHANGED <<preview, wikiVars>>

Conflicts(t, seen) == preview[t].does = "update" /\ seen # version

\* wiki_write_page, or wiki_update_page.
Lands(t) ==
    /\ landed' = [landed EXCEPT ![t] = @ + 1]
    /\ version' = IF preview[t].does = "update" THEN version + 1 ELSE version

Written ==
    /\ stage = "writing"
    /\ IF Conflicts(work.token, work.seen)
       THEN Says("changed") /\ UNCHANGED <<version, landed>>
       ELSE Says("saved") /\ Lands(work.token)
    /\ NoMemory /\ Elsewhere /\ UNCHANGED <<preview, late>>

\* An error that is not worth a retry: of a change, whether it was made or not.
Fails ==
    /\ stage \in Awaits
    /\ Says("failed")
    /\ \/ UNCHANGED <<version, landed>>
       \/ stage = "writing" /\ ~Conflicts(work.token, work.seen) /\ Lands(work.token)
    /\ NoMemory /\ Elsewhere /\ UNCHANGED <<preview, late>>

\* The request of a change that nobody waits for is served.
LandsLate(t) ==
    /\ late[t] # None
    /\ late' = [late EXCEPT ![t] = None]
    /\ IF Conflicts(t, late[t].seen) THEN UNCHANGED <<version, landed>> ELSE Lands(t)
    /\ UNCHANGED <<telegramVars, stage, work, offset, last, memoryVars, preview, mishaps>>

-----------------------------------------------------------------------------
(* The reply and the offset *)

Delivers ==
    /\ told' = [told EXCEPT ![Current] = @ \cup {work.says}]
    /\ shown' = IF work.says = "preview" THEN shown \cup {work.token} ELSE shown

Deliver ==
    /\ stage = "replying"
    /\ Delivers
    /\ stage' = "settling" /\ work' = NoWork
    /\ NoMemory /\ UNCHANGED <<sent, dropped, offset, last, preview, wikiVars, mishaps>>

Settle ==
    /\ stage = "settling"
    /\ offset' = Current
    /\ stage' = "polling"
    /\ NoMemory /\ UNCHANGED <<telegramVars, work, last, preview, wikiVars, mishaps>>

-----------------------------------------------------------------------------
(* Lost sessions and ends of the process *)

\* What the interrupted await may have done: the reply has arrived, or the
\* request of the change is on its way.
Interrupted ==
    /\ \/ UNCHANGED <<told, shown>>
       \/ stage = "replying" /\ Delivers
    /\ \/ UNCHANGED late
       \/ stage = "writing" /\ late' = [late EXCEPT ![work.token] = [seen |-> work.seen]]
    /\ mishaps < MaxMishaps
    /\ mishaps' = mishaps + 1
    /\ work' = NoWork /\ last' = 0
    /\ UNCHANGED <<sent, dropped, preview, version, landed>>

\* Faulty: the batch counts as handled when its loop ends.
BatchOffset == IF last > offset THEN last ELSE offset

\* The transport stays, and remembers only what was handled.
PollOffset == offset

\* A retryable error of the wiki, or its session's tasks cancel the bot's.
LoseSession ==
    /\ stage \notin {"down", "reconnecting"}
    /\ Interrupted
    /\ stage' = "reconnecting" /\ offset' = PollOffset
    /\ NoMemory

\* replace_remote
Reconnect ==
    /\ stage = "reconnecting"
    /\ stage' = "polling"
    /\ NoMemory /\ Elsewhere /\ UNCHANGED <<work, preview, wikiVars>>

\* An error of Telegram while an update is handled, or one of the wiki that is
\* not worth a retry while reconnecting.
Exit ==
    /\ stage # "down"
    /\ Interrupted
    /\ stage' = "down" /\ offset' = 0
    /\ Forgotten

Start ==
    /\ stage = "down"
    /\ stage' = "polling"
    /\ NoMemory /\ Elsewhere /\ UNCHANGED <<work, preview, wikiVars>>

-----------------------------------------------------------------------------

Bot ==
    \/ Start \/ Fetch \/ Refuse \/ Static \/ List \/ Question \/ Voice \/ Heard \/ Choose
    \/ Propose \/ Press \/ Offered \/ Listed \/ Answered \/ Drafted \/ Read \/ Written
    \/ Fails \/ Deliver \/ Settle \/ Reconnect

Next ==
    \/ Bot
    \/ \E a \in Asked : Send(a)
    \/ Edit \/ Lapse
    \/ \E t \in Tokens : LandsLate(t)
    \/ FetchFails \/ LoseSession \/ Exit

Spec == Init /\ [][Next]_vars

\* The supervisor starts the process again, every await ends, and outages end.
FairSpec == Spec /\ WF_vars(Bot)

-----------------------------------------------------------------------------
(* Properties *)

Stages == Awaits \cup {"down", "polling", "hearing", "replying", "settling", "reconnecting"}
Words == {"denied", "static", "failed", "choose a domain", "not available", "selected",
          "answered", "read-only", "preview", "invalid", "expired", "rejected", "changed",
          "saved"}
Works == [says : Words \cup {None}, token : Tokens \cup {None},
          domain : Domains \cup {None}, seen : Nat \cup {None}]

TelegramOK ==
    /\ sent \in Seq(Asked) /\ Len(sent) <= MaxUpdates
    /\ dropped \in Nat
    /\ told \in [Ids -> SUBSET Words] /\ shown \subseteq Tokens

LoopOK ==
    /\ stage \in Stages /\ work \in Works
    /\ offset \in Nat /\ last \in Nat /\ mishaps \in Nat

MemoryOK ==
    /\ selected \in [Users -> Domains \cup {None}]
    /\ question \in [Users -> [of : Ids \cup {None}, lapsed : BOOLEAN]]
    /\ writes \in [Tokens -> {"none", "pending", "lapsed"}]

WikiOK ==
    /\ preview \in [Tokens -> Previews \cup {None}]
    /\ version \in Nat /\ landed \in [Tokens -> Nat]
    /\ late \in [Tokens -> Requests \cup {None}]

\* Every variable stays in its type.
TypeOK == TelegramOK /\ LoopOK /\ MemoryOK /\ WikiOK

Presses(t, kind) ==
    {i \in 1..Len(sent) : sent[i].kind = kind /\ sent[i].arg = t /\ sent[i].by = preview[t].by}

\* A change is made once at most, and only after the allowed user for whom it
\* was previewed has confirmed it (_consume_pending): whatever is replayed,
\* retried, forgotten or served late.
WrittenAsConfirmed ==
    \A t \in Tokens :
        /\ landed[t] <= 1
        /\ landed[t] = 1 => preview[t].by \in Allowed /\ Presses(t, "confirm") # {}

\* What the user is told of a change is true and stays true (confirm_write,
\* reject_write): saved changes were made; of changes that were rejected, had
\* expired or met a changed page, none is ever made.
RepliesAreTrue ==
    \A i \in 1..Len(sent) :
        sent[i].kind \in {"confirm", "reject"} =>
            /\ "saved" \in told[i] => landed[sent[i].arg] = 1
            /\ told[i] \cap {"rejected", "expired", "changed"} # {} => landed[sent[i].arg] = 0

\* Telegram forgets only what was answered.
NothingIsSkipped == \A i \in 1..dropped : told[i] # {}

\* Every update is answered and confirmed to Telegram in the end: a lost
\* session replays it (main.py run_bot), and so does a new process.
UpdatesAreAnswered ==
    \A i \in Ids : Len(sent) >= i ~> dropped >= i /\ told[i] # {}

\* docs/telegram-bot.md:166: a question without a domain is answered as soon as
\* a domain is chosen.  It is not when the session is lost meanwhile.
DeferredIsAnswered ==
    \A i \in Ids :
        (stage = "answering" /\ Current = i /\ Update.kind = "choose")
            ~> (told[i] \cap {"answered", "failed"} # {} \/ stage = "down")

-----------------------------------------------------------------------------
(* The invariant of the proofs *)

Busy == Awaits \cup {"hearing", "replying", "settling"}

\* The offset stands behind what was answered, and a batch before it.
OffsetStands ==
    /\ Handled <= Len(sent) /\ last <= Len(sent)
    /\ \A i \in Ids : told[i] # {} => i <= Len(sent)
    /\ \A i \in 1..Handled : told[i] # {}
    /\ stage \in Busy => last > Handled
    /\ stage = "settling" => told[Current] # {}

InHand(t) == stage \in {"reading", "writing"} /\ work.token = t

\* What a handler awaits belongs to the update it handles.
HandlersKnow ==
    /\ stage = "listing" => Update.kind = "choose"
    /\ stage = "drafting" => Update.by \in Allowed /\ Update.kind \in {"create", "update"}
    /\ stage \in {"reading", "writing"} => Update.kind = "confirm" /\ Update.arg = work.token
    /\ stage = "replying" => /\ work.says \in Words
                             /\ work.says = "preview" => work.token \in Tokens

\* A change is pending, in the hand of its handler, on its way, or done; and
\* never two of these.
OneClaim ==
    \A t \in Tokens :
        /\ landed[t] <= 1
        /\ writes[t] # "none" => landed[t] = 0 /\ late[t] = None /\ ~InHand(t)
        /\ InHand(t) => landed[t] = 0 /\ late[t] = None
        /\ late[t] # None => landed[t] = 0

\* Whoever holds a change was allowed to, and confirmed it.
ClaimsAreConfirmed ==
    \A t \in Tokens :
        /\ preview[t] # None => preview[t].by \in Allowed
        /\ writes[t] # "none" => preview[t] # None
        /\ InHand(t) \/ late[t] # None \/ landed[t] = 1 =>
              preview[t] # None /\ Presses(t, "confirm") # {}

\* Nothing can make this change any more.
Dead(t) == preview[t] # None /\ writes[t] = "none" /\ ~InHand(t) /\ late[t] = None /\ landed[t] = 0

\* A reply is true when it is chosen, and stays true.
RepliesHold ==
    /\ \A i \in 1..Len(sent) :
          sent[i].kind \in {"confirm", "reject"} =>
            /\ "saved" \in told[i] => landed[sent[i].arg] = 1
            /\ told[i] \cap {"rejected", "expired", "changed"} # {} => Dead(sent[i].arg)
    /\ stage = "replying" /\ Update.kind \in {"confirm", "reject"} =>
          /\ work.says = "saved" => landed[Update.arg] = 1
          /\ work.says \in {"rejected", "expired", "changed"} => Dead(Update.arg)

BotInv ==
    /\ TypeOK
    /\ OffsetStands
    /\ HandlersKnow
    /\ OneClaim
    /\ ClaimsAreConfirmed
    /\ RepliesHold
=============================================================================
