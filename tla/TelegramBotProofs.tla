-------------------------- MODULE TelegramBotProofs --------------------------
(***************************************************************************)
(* What the Telegram bot promises at every moment, for any number of users, *)
(* updates, previews, edits and mishaps.                                    *)
(***************************************************************************)
EXTENDS TelegramBot, TLAPS

\* The update being handled is one that was sent.
LEMMA UpdateIsSent ==
    ASSUME TypeOK, OffsetStands, last > Handled
    PROVE  /\ Handled \in Nat /\ Len(sent) \in Nat
           /\ Current \in Ids /\ Current \in 1..Len(sent)
           /\ Update \in Updates
           /\ Update.kind = "choose" => Update.arg \in Domains
           /\ Update.kind \in {"confirm", "reject"} => Update.arg \in Tokens
<1>1. Handled \in Nat /\ Len(sent) \in Nat /\ last \in Nat
  BY DEF TypeOK, TelegramOK, LoopOK, Handled
<1>2. Current \in 1..Len(sent) /\ Current \in Ids
  BY <1>1, BotAssumption DEF OffsetStands, Current, Ids, TypeOK, TelegramOK
<1>3. Update \in Asked
  BY <1>2 DEF Update, TypeOK, TelegramOK
<1>4. QED
  BY <1>1, <1>2, <1>3, BotAssumption

\* A busy handler has its update.
LEMMA BusyHasUpdate ==
    ASSUME OffsetStands, stage \in Busy
    PROVE  last > Handled
BY DEF OffsetStands

LEMMA Unexpired ==
    ASSUME TypeOK
    PROVE  /\ UnexpiredWrites \in [Tokens -> {"none", "pending", "lapsed"}]
           /\ UnexpiredQuestions \in [Users -> [of : Ids \cup {None}, lapsed : BOOLEAN]]
           /\ \A t \in Tokens : UnexpiredWrites[t] # "none" => writes[t] # "none"
BY DEF TypeOK, MemoryOK, UnexpiredWrites, UnexpiredQuestions, NoQuestion

\* One more update was sent.
LEMMA SentGrows ==
    ASSUME TypeOK, NEW a \in Asked, Send(a)
    PROVE  /\ sent' \in Seq(Asked) /\ Len(sent') = Len(sent) + 1 /\ Len(sent') <= MaxUpdates
           /\ \A i \in 1..Len(sent) : sent'[i] = sent[i]
BY BotAssumption DEF TypeOK, TelegramOK, Send

-----------------------------------------------------------------------------
(* Who changes what *)

LEMMA SentChanges ==
    ASSUME [Next]_vars
    PROVE  UNCHANGED sent \/ \E a \in Asked : Send(a)
BY DEF vars, telegramVars, memoryVars, wikiVars, Start, Fetch, Refuse, Static, List, Question, Voice,
       Heard, Choose, Propose, Press, Offered, Listed, Answered, Drafted, Read, Written, Fails,
       Deliver, Settle, Reconnect, Edit, Lapse, LandsLate, FetchFails, LoseSession, Exit, Send,
       Interrupted, Takes, Says, Ask, NoMemory, Elsewhere, PollOffset, Delivers, Forgotten, Next, Bot

\* Telegram forgets only what the loop has handled.
LEMMA DroppedChanges ==
    ASSUME [Next]_vars
    PROVE  UNCHANGED dropped \/ dropped' = Handled
BY DEF vars, telegramVars, memoryVars, wikiVars, Start, Fetch, Refuse, Static, List, Question, Voice,
       Heard, Choose, Propose, Press, Offered, Listed, Answered, Drafted, Read, Written, Fails,
       Deliver, Settle, Reconnect, Edit, Lapse, LandsLate, FetchFails, LoseSession, Exit, Send,
       Interrupted, Takes, Says, Ask, NoMemory, Elsewhere, PollOffset, Delivers, Forgotten, Next, Bot

\* Only the reply of the update in hand is delivered.
LEMMA ToldChanges ==
    ASSUME [Next]_vars
    PROVE  UNCHANGED <<told, shown>> \/ (stage = "replying" /\ Delivers)
BY DEF vars, telegramVars, memoryVars, wikiVars, Start, Fetch, Refuse, Static, List, Question, Voice,
       Heard, Choose, Propose, Press, Offered, Listed, Answered, Drafted, Read, Written, Fails,
       Deliver, Settle, Reconnect, Edit, Lapse, LandsLate, FetchFails, LoseSession, Exit, Send,
       Interrupted, Takes, Says, Ask, NoMemory, Elsewhere, PollOffset, Forgotten, Next, Bot

LEMMA StageChanges ==
    ASSUME [Next]_vars
    PROVE  UNCHANGED stage \/ stage' \in Stages
BY DEF vars, telegramVars, memoryVars, wikiVars, Start, Fetch, Refuse, Static, List, Question, Voice,
       Heard, Choose, Propose, Press, Offered, Listed, Answered, Drafted, Read, Written, Fails,
       Deliver, Settle, Reconnect, Edit, Lapse, LandsLate, FetchFails, LoseSession, Exit, Send,
       Interrupted, Takes, Says, Ask, NoMemory, Elsewhere, PollOffset, Delivers, Forgotten, Next, Bot, Stages, Awaits

Said(w) == work' = [work EXCEPT !.says = w]

LEMMA WorkChanges ==
    ASSUME [Next]_vars
    PROVE  \/ UNCHANGED work \/ work' = NoWork
           \/ \E w \in Words : Said(w)
           \/ /\ stage = "drafting"
              /\ \E t \in Tokens : work' = [work EXCEPT !.says = "preview", !.token = t]
           \/ /\ stage = "polling" /\ last > Handled /\ Update.kind = "confirm"
              /\ work' = [work EXCEPT !.token = Update.arg]
           \/ /\ stage = "hearing" \/ (stage = "polling" /\ last > Handled)
              /\ selected[Update.by] # None
              /\ work' = [work EXCEPT !.domain = selected[Update.by]]
           \/ /\ stage = "listing"
              /\ work' = [work EXCEPT !.domain = Update.arg]
           \/ work' = [work EXCEPT !.seen = version]
BY DEF vars, telegramVars, memoryVars, wikiVars, Start, Fetch, Refuse, Static, List, Question, Voice,
       Heard, Choose, Propose, Press, Offered, Listed, Answered, Drafted, Read, Written, Fails,
       Deliver, Settle, Reconnect, Edit, Lapse, LandsLate, FetchFails, LoseSession, Exit, Send,
       Interrupted, Takes, Says, Ask, NoMemory, Elsewhere, PollOffset, Delivers, Forgotten, Next, Bot, Said, Words, Unused

LEMMA LoopChanges ==
    ASSUME [Next]_vars
    PROVE  /\ UNCHANGED offset \/ offset' = 0 \/ (Settle /\ offset' = Current)
           /\ UNCHANGED last \/ last' = 0 \/ Fetch
           /\ UNCHANGED mishaps \/ mishaps' = mishaps + 1
BY DEF vars, telegramVars, memoryVars, wikiVars, Start, Fetch, Refuse, Static, List, Question, Voice,
       Heard, Choose, Propose, Press, Offered, Listed, Answered, Drafted, Read, Written, Fails,
       Deliver, Settle, Reconnect, Edit, Lapse, LandsLate, FetchFails, LoseSession, Exit, Send,
       Interrupted, Takes, Says, Ask, NoMemory, Elsewhere, PollOffset, Delivers, Forgotten, Next, Bot

LEMMA MemoryChanges ==
    ASSUME [Next]_vars
    PROVE  /\ UNCHANGED selected \/ selected' = [u \in Users |-> None] \/ Listed
           /\ \/ UNCHANGED question \/ question' = [u \in Users |-> NoQuestion]
              \/ question' = UnexpiredQuestions
              \/ Question \/ Heard \/ Listed \/ Lapse
           /\ \/ UNCHANGED writes \/ writes' = [t \in Tokens |-> "none"]
              \/ writes' = UnexpiredWrites
              \/ Press \/ Drafted \/ Lapse
BY DEF vars, telegramVars, memoryVars, wikiVars, Start, Fetch, Refuse, Static, List, Question, Voice,
       Heard, Choose, Propose, Press, Offered, Listed, Answered, Drafted, Read, Written, Fails,
       Deliver, Settle, Reconnect, Edit, Lapse, LandsLate, FetchFails, LoseSession, Exit, Send,
       Interrupted, Takes, Says, Ask, NoMemory, Elsewhere, PollOffset, Delivers, Forgotten, Next, Bot

LEMMA WikiChanges ==
    ASSUME [Next]_vars
    PROVE  /\ UNCHANGED preview \/ Drafted
           /\ UNCHANGED <<version, landed>> \/ Edit \/ Written \/ Fails
                 \/ \E t \in Tokens : LandsLate(t)
           /\ UNCHANGED late \/ LoseSession \/ Exit \/ \E t \in Tokens : LandsLate(t)
BY DEF vars, telegramVars, memoryVars, wikiVars, Start, Fetch, Refuse, Static, List, Question, Voice,
       Heard, Choose, Propose, Press, Offered, Listed, Answered, Drafted, Read, Written, Fails,
       Deliver, Settle, Reconnect, Edit, Lapse, LandsLate, FetchFails, LoseSession, Exit, Send,
       Interrupted, Takes, Says, Ask, NoMemory, Elsewhere, PollOffset, Delivers, Forgotten, Next, Bot
-----------------------------------------------------------------------------
(* Types *)

LEMMA WorkTypes ==
    ASSUME TypeOK
    PROVE  /\ work.token \in Tokens \cup {None} /\ work.says \in Words \cup {None}
           /\ work.seen \in Nat \cup {None}
           /\ NoWork \in Works
           /\ \A w \in Words : [work EXCEPT !.says = w] \in Works
           /\ \A t \in Tokens : [work EXCEPT !.token = t] \in Works
           /\ \A t \in Tokens : [work EXCEPT !.says = "preview", !.token = t] \in Works
           /\ \A d \in Domains : [work EXCEPT !.domain = d] \in Works
           /\ [work EXCEPT !.seen = version] \in Works
BY ZenonT(40) DEF TypeOK, LoopOK, WikiOK, Works, NoWork, Words

LEMMA TelegramKept ==
    ASSUME BotInv, [Next]_vars
    PROVE  TelegramOK'
<1>a. TypeOK /\ OffsetStands /\ TelegramOK
  BY DEF BotInv, TypeOK
<1>1. sent' \in Seq(Asked) /\ Len(sent') <= MaxUpdates
  BY <1>a, SentChanges, SentGrows DEF TelegramOK
<1>2. dropped' \in Nat
  BY <1>a, DroppedChanges DEF TelegramOK, TypeOK, LoopOK, Handled
<1>3. told' \in [Ids -> SUBSET Words] /\ shown' \subseteq Tokens
  <2>1. CASE UNCHANGED <<told, shown>>
    BY <1>a, <2>1 DEF TelegramOK
  <2>2. CASE stage = "replying" /\ Delivers
    <3>1. Current \in Ids
      BY <1>a, <2>2, UpdateIsSent, BusyHasUpdate DEF Busy
    <3>2. work.says \in Words /\ (work.says = "preview" => work.token \in Tokens)
      BY <1>a, <2>2, WorkTypes DEF BotInv, HandlersKnow
    <3>3. told[Current] \cup {work.says} \in SUBSET Words
      BY <1>a, <3>1, <3>2 DEF TelegramOK
    <3>4. told' \in [Ids -> SUBSET Words]
      BY <1>a, <2>2, <3>1, <3>3 DEF Delivers, TelegramOK
    <3>5. QED
      BY <1>a, <2>2, <3>2, <3>4 DEF Delivers, TelegramOK
  <2>3. QED
    BY <2>1, <2>2, ToldChanges
<1>4. QED
  BY <1>1, <1>2, <1>3 DEF TelegramOK

LEMMA LoopKept ==
    ASSUME BotInv, [Next]_vars
    PROVE  LoopOK'
<1>a. TypeOK /\ OffsetStands /\ LoopOK /\ MemoryOK
  BY DEF BotInv, TypeOK
<1>b. Handled \in Nat /\ Len(sent) \in Nat
  BY <1>a DEF TypeOK, TelegramOK, LoopOK, Handled
<1>1. stage' \in Stages
  BY <1>a, StageChanges DEF LoopOK
<1>2. work' \in Works
  <2>1. CASE /\ stage = "polling" /\ last > Handled /\ Update.kind = "confirm"
             /\ work' = [work EXCEPT !.token = Update.arg]
    BY <1>a, <2>1, WorkTypes, UpdateIsSent
  <2>2. CASE /\ stage = "hearing" \/ (stage = "polling" /\ last > Handled)
             /\ selected[Update.by] # None
             /\ work' = [work EXCEPT !.domain = selected[Update.by]]
    <3>1. Update.by \in Users
      BY <1>a, <2>2, UpdateIsSent, BusyHasUpdate DEF Busy, Updates
    <3>2. selected[Update.by] \in Domains
      BY <1>a, <2>2, <3>1 DEF MemoryOK
    <3>3. QED
      BY <1>a, <2>2, <3>2, WorkTypes
  <2>3. CASE stage = "listing" /\ work' = [work EXCEPT !.domain = Update.arg]
    <3>1. Update.arg \in Domains
      BY <1>a, <2>3, UpdateIsSent, BusyHasUpdate DEF Busy, Awaits, BotInv, HandlersKnow
    <3>2. QED
      BY <1>a, <2>3, <3>1, WorkTypes
  <2>4. QED
    BY <1>a, <2>1, <2>2, <2>3, WorkTypes, WorkChanges DEF LoopOK, Said
<1>3. offset' \in Nat
  BY <1>a, <1>b, LoopChanges DEF LoopOK, Current
<1>4. last' \in Nat
  BY <1>a, <1>b, LoopChanges DEF LoopOK, Fetch
<1>5. mishaps' \in Nat
  BY <1>a, LoopChanges DEF LoopOK
<1>6. QED
  BY <1>1, <1>2, <1>3, <1>4, <1>5 DEF LoopOK

QuestionType == [of : Ids \cup {None}, lapsed : BOOLEAN]

LEMMA MemoryKept ==
    ASSUME BotInv, [Next]_vars
    PROVE  MemoryOK'
<1>a. TypeOK /\ OffsetStands /\ MemoryOK
  BY DEF BotInv, TypeOK
<1>b. stage \in Busy \/ last > Handled => Current \in Ids /\ Update.by \in Users
  BY <1>a, UpdateIsSent, BusyHasUpdate DEF Updates
<1>c. NoQuestion \in QuestionType /\ \A i \in Ids : [of |-> i, lapsed |-> FALSE] \in QuestionType
  BY DEF QuestionType, NoQuestion
<1>d. UnexpiredQuestions \in [Users -> QuestionType] /\ question \in [Users -> QuestionType]
  BY <1>a, Unexpired DEF MemoryOK, QuestionType
<1>1. selected' \in [Users -> Domains \cup {None}]
  <2>1. CASE Listed
    <3>1. Update.arg \in Domains
      BY <1>a, <2>1, UpdateIsSent, BusyHasUpdate DEF Busy, Awaits, BotInv, HandlersKnow, Listed
    <3>2. QED
      BY <1>a, <1>b, <2>1, <3>1 DEF MemoryOK, Listed, NoMemory, memoryVars, Busy, Awaits
  <2>2. QED
    BY <1>a, <2>1, MemoryChanges DEF MemoryOK
<1>2. question' \in [Users -> QuestionType]
  <2>1. ASSUME Ask, stage \in Busy \/ last > Handled
        PROVE  question' \in [Users -> QuestionType]
    <3>1. [of |-> Current, lapsed |-> FALSE] \in QuestionType
      BY <1>b, <1>c, <2>1
    <3>2. QED
      BY <1>b, <1>d, <2>1, <3>1 DEF Ask
  <2>2. CASE Question
    BY <2>1, <2>2 DEF Question, Takes
  <2>3. CASE Heard
    BY <1>d, <2>1, <2>3 DEF Heard, Busy, NoMemory, memoryVars
  <2>4. CASE Listed
    BY <1>c, <1>d, <2>4 DEF Listed, NoMemory, memoryVars
  <2>5. CASE Lapse
    <3>1. \A u \in Users : [question[u] EXCEPT !.lapsed = TRUE] \in QuestionType
      BY <1>d DEF QuestionType
    <3>2. QED
      BY <1>d, <2>5, <3>1 DEF Lapse
  <2>6. QED
    BY <1>c, <1>d, <2>2, <2>3, <2>4, <2>5, MemoryChanges
<1>3. writes' \in [Tokens -> {"none", "pending", "lapsed"}]
  BY <1>a, MemoryChanges, Unexpired DEF MemoryOK, Press, Consumed, Drafted, Lapse
<1>4. QED
  BY <1>1, <1>2, <1>3 DEF MemoryOK, QuestionType

LEMMA WikiKept ==
    ASSUME BotInv, [Next]_vars
    PROVE  WikiOK'
<1>a. TypeOK /\ OffsetStands /\ WikiOK
  BY DEF BotInv, TypeOK
<1>1. preview' \in [Tokens -> Previews \cup {None}]
  <2>1. CASE Drafted
    <3>1. Update.by \in Users /\ Update.kind \in {"create", "update"}
      BY <1>a, <2>1, UpdateIsSent, BusyHasUpdate
         DEF Busy, Awaits, BotInv, HandlersKnow, Drafted, Updates
    <3>2. [by |-> Update.by, does |-> Update.kind] \in Previews
      BY <3>1 DEF Previews
    <3>3. QED
      BY <1>a, <2>1, <3>2 DEF WikiOK, Drafted
  <2>2. QED
    BY <1>a, <2>1, WikiChanges DEF WikiOK
<1>2. version' \in Nat /\ landed' \in [Tokens -> Nat]
  <2>1. ASSUME NEW t \in Tokens, Lands(t)
        PROVE  version' \in Nat /\ landed' \in [Tokens -> Nat]
    <3>1. version' \in Nat
      BY <1>a, <2>1 DEF WikiOK, Lands
    <3>2. landed' \in [Tokens -> Nat]
      BY <1>a, <2>1 DEF WikiOK, Lands
    <3>3. QED
      BY <3>1, <3>2
  <2>2. CASE Edit
    BY <1>a, <2>2 DEF WikiOK, Edit
  <2>3. stage = "writing" => work.token \in Tokens
    BY <1>a, UpdateIsSent, BusyHasUpdate DEF Busy, Awaits, BotInv, HandlersKnow
  <2>4. QED
    BY <1>a, <2>1, <2>2, <2>3, WikiChanges DEF WikiOK, Written, Fails, LandsLate
<1>3. late' \in [Tokens -> Requests \cup {None}]
  <2>1. [seen |-> work.seen] \in Requests
    BY <1>a, WorkTypes DEF Requests
  <2>2. QED
    BY <1>a, <2>1, WikiChanges DEF WikiOK, LoseSession, Exit, Interrupted, LandsLate
<1>4. QED
  BY <1>1, <1>2, <1>3 DEF WikiOK

LEMMA TypeKept ==
    ASSUME BotInv, [Next]_vars
    PROVE  TypeOK'
BY TelegramKept, LoopKept, MemoryKept, WikiKept DEF TypeOK

-----------------------------------------------------------------------------
(* The offset *)

\* What was sent stays, and so does what was delivered.
LEMMA TelegramGrows ==
    ASSUME BotInv, [Next]_vars
    PROVE  /\ Len(sent) \in Nat /\ Len(sent') \in Nat /\ Len(sent) <= Len(sent')
           /\ \A i \in 1..Len(sent) : sent'[i] = sent[i]
           /\ \A i \in Ids : told[i] \subseteq told'[i]
           /\ \A i \in Ids : told'[i] # told[i] => i = Current /\ stage = "replying"
           /\ 1..Len(sent) \subseteq Ids
<1>a. TypeOK /\ OffsetStands /\ TelegramOK
  BY DEF BotInv, TypeOK
<1>1. CASE UNCHANGED sent
  BY <1>a, <1>1, ToldChanges, BotAssumption DEF TelegramOK, Delivers, Ids
<1>2. CASE \E a \in Asked : Send(a)
  <2>1. PICK a \in Asked : Send(a)
    BY <1>2
  <2>2. told' = told
    BY <2>1 DEF Send
  <2>3. Len(sent) \in Nat /\ 1..Len(sent) \subseteq Ids
    BY <1>a, BotAssumption DEF TelegramOK, Ids
  <2>4. QED
    BY <1>a, <2>1, <2>2, <2>3, SentGrows
<1>3. QED
  BY <1>1, <1>2, SentChanges

\* How far the loop has come: it goes on with the update it has settled, and
\* after an end of the process back to what Telegram remembers.
LEMMA HandledChanges ==
    ASSUME TypeOK, [Next]_vars
    PROVE  \/ Handled' = Handled
           \/ Handled' <= Handled /\ Handled' \in Nat /\ Exit
           \/ Handled' = Current /\ Settle
<1>a. offset \in Nat /\ dropped \in Nat
  BY DEF TypeOK, TelegramOK, LoopOK
<1>1. CASE Settle
  BY <1>a, <1>1 DEF Settle, Handled, Current, telegramVars
<1>2. CASE Exit
  BY <1>a, <1>2 DEF Exit, Interrupted, Handled
<1>3. CASE UNCHANGED offset
  BY <1>a, <1>3, DroppedChanges DEF Handled
<1>4. UNCHANGED offset \/ Settle \/ Exit
  BY DEF vars, telegramVars, memoryVars, wikiVars, Start, Fetch, Refuse, Static, List, Question, Voice,
       Heard, Choose, Propose, Press, Offered, Listed, Answered, Drafted, Read, Written, Fails,
       Deliver, Settle, Reconnect, Edit, Lapse, LandsLate, FetchFails, LoseSession, Exit, Send,
       Interrupted, Takes, Says, Ask, NoMemory, Elsewhere, PollOffset, Delivers, Forgotten, Next, Bot
<1>5. QED
  BY <1>1, <1>2, <1>3, <1>4

\* A handler is entered with an update of the batch, which it keeps.
LEMMA BusyChanges ==
    ASSUME [Next]_vars, stage' \in Busy
    PROVE  /\ stage \in Busy \/ (stage = "polling" /\ last > Handled)
           /\ UNCHANGED <<offset, last, dropped>>
           /\ stage' = "settling" => stage = "settling" \/ Deliver
BY DEF vars, telegramVars, memoryVars, wikiVars, Start, Fetch, Refuse, Static, List, Question, Voice,
       Heard, Choose, Propose, Press, Offered, Listed, Answered, Drafted, Read, Written, Fails,
       Deliver, Settle, Reconnect, Edit, Lapse, LandsLate, FetchFails, LoseSession, Exit, Send,
       Interrupted, Takes, Says, Ask, NoMemory, Elsewhere, PollOffset, Delivers, Forgotten, Next, Bot, Busy, Awaits

LEMMA OffsetKept ==
    ASSUME BotInv, [Next]_vars
    PROVE  OffsetStands'
<1>a. TypeOK /\ OffsetStands /\ Handled \in Nat /\ last \in Nat
  BY DEF BotInv, TypeOK, TelegramOK, LoopOK, Handled
<1>b. stage \in Busy \/ last > Handled => Current \in Ids /\ Current \in 1..Len(sent)
  BY <1>a, UpdateIsSent, BusyHasUpdate
<1>1. Handled' <= Len(sent')
  BY <1>a, <1>b, HandledChanges, TelegramGrows DEF OffsetStands, Settle, Busy
<1>2. last' <= Len(sent')
  BY <1>a, LoopChanges, TelegramGrows DEF OffsetStands, Fetch
<1>3. \A i \in Ids : told'[i] # {} => i <= Len(sent')
  BY <1>a, <1>b, TelegramGrows DEF OffsetStands, Busy, Ids
<1>4. \A i \in 1..Handled' : told'[i] # {}
  <2>1. 1..Handled \subseteq Ids /\ \A i \in 1..Handled : told'[i] # {}
    BY <1>a, TelegramGrows DEF OffsetStands
  <2>2. Settle => told'[Current] # {}
    BY <1>a, <1>b, TelegramGrows DEF OffsetStands, Settle, Busy
  <2>3. QED
    BY <1>a, <2>1, <2>2, HandledChanges DEF Current
<1>5. stage' \in Busy => last' > Handled'
  BY <1>a, BusyChanges DEF OffsetStands, Handled
<1>6. stage' = "settling" => told'[Current'] # {}
  <2>1. SUFFICES ASSUME stage' = "settling"
                 PROVE  told'[Current'] # {}
    OBVIOUS
  <2>2. Current' = Current /\ Current \in Ids
    BY <1>a, <1>b, <2>1, BusyChanges DEF Busy, Current, Handled
  <2>3. CASE stage = "settling"
    BY <1>a, <2>2, <2>3, TelegramGrows DEF OffsetStands
  <2>4. CASE Deliver
    BY <1>a, <2>2, <2>4 DEF Deliver, Delivers, TypeOK, TelegramOK
  <2>5. QED
    BY <2>1, <2>3, <2>4, BusyChanges DEF Busy
<1>7. QED
  BY <1>1, <1>2, <1>3, <1>4, <1>5, <1>6 DEF OffsetStands

-----------------------------------------------------------------------------
(* Handlers *)

\* A handler keeps its update.
LEMMA SameUpdate ==
    ASSUME BotInv, [Next]_vars, stage' \in Busy
    PROVE  Current \in 1..Len(sent) /\ Current' = Current /\ Update' = Update
<1>a. TypeOK /\ OffsetStands
  BY DEF BotInv
<1>1. Current \in 1..Len(sent)
  BY <1>a, UpdateIsSent, BusyHasUpdate, BusyChanges
<1>2. Current' = Current
  BY BusyChanges DEF Current, Handled
<1>3. QED
  BY <1>1, <1>2, TelegramGrows DEF Update

LEMMA Entries ==
    ASSUME [Next]_vars
    PROVE  /\ stage' = "listing" => stage = "listing" \/ Update.kind = "choose"
           /\ stage' = "drafting" =>
                 stage = "drafting" \/ (Update.by \in Allowed /\ Update.kind \in {"create", "update"})
           /\ stage' \in {"reading", "writing"} => UNCHANGED <<stage, work>> \/ Press \/ Read
           /\ stage' = "replying" =>
                 UNCHANGED <<stage, work>> \/ Drafted \/ \E w \in Words \ {"preview"} : Said(w)
BY DEF vars, telegramVars, memoryVars, wikiVars, Start, Fetch, Refuse, Static, List, Question, Voice,
       Heard, Choose, Propose, Press, Offered, Listed, Answered, Drafted, Read, Written, Fails,
       Deliver, Settle, Reconnect, Edit, Lapse, LandsLate, FetchFails, LoseSession, Exit, Send,
       Interrupted, Takes, Says, Ask, NoMemory, Elsewhere, PollOffset, Delivers, Forgotten, Next, Bot, Said, Words

LEMMA HandlersKept ==
    ASSUME BotInv, [Next]_vars
    PROVE  HandlersKnow'
<1>a. TypeOK /\ OffsetStands /\ HandlersKnow /\ work \in Works
  BY DEF BotInv, TypeOK, LoopOK
<1>1. stage' = "listing" => Update'.kind = "choose"
  BY <1>a, Entries, SameUpdate DEF HandlersKnow, Busy, Awaits
<1>2. stage' = "drafting" => Update'.by \in Allowed /\ Update'.kind \in {"create", "update"}
  BY <1>a, Entries, SameUpdate DEF HandlersKnow, Busy, Awaits
<1>3. stage' \in {"reading", "writing"} => Update'.kind = "confirm" /\ Update'.arg = work'.token
  <2>1. SUFFICES ASSUME stage' \in {"reading", "writing"}
                 PROVE  Update'.kind = "confirm" /\ Update'.arg = work'.token
    OBVIOUS
  <2>2. Update' = Update
    BY <2>1, SameUpdate DEF Busy, Awaits
  <2>3. CASE UNCHANGED <<stage, work>>
    BY <1>a, <2>1, <2>2, <2>3 DEF HandlersKnow
  <2>4. CASE Press
    BY <1>a, <2>1, <2>2, <2>4 DEF Press, Takes, Says, Works
  <2>5. CASE Read
    BY <1>a, <2>1, <2>2, <2>5 DEF HandlersKnow, Read, Says, Works
  <2>6. QED
    BY <2>1, <2>3, <2>4, <2>5, Entries
<1>4. stage' = "replying" => work'.says \in Words /\ (work'.says = "preview" => work'.token \in Tokens)
  <2>1. SUFFICES ASSUME stage' = "replying"
                 PROVE  work'.says \in Words /\ (work'.says = "preview" => work'.token \in Tokens)
    OBVIOUS
  <2>3. CASE UNCHANGED <<stage, work>>
    BY <1>a, <2>1, <2>3 DEF HandlersKnow
  <2>4. CASE Drafted
    BY <1>a, <2>1, <2>4 DEF Drafted, Says, Works, Unused, Words
  <2>5. CASE \E w \in Words \ {"preview"} : Said(w)
    BY <1>a, <2>1, <2>5 DEF Said, Works
  <2>6. QED
    BY <2>1, <2>3, <2>4, <2>5, Entries
<1>5. QED
  BY <1>1, <1>2, <1>3, <1>4 DEF HandlersKnow

-----------------------------------------------------------------------------
(* Claims: who may still make a change *)

\* A preview is stored with a new token, and stays.
LEMMA PreviewMoves ==
    ASSUME BotInv, [Next]_vars, NEW t \in Tokens
    PROVE  \/ UNCHANGED preview[t]
           \/ /\ preview[t] = None /\ preview'[t] \in Previews
              /\ preview'[t].by \in Allowed
              /\ UNCHANGED <<landed, late>> /\ stage = "drafting" /\ stage' = "replying"
<1>a. TypeOK /\ OffsetStands /\ WikiOK
  BY DEF BotInv, TypeOK
<1>1. CASE Drafted
  <2>1. Update.by \in Allowed /\ Update.by \in Users /\ Update.kind \in {"create", "update"}
    BY <1>a, <1>1, UpdateIsSent, BusyHasUpdate
       DEF Busy, Awaits, BotInv, HandlersKnow, Drafted, Updates
  <2>2. /\ [by |-> Update.by, does |-> Update.kind] \in Previews
        /\ [by |-> Update.by, does |-> Update.kind].by \in Allowed
    BY <2>1 DEF Previews
  <2>3. UNCHANGED preview[t] \/ (/\ preview[t] = None
                                 /\ preview'[t] = [by |-> Update.by, does |-> Update.kind]
                                 /\ stage' = "replying")
    BY <1>a, <1>1 DEF Drafted, Unused, Says, WikiOK
  <2>4. QED
    BY <1>1, <2>2, <2>3 DEF Drafted, wikiVars
<1>2. QED
  BY <1>1, WikiChanges

\* A token becomes pending when its preview is stored.
LEMMA PendingMoves ==
    ASSUME BotInv, [Next]_vars, NEW t \in Tokens, writes'[t] # "none"
    PROVE  writes[t] # "none" \/ (preview[t] = None /\ preview'[t] # None)
<1>a. TypeOK /\ OffsetStands /\ MemoryOK /\ WikiOK
  BY DEF BotInv, TypeOK
<1>1. CASE Drafted
  <2>1. [by |-> Update.by, does |-> Update.kind] \in Previews
    BY <1>a, <1>1, UpdateIsSent, BusyHasUpdate
       DEF Busy, Awaits, BotInv, HandlersKnow, Drafted, Updates, Previews
  <2>2. QED
    BY <1>a, <1>1, <2>1, BotAssumption DEF Drafted, Unused, MemoryOK, WikiOK
<1>2. CASE Press
  BY <1>a, <1>2 DEF Press, Consumed, MemoryOK
<1>3. CASE Lapse
  BY <1>a, <1>3 DEF Lapse, MemoryOK
<1>4. QED
  BY <1>a, <1>1, <1>2, <1>3, MemoryChanges, Unexpired

\* A change comes into the hand of a handler when its preview is confirmed by
\* the user it is for, and is not pending then.
LEMMA HandMoves ==
    ASSUME BotInv, [Next]_vars, NEW t \in Tokens, InHand(t)'
    PROVE  /\ UNCHANGED <<landed[t], late[t]>>
           /\ \/ InHand(t)
              \/ /\ writes[t] # "none" /\ writes'[t] = "none"
                 /\ Current \in 1..Len(sent)
                 /\ Update.kind = "confirm" /\ Update.arg = t /\ Update.by = preview[t].by
<1>a. TypeOK /\ OffsetStands /\ MemoryOK /\ work \in Works
  BY DEF BotInv, TypeOK, LoopOK
<1>b. stage' \in {"reading", "writing"} /\ work'.token = t
  BY DEF InHand
<1>c. Current \in 1..Len(sent)
  BY <1>b, SameUpdate DEF Busy, Awaits
<1>1. UNCHANGED <<landed[t], late[t]>>
  <2>1. UNCHANGED <<landed, late>> \/ \E x \in Tokens : LandsLate(x)
    BY <1>b DEF vars, telegramVars, memoryVars, wikiVars, Start, Fetch, Refuse, Static, List, Question, Voice,
       Heard, Choose, Propose, Press, Offered, Listed, Answered, Drafted, Read, Written, Fails,
       Deliver, Settle, Reconnect, Edit, Lapse, FetchFails, LoseSession, Exit, Send,
       Interrupted, Takes, Says, Ask, NoMemory, Elsewhere, PollOffset, Delivers, Forgotten, Next, Bot
  <2>2. ASSUME NEW x \in Tokens, LandsLate(x)
        PROVE  UNCHANGED <<landed[t], late[t]>>
    BY <1>b, <2>2 DEF LandsLate, Lands, InHand, BotInv, OneClaim, TypeOK, WikiOK
  <2>3. QED
    BY <2>1, <2>2
<1>2. CASE UNCHANGED <<stage, work>>
  BY <1>1, <1>2 DEF InHand
<1>3. CASE Read
  BY <1>a, <1>b, <1>1, <1>3 DEF Read, Says, Works, InHand
<1>4. CASE Press
  BY <1>a, <1>b, <1>c, <1>1, <1>4 DEF Press, Takes, Says, Works, Consumed, MemoryOK
<1>5. QED
  BY <1>b, <1>2, <1>3, <1>4, Entries

\* A request is given up while its handler writes.
LEMMA LateMoves ==
    ASSUME BotInv, [Next]_vars, NEW t \in Tokens
    PROVE  \/ UNCHANGED late[t]
           \/ late'[t] = None
           \/ InHand(t) /\ ~InHand(t)' /\ UNCHANGED landed
<1>a. WikiOK
  BY DEF BotInv, TypeOK
<1>1. CASE LoseSession
  BY <1>a, <1>1 DEF LoseSession, Interrupted, InHand, WikiOK
<1>2. CASE Exit
  BY <1>a, <1>2 DEF Exit, Interrupted, InHand, WikiOK
<1>3. ASSUME NEW x \in Tokens, LandsLate(x)
      PROVE  UNCHANGED late[t] \/ late'[t] = None
  BY <1>a, <1>3 DEF LandsLate, WikiOK
<1>4. QED
  BY <1>1, <1>2, <1>3, WikiChanges

\* A change is made by the handler that has it in hand, which lets go of it, or
\* by its late request, which is served once.
LEMMA LandedMoves ==
    ASSUME BotInv, [Next]_vars, NEW t \in Tokens
    PROVE  \/ UNCHANGED landed[t]
           \/ /\ landed'[t] = landed[t] + 1
              /\ UNCHANGED writes[t]
              /\ \/ InHand(t) /\ ~InHand(t)' /\ UNCHANGED late[t]
                 \/ late[t] # None /\ late'[t] = None /\ UNCHANGED <<stage, work>>
<1>a. WikiOK
  BY DEF BotInv, TypeOK
<1>1. CASE Written
  BY <1>a, <1>1 DEF Written, Says, Lands, InHand, WikiOK, NoMemory, memoryVars
<1>2. CASE Fails
  BY <1>a, <1>2 DEF Fails, Says, Lands, InHand, WikiOK, NoMemory, memoryVars
<1>3. ASSUME NEW x \in Tokens, LandsLate(x)
      PROVE  \/ UNCHANGED landed[t]
             \/ /\ landed'[t] = landed[t] + 1
                /\ UNCHANGED writes[t]
                /\ late[t] # None /\ late'[t] = None /\ UNCHANGED <<stage, work>>
  BY <1>a, <1>3 DEF LandsLate, Lands, WikiOK, memoryVars
<1>4. CASE Edit
  BY <1>4 DEF Edit
<1>5. QED
  BY <1>1, <1>2, <1>3, <1>4, WikiChanges

LEMMA OneClaimKept ==
    ASSUME BotInv, [Next]_vars
    PROVE  OneClaim'
<1> SUFFICES ASSUME NEW t \in Tokens
             PROVE  /\ landed'[t] <= 1
                    /\ writes'[t] # "none" => landed'[t] = 0 /\ late'[t] = None /\ ~InHand(t)'
                    /\ InHand(t)' => landed'[t] = 0 /\ late'[t] = None
                    /\ late'[t] # None => landed'[t] = 0
  BY DEF OneClaim
<1>a. /\ landed[t] \in Nat /\ landed[t] <= 1
      /\ writes[t] # "none" => landed[t] = 0 /\ late[t] = None /\ ~InHand(t)
      /\ InHand(t) => landed[t] = 0 /\ late[t] = None
      /\ late[t] # None => landed[t] = 0
  BY DEF BotInv, OneClaim, TypeOK, WikiOK
<1>b. preview[t] = None => landed[t] # 1 /\ late[t] = None /\ ~InHand(t) /\ writes[t] = "none"
  BY DEF BotInv, ClaimsAreConfirmed
<1>1. landed'[t] <= 1
  BY <1>a, LandedMoves
<1>2. InHand(t)' => landed'[t] = 0 /\ late'[t] = None
  BY <1>a, HandMoves
<1>3. late'[t] # None => landed'[t] = 0
  BY <1>a, LateMoves, LandedMoves
<1>4. writes'[t] # "none" => landed'[t] = 0 /\ late'[t] = None /\ ~InHand(t)'
  <2>1. SUFFICES ASSUME writes'[t] # "none"
                 PROVE  landed'[t] = 0 /\ late'[t] = None /\ ~InHand(t)'
    OBVIOUS
  <2>2. ~InHand(t) /\ late[t] = None /\ landed[t] = 0
    BY <1>a, <1>b, <2>1, PendingMoves
  <2>3. ~InHand(t)'
    BY <2>1, <2>2, HandMoves
  <2>4. QED
    BY <2>2, <2>3, LateMoves, LandedMoves
<1>5. QED
  BY <1>1, <1>2, <1>3, <1>4

LEMMA ConfirmedKept ==
    ASSUME BotInv, [Next]_vars
    PROVE  ClaimsAreConfirmed'
<1> SUFFICES ASSUME NEW t \in Tokens
             PROVE  /\ preview'[t] # None => preview'[t].by \in Allowed
                    /\ writes'[t] # "none" => preview'[t] # None
                    /\ InHand(t)' \/ late'[t] # None \/ landed'[t] = 1 =>
                          preview'[t] # None /\ Presses(t, "confirm")' # {}
  BY DEF ClaimsAreConfirmed
<1>a. /\ preview[t] # None => preview[t].by \in Allowed
      /\ writes[t] # "none" => preview[t] # None
      /\ InHand(t) \/ late[t] # None \/ landed[t] = 1 =>
            preview[t] # None /\ Presses(t, "confirm") # {}
      /\ landed[t] \in Nat
  BY DEF BotInv, ClaimsAreConfirmed, TypeOK, WikiOK
<1>1. preview'[t] # None => preview'[t].by \in Allowed
  BY <1>a, PreviewMoves
<1>2. preview[t] # None => preview'[t] = preview[t]
  BY PreviewMoves
<1>3. writes'[t] # "none" => preview'[t] # None
  BY <1>a, <1>2, PendingMoves
<1>4. preview[t] # None /\ Presses(t, "confirm") # {} => Presses(t, "confirm")' # {}
  <2>1. SUFFICES ASSUME preview[t] # None, NEW i \in Presses(t, "confirm")
                 PROVE  i \in Presses(t, "confirm")'
    OBVIOUS
  <2>2. QED
    BY <1>2, <2>1, TelegramGrows DEF Presses
<1>5. CASE InHand(t)'
  <2>1. CASE InHand(t)
    BY <1>a, <1>2, <1>4, <2>1
  <2>2. CASE /\ writes[t] # "none"
             /\ Current \in 1..Len(sent)
             /\ Update.kind = "confirm" /\ Update.arg = t /\ Update.by = preview[t].by
    <3>1. Current \in Presses(t, "confirm")
      BY <2>2 DEF Presses, Update
    <3>2. QED
      BY <1>a, <1>1, <1>2, <1>3, <1>4, <2>2, <3>1
  <2>3. QED
    BY <1>5, <2>1, <2>2, HandMoves
<1>6. CASE late'[t] # None
  BY <1>a, <1>2, <1>4, <1>6, LateMoves
<1>7. CASE landed'[t] = 1
  BY <1>a, <1>2, <1>4, <1>7, LandedMoves
<1>8. QED
  BY <1>1, <1>3, <1>5, <1>6, <1>7

-----------------------------------------------------------------------------
(* Replies *)

LEMMA DeadStays ==
    ASSUME BotInv, [Next]_vars, NEW t \in Tokens, Dead(t)
    PROVE  Dead(t)'
<1>a. /\ preview[t] # None /\ writes[t] = "none" /\ ~InHand(t) /\ late[t] = None
      /\ landed[t] = 0
  BY DEF Dead
<1>1. preview'[t] # None /\ writes'[t] = "none"
  BY <1>a, PreviewMoves, PendingMoves
<1>2. ~InHand(t)' /\ late'[t] = None
  BY <1>a, HandMoves, LateMoves
<1>3. landed'[t] = 0
  BY <1>a, LandedMoves
<1>4. QED
  BY <1>1, <1>2, <1>3 DEF Dead, InHand

LEMMA LandedStays ==
    ASSUME BotInv, [Next]_vars, NEW t \in Tokens, landed[t] = 1
    PROVE  landed'[t] = 1
BY LandedMoves, OneClaimKept DEF OneClaim

Verdicts == {"saved", "rejected", "expired", "changed"}

\* Who gives a verdict on a change.
LEMMA VerdictsGiven ==
    ASSUME TypeOK, [Next]_vars, stage' = "replying", work'.says \in Verdicts
    PROVE  UNCHANGED <<stage, work>> \/ Press \/ Written
<1>1. work \in Works
  BY DEF TypeOK, LoopOK
<1>2. UNCHANGED <<stage, work>> \/ Press \/ Written \/ work'.says \notin Verdicts
  BY <1>1 DEF vars, telegramVars, memoryVars, wikiVars, Start, Fetch, Refuse, Static, List, Question, Voice,
       Heard, Choose, Propose, Press, Offered, Listed, Answered, Drafted, Read, Written, Fails,
       Deliver, Settle, Reconnect, Edit, Lapse, LandsLate, FetchFails, LoseSession, Exit, Send,
       Interrupted, Takes, Says, Ask, NoMemory, Elsewhere, PollOffset, Delivers, Forgotten, Next, Bot, Works, Verdicts
<1>3. QED
  BY <1>2

\* A verdict is true when it is chosen.
LEMMA VerdictsAreTrue ==
    ASSUME BotInv, [Next]_vars, stage' = "replying", Update'.kind \in {"confirm", "reject"},
           NEW t \in Tokens, t = Update'.arg
    PROVE  /\ work'.says = "saved" => landed'[t] = 1
           /\ work'.says \in {"rejected", "expired", "changed"} => Dead(t)'
<1>a. TypeOK /\ OffsetStands /\ MemoryOK /\ WikiOK /\ work \in Works /\ OneClaim
  BY DEF BotInv, TypeOK, LoopOK
<1>b. Current \in 1..Len(sent) /\ Update' = Update
  BY SameUpdate DEF Busy
<1>c. t = Update.arg
  BY <1>b
<1>1. CASE UNCHANGED <<stage, work>>
  <2>1. /\ work.says = "saved" => landed[t] = 1
        /\ work.says \in {"rejected", "expired", "changed"} => Dead(t)
    BY <1>b, <1>c, <1>1 DEF BotInv, RepliesHold
  <2>2. QED
    BY <2>1, <1>1, DeadStays, LandedStays
<1>2. CASE Press /\ work'.says \in Verdicts
  <2>1. /\ writes[t] # "none" /\ preview[t].by = Update.by /\ writes'[t] = "none"
        /\ work'.says \in {"rejected", "expired"}
        /\ UNCHANGED <<preview, wikiVars>>
    BY <1>a, <1>b, <1>c, <1>2 DEF Press, Says, Consumed, MemoryOK, Works, Verdicts
  <2>2. preview[t] # None
    BY <1>c, <2>1 DEF BotInv, ClaimsAreConfirmed
  <2>3. landed[t] = 0 /\ late[t] = None
    BY <1>a, <1>c, <2>1 DEF OneClaim
  <2>4. Dead(t)'
    BY <1>b, <2>1, <2>2, <2>3 DEF Dead, InHand, wikiVars
  <2>5. QED
    BY <2>1, <2>4
<1>3. CASE Written
  <2>1. InHand(t)
    BY <1>a, <1>c, <1>3 DEF BotInv, HandlersKnow, InHand, Written
  <2>2. landed[t] = 0 /\ late[t] = None /\ writes[t] = "none" /\ preview[t] # None
    BY <1>a, <2>1 DEF BotInv, OneClaim, ClaimsAreConfirmed
  <2>3. CASE work'.says = "saved"
    <3>1. landed'[t] = 1
      BY <1>a, <1>3, <2>1, <2>2, <2>3 DEF Written, Says, Lands, Works, InHand, WikiOK
    <3>2. QED
      BY <2>3, <3>1
  <2>4. CASE work'.says = "changed"
    <3>1. UNCHANGED <<landed, late, writes, preview>>
      BY <1>a, <1>3, <2>4 DEF Written, Says, Works, NoMemory, memoryVars
    <3>2. Dead(t)'
      BY <2>2, <3>1 DEF Dead, InHand
    <3>3. QED
      BY <2>4, <3>2
  <2>5. work'.says \in {"saved", "changed"}
    BY <1>a, <1>3 DEF Written, Says, Works
  <2>6. QED
    BY <2>3, <2>4, <2>5
<1>4. QED
  BY <1>a, <1>1, <1>2, <1>3, VerdictsGiven DEF Verdicts

LEMMA RepliesKept ==
    ASSUME BotInv, [Next]_vars
    PROVE  RepliesHold'
<1>a. TypeOK /\ OffsetStands /\ TelegramOK /\ RepliesHold
  BY DEF BotInv, TypeOK
<1>b. TelegramOK' /\ Len(sent') \in Nat
  BY TelegramKept DEF TelegramOK
<1>1. ASSUME NEW i \in 1..Len(sent'), sent'[i].kind \in {"confirm", "reject"}
      PROVE  /\ "saved" \in told'[i] => landed'[sent'[i].arg] = 1
             /\ told'[i] \cap {"rejected", "expired", "changed"} # {} => Dead(sent[i].arg)'
  <2>a. i \in Ids
    BY <1>b, TelegramGrows, BotAssumption DEF TelegramOK, Ids
  <2>b. sent'[i].arg \in Tokens
    BY <1>1, <1>b, BotAssumption DEF TelegramOK
  <2> SUFFICES ASSUME NEW t \in Tokens, t = sent'[i].arg
               PROVE  /\ "saved" \in told'[i] => landed'[t] = 1
                      /\ told'[i] \cap {"rejected", "expired", "changed"} # {} => Dead(t)'
    BY <2>b DEF Dead, InHand
  <2>1. CASE told'[i] = told[i]
    <3>1. CASE i \in 1..Len(sent)
      <4>1. t = sent[i].arg /\ sent[i].kind \in {"confirm", "reject"}
        BY <1>1, <3>1, TelegramGrows
      <4>2. /\ "saved" \in told[i] => landed[t] = 1
            /\ told[i] \cap {"rejected", "expired", "changed"} # {} => Dead(t)
        BY <1>a, <3>1, <4>1 DEF RepliesHold
      <4>3. QED
        BY <2>1, <4>2, DeadStays, LandedStays
    <3>2. CASE i \notin 1..Len(sent)
      <4>1. ~(i <= Len(sent))
        BY <2>a, <3>2, TelegramGrows
      <4>2. told'[i] = {}
        BY <1>a, <2>a, <2>1, <4>1 DEF OffsetStands
      <4>3. QED
        BY <4>2
    <3>3. QED
      BY <3>1, <3>2
  <2>2. CASE told'[i] # told[i]
    <3>1. i = Current /\ stage = "replying"
      BY <2>a, <2>2, TelegramGrows
    <3>2. told'[i] = told[i] \cup {work.says}
      BY <1>a, <2>a, <2>2, <3>1, ToldChanges DEF Delivers, TelegramOK
    <3>3. i \in 1..Len(sent) /\ sent'[i] = sent[i] /\ Update = sent[i]
      BY <1>a, <3>1, UpdateIsSent, BusyHasUpdate, TelegramGrows DEF Busy, Update
    <3>4. /\ work.says = "saved" => landed[t] = 1
          /\ work.says \in {"rejected", "expired", "changed"} => Dead(t)
      BY <1>a, <1>1, <3>1, <3>3 DEF RepliesHold
    <3>5. /\ "saved" \in told'[i] => landed[t] = 1
          /\ told'[i] \cap {"rejected", "expired", "changed"} # {} => Dead(t)
      BY <1>a, <1>1, <3>2, <3>3, <3>4 DEF RepliesHold
    <3>6. QED
      BY <3>5, DeadStays, LandedStays
  <2>3. QED
    BY <2>1, <2>2
<1>2. ASSUME stage' = "replying", Update'.kind \in {"confirm", "reject"}
      PROVE  /\ work'.says = "saved" => landed'[Update'.arg] = 1
             /\ work'.says \in {"rejected", "expired", "changed"} => Dead(Update.arg)'
  <2>1. Update' = Update /\ Current \in 1..Len(sent) /\ Update \in Asked
    BY <1>2, <1>a, SameUpdate, UpdateIsSent DEF Busy, BotInv, TelegramOK, Update
  <2>2. Update'.arg \in Tokens
    BY <1>2, <2>1, BotAssumption
  <2> SUFFICES ASSUME NEW t \in Tokens, t = Update'.arg
               PROVE  /\ work'.says = "saved" => landed'[t] = 1
                      /\ work'.says \in {"rejected", "expired", "changed"} => Dead(t)'
    BY <2>2 DEF Dead, InHand
  <2>3. QED
    BY <1>2, VerdictsAreTrue
<1>3. QED
  BY <1>1, <1>2 DEF RepliesHold

-----------------------------------------------------------------------------
(* The theorems *)

LEMMA Initially == Init => BotInv
<1> SUFFICES ASSUME Init
             PROVE  BotInv
  OBVIOUS
<1>1. TypeOK
  BY BotAssumption
     DEF Init, TypeOK, TelegramOK, LoopOK, MemoryOK, WikiOK, Works, NoWork, NoQuestion, Stages
<1>2. OffsetStands
  BY BotAssumption DEF Init, OffsetStands, Handled, Busy, Awaits
<1>3. HandlersKnow /\ OneClaim /\ ClaimsAreConfirmed /\ RepliesHold
  BY DEF Init, HandlersKnow, OneClaim, ClaimsAreConfirmed, RepliesHold, InHand
<1>4. QED
  BY <1>1, <1>2, <1>3 DEF BotInv

\* The inductive invariant: the offset stands behind what was answered, and of
\* every change at most one claim is open, whose preview was confirmed.
THEOREM InvariantHolds == Spec => []BotInv
<1>1. BotInv /\ [Next]_vars => BotInv'
  BY TypeKept, OffsetKept, HandlersKept, OneClaimKept, ConfirmedKept, RepliesKept DEF BotInv
<1>2. QED
  BY Initially, <1>1, PTL DEF Spec

\* A change is made once at most, and only after its user has confirmed it
\* (_consume_pending), for any updates, losses, restarts and late requests.
THEOREM WritesAreConfirmed == Spec => []WrittenAsConfirmed
<1>1. BotInv => WrittenAsConfirmed
  BY DEF BotInv, OneClaim, ClaimsAreConfirmed, WrittenAsConfirmed
<1>2. QED
  BY InvariantHolds, <1>1, PTL

\* What the user is told of a change is true and stays true (confirm_write,
\* reject_write).
THEOREM RepliesStayTrue == Spec => []RepliesAreTrue
<1>1. BotInv => RepliesAreTrue
  BY DEF BotInv, RepliesHold, RepliesAreTrue, Dead
<1>2. QED
  BY InvariantHolds, <1>1, PTL

\* Telegram forgets no update that was not answered (_dispatch_updates).
THEOREM NoneSkipped == Spec => []NothingIsSkipped
<1>1. BotInv => NothingIsSkipped
  BY DEF BotInv, OffsetStands, NothingIsSkipped, Handled, TypeOK, TelegramOK, LoopOK
<1>2. QED
  BY InvariantHolds, <1>1, PTL
=============================================================================
