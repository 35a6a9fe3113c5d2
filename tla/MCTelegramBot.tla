---------------------------- MODULE MCTelegramBot ----------------------------
(* Instances of TelegramBot for TLC. *)
EXTENDS TelegramBot, FiniteSets

Msg(u, k, x) == [by |-> u, kind |-> k, arg |-> x]

Sends(k) == Msg("ann", k, None)
Chooses(d) == Msg("ann", "choose", d)
Taps(k, t) == Msg("ann", k, t)

MCAsked ==
    {Sends(k) : k \in {"question", "voice", "create", "update"}}
    \cup {Chooses(d) : d \in Domains}
    \cup {Taps(k, t) : k \in {"confirm", "reject"}, t \in Tokens}
    \cup {Msg("bob", "confirm", 1), Msg("bob", "domains", None),
          Msg("bob", "static", None), Msg("eve", "question", None)}

\* Bounds: the conversations.  A user asks before she chooses a domain, or
\* proposes a change and presses buttons twice, before and after another does.
Conversations ==
    {<<Sends(k), Chooses(d), Sends("question")>> : k \in {"question", "voice"}, d \in Domains}
    \cup {<<Chooses(d), Sends("create")>> \o pq :
             d \in Domains,
             pq \in {<<Taps("confirm", 1), Taps("confirm", 1)>>, <<Taps("reject", 1), Taps("confirm", 1)>>,
                     <<Msg("bob", "confirm", 1), Taps("confirm", 1)>>}}
    \cup {<<Chooses(d), Sends("update"), Taps("confirm", 1), Taps("reject", 1)>> : d \in Domains}
    \cup {<<Msg("eve", "question", None), Msg("bob", "domains", None),
            Msg("bob", "static", None), Sends("create")>>}

\* Bounds: nothing lapses, and nobody else edits, once as much goes wrong as may.
OneOf ==
    /\ \E c \in Conversations : Len(sent) <= Len(c) /\ sent = SubSeq(c, 1, Len(sent))
    /\ mishaps = MaxMishaps =>
          /\ \A t \in Tokens : writes[t] # "lapsed"
          /\ \A u \in Users : ~question[u].lapsed
          /\ version <= Cardinality({t \in Tokens : landed[t] = 1})
=============================================================================
