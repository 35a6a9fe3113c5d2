--------------------------- MODULE MCHostedAccess ---------------------------
(* Instances of HostedAccess for TLC. *)
EXTENDS HostedAccess

MCCalls ==
    {[tool |-> "read", domain |-> "d"], [tool |-> "write", domain |-> None],
     [tool |-> "bind", scope |-> [read |-> {"d"}, write |-> {"d"}, primary |-> "d"]],
     [tool |-> "create", domain |-> "e"],
     [tool |-> "release"]}
    \cup {[tool |-> "grant", domain |-> "d", target |-> t, mode |-> "read"] :
              t \in Tokens}
    \cup {[tool |-> "grant", domain |-> "d", target |-> "b", mode |-> "none"]}

Both == [read |-> {"d"}, write |-> {"d"}]
MCGranted == [t \in Tokens |-> Both]
MCManaged == [t \in Tokens |-> {"d"}]
MCCreators == Tokens

\* Bounds: the first request is of token a in session s, which are like the
\* others, and releases nothing; the third one reads; and of grants each token's are sent in one session.
MCAsked ==
    [r \in Requests |->
        {a \in [token : Tokens, session : Sessions, call : MCCalls] :
            /\ r = 1 => a.token = "a" /\ a.session = "s" /\ a.call.tool # "release"
            /\ r = 3 => a.call.tool = "read"
            /\ a.call.tool = "grant" => (a.token = "a" <=> a.session = "s")}]

\* Bounds: beside a request there is a change from outside or a request at the
\* same time; a third request comes after two, or beside two that hold the threads.
OneMore ==
    /\ changes > 0 => ~(InFlight(1) /\ InFlight(2))
    /\ req[3].pc # "idle" =>
          /\ changes = 0
          /\ \/ ~InFlight(1) /\ ~InFlight(2)
             \/ /\ req[1].call.tool = "grant" /\ req[2].call.tool = "grant"
                /\ req[3].token = "b" /\ req[3].session = "z"
=============================================================================
