---------------------------- MODULE HostedAccess ----------------------------
(***************************************************************************)
(* The hosted server's requests over one wiki: authentication, the table of *)
(* session bindings, the selection of a session and its intersection with   *)
(* the grants of its token, the tools that use it, that select, that create *)
(* domains and that grant them; beside the operator's changes of tokens     *)
(* (src/iwiki_mcp/http.py, postgres/auth.py, server.py).                    *)
(*                                                                          *)
(* A step is what the event loop does between two awaits, or a statement of *)
(* a transaction.  A binding state is named by the request that made it.    *)
(***************************************************************************)
EXTENDS Naturals, FiniteSetsExt

CONSTANTS
    Tokens,
    Domains,
    Sessions,     \* the values of mcp-session-id
    MaxRequests,  \* bound: requests
    MaxChanges,   \* bound: changes by the operator, failures, days, restarts
    MaxEntries,   \* _SESSION_MAX_ENTRIES
    Ceiling,      \* total tokens of _TOOL_LIMITER
    Asked,        \* what each request may be: its token, its session id, its call
    Granted,      \* the grants the tokens are created with
    Managed,      \* the domains they manage
    Creators,     \* the tokens that may create domains
    None

Requests == 1..MaxRequests

\* What a token is granted, and a selection within it.
Grants == [read : SUBSET Domains, write : SUBSET Domains]
Scopes == [read : SUBSET Domains, write : SUBSET Domains, primary : Domains \cup {None}]

WellFormed(call) ==
    /\ call.tool \in {"read", "write", "bind", "create", "grant", "release"}
    /\ call.tool \in {"read", "create", "grant"} => call.domain \in Domains
    /\ call.tool = "write" => call.domain \in Domains \cup {None}
    /\ call.tool = "bind" => call.scope \in Scopes
    /\ call.tool = "grant" => call.target \in Tokens

ASSUME HostedAssumption ==
    /\ MaxRequests \in Nat /\ MaxEntries \in Nat \ {0} /\ Ceiling \in Nat \ {0}
    /\ None \notin Tokens /\ None \notin Domains /\ None \notin Requests /\ None # "session"
    /\ Granted \in [Tokens -> Grants]
    /\ Managed \in [Tokens -> SUBSET Domains]
    /\ \A r \in Requests : \A a \in Asked[r] :
          a.token \in Tokens /\ a.session \in Sessions /\ WellFormed(a.call)

VARIABLES
    active,     \* the wiki is active
    token,      \* rows of iwiki.tokens: live, may create domains
    grant,      \* token_domain_grants of each token
    managed,    \* token_domain_management_grants of each token
    domains,    \* iwiki.domains
    row,        \* which request's transaction holds a token's row
    table,      \* _SessionBindings._records
    state,      \* the binding states: selection, its source, the request lock
    req,        \* the requests
    held,       \* history: the grants a request's token had while it was served
    changes     \* how many outside changes there were

dbVars == <<active, token, grant, managed, domains, row>>
vars == <<active, token, grant, managed, domains, row, table, state, req, held, changes>>

NoScope == [read |-> {}, write |-> {}, primary |-> None]

NoRequest ==
    [pc |-> "idle", token |-> None, session |-> None, call |-> None,
     creates |-> FALSE, context |-> [read |-> {}, write |-> {}, managed |-> {}],
     state |-> None, effective |-> NoScope, source |-> None, by |-> None,
     served |-> {}, answer |-> None]

NoState == [selected |-> NoScope, source |-> None, by |-> None, holder |-> None]

Init ==
    /\ active = TRUE
    /\ token = [t \in Tokens |-> [live |-> TRUE, creates |-> t \in Creators]]
    /\ grant = Granted
    /\ managed = Managed
    /\ domains = UNION {Granted[t].read : t \in Tokens}
    /\ row = [t \in Tokens |-> None]
    /\ table = {}
    /\ state = [x \in Requests |-> NoState]
    /\ req = [r \in Requests |-> NoRequest]
    /\ held = [r \in Requests |-> {}]
    /\ changes = 0

-----------------------------------------------------------------------------
(* authenticate_bearer *)

\* A token's grants, as pairs of a domain and what may be done in it.
Powers(g) == (g.read \X {"read"}) \cup (g.write \X {"write"})

InFlight(r) == req[r].pc \notin {"idle", "answered"}

\* What a request becomes.
Turns(r, q) == req' = [req EXCEPT ![r] = q]

Goes(r, pc) == Turns(r, [req[r] EXCEPT !.pc = pc])

Answers(r, a) == Turns(r, [req[r] EXCEPT !.pc = "answered", !.answer = a])

\* POST or DELETE on /mcp; requests are numbered as they come.
Arrive(r, a) ==
    /\ req[r].pc = "idle" /\ \A q \in Requests : q < r => req[q].pc # "idle"
    /\ Turns(r, [req[r] EXCEPT !.pc = "token", !.token = a.token, !.session = a.session,
                               !.call = a.call])
    /\ UNCHANGED <<dbVars, table, state, changes>>

\* The first statement: the token and its wiki.
CheckToken(r) ==
    /\ req[r].pc = "token"
    /\ IF active /\ token[req[r].token].live
       THEN Turns(r, [req[r] EXCEPT !.pc = "grants", !.creates = token[req[r].token].creates])
       ELSE Answers(r, "unauthorized")
    /\ UNCHANGED <<dbVars, table, state, changes>>

\* The second statement: the grants.
ReadGrants(r) ==
    LET t == req[r].token IN
    /\ req[r].pc = "grants"
    /\ Turns(r, [req[r] EXCEPT !.pc = "known",
                               !.context = [read |-> grant[t].read, write |-> grant[t].write,
                                            managed |-> managed[t]]])
    /\ UNCHANGED <<dbVars, table, state, changes>>

-----------------------------------------------------------------------------
(* _SessionBindings *)

Recorded(tb, s) == {e \in tb : e.session = s}

\* Faulty: the tenant is compared, and the token is not.
OwnsInWiki(record, t) == TRUE

Owns(record, t) == record.token = t

is_foreign(s, t) == \E e \in Recorded(table, s) : ~Owns(e, t)

\* _prune: what a day has passed over goes, then the least recently seen
\* beyond the limit, before anything is added.
Pruned(tb) ==
    LET fresh == {e \in tb : ~e.idle}
        later(e) == {f \in fresh : f.seen > e.seen}
    IN {e \in fresh : Cardinality(later(e)) < MaxEntries}

\* last_seen: later than every other.
Now(tb) == 1 + Max({0} \cup {e.seen : e \in tb})

Record(s, t, x, seen, idle) ==
    [session |-> s, token |-> t, state |-> x, seen |-> seen, idle |-> idle]

Seen(tb, s, t, x) ==
    (tb \ Recorded(tb, s)) \cup {Record(s, t, x, Now(tb), FALSE)}

\* DELETE: the same answer whether there was a binding or not.
Release(r) ==
    /\ req[r].pc = "known" /\ req[r].call.tool = "release"
    /\ table' = {e \in table : e.session # req[r].session \/ ~Owns(e, req[r].token)}
    /\ Answers(r, "released")
    /\ UNCHANGED <<dbVars, state, changes>>

RefuseForeign(r) ==
    /\ req[r].pc = "known" /\ req[r].call.tool # "release"
    /\ is_foreign(req[r].session, req[r].token)
    /\ Answers(r, "not found")
    /\ UNCHANGED <<dbVars, table, state, changes>>

First(S) == IF S = {} THEN None ELSE CHOOSE d \in S : TRUE

\* The whole of a token's grants, when no selection survives.
TokenDefault(context) ==
    [selected |-> [read |-> context.read, write |-> context.write,
                   primary |-> First(context.write)],
     source |-> "token_default", by |-> None, holder |-> None]

\* resolve: the binding state of the session, or a new one.
Resolve(r) ==
    LET s == req[r].session
        pruned == Pruned(table)
        found == {e \in Recorded(pruned, s) : Owns(e, req[r].token)}
    IN
    /\ req[r].pc = "known" /\ req[r].call.tool # "release"
    /\ ~is_foreign(s, req[r].token)
    /\ IF found = {}
       THEN /\ table' = pruned
            /\ state' = [state EXCEPT ![r] = TokenDefault(req[r].context)]
            /\ Turns(r, [req[r] EXCEPT !.pc = "queued", !.state = r])
       ELSE \E e \in found :
            /\ table' = Seen(pruned, s, e.token, e.state)
            /\ Turns(r, [req[r] EXCEPT !.pc = "queued", !.state = e.state])
            /\ UNCHANGED state
    /\ UNCHANGED <<dbVars, changes>>

-----------------------------------------------------------------------------
(* the request lock, the effective binding and the gate *)

\* Faulty: a selection once checked is used as it was made.
AsSelected(selected, context) == selected

\* _effective_binding: the selection within the grants of now.
Effective(selected, context) ==
    LET read == selected.read \cap context.read
        write == selected.write \cap context.write \cap read
    IN [read |-> read, write |-> write,
        primary |-> IF selected.primary \in write THEN selected.primary ELSE First(write)]

\* The domain a writing tool writes: the one it names, or the primary.
Target(call, scope) == IF call.domain = None THEN scope.primary ELSE call.domain

\* _authorize_tool: the gate before the tool.
Authorized(call, scope, context, creates) ==
    CASE call.tool = "read" -> call.domain \in scope.read
      [] call.tool = "write" -> Target(call, scope) \in scope.write \cup {None}
      [] call.tool = "bind" -> /\ call.scope.read \subseteq context.read
                               /\ call.scope.write \subseteq context.write
      [] call.tool = "create" -> creates
      [] OTHER -> call.domain \in context.managed

\* The request has its session's lock; it is refused, or goes to its tool.
Enter(r) ==
    LET x == req[r].state
        scope == Effective(state[x].selected, req[r].context)
        entered(pc, a) == [req[r] EXCEPT !.pc = pc, !.answer = a, !.effective = scope,
                                         !.source = state[x].source, !.by = state[x].by]
    IN
    /\ req[r].pc = "queued" /\ state[x].holder = None
    /\ IF Authorized(req[r].call, scope, req[r].context, req[r].creates)
       THEN /\ Turns(r, entered("admitted", None))
            /\ state' = [state EXCEPT ![x] = [@ EXCEPT !.holder = r]]
       ELSE /\ Turns(r, entered("answered", "denied"))
            /\ UNCHANGED state
    /\ UNCHANGED <<dbVars, table, changes>>

-----------------------------------------------------------------------------
(* the tools, each on a thread of its own under the limiter *)

Running(r) == req[r].pc \in {"caller", "target", "commit"}

FreeThread == Cardinality({r \in Requests : Running(r)}) < Ceiling

\* The tool of an admitted request gets a thread.
Runs(r, tools) == req[r].pc = "admitted" /\ req[r].call.tool \in tools /\ FreeThread

\* A reading or writing tool, within the effective binding.
Serve(r) ==
    LET call == req[r].call
        target == IF call.tool = "read" THEN call.domain
                  ELSE Target(call, req[r].effective)
    IN
    /\ Runs(r, {"read", "write"})
    /\ Turns(r, [req[r] EXCEPT !.pc = "responding",
                               !.served = IF target = None THEN {}
                                          ELSE {<<target, call.tool>>}])
    /\ UNCHANGED <<dbVars, table, state, changes>>

\* A session's selection is replaced, and the answer says so.
Selects(r, scope, effective) ==
    /\ state' = [state EXCEPT ![req[r].state] =
                    [@ EXCEPT !.selected = scope, !.source = "session", !.by = r]]
    /\ Turns(r, [req[r] EXCEPT !.pc = "responding", !.effective = effective,
                               !.source = "session", !.by = r])

\* wiki_bind
Bind(r) ==
    /\ Runs(r, {"bind"})
    /\ Selects(r, req[r].call.scope, req[r].call.scope)
    /\ UNCHANGED <<dbVars, table, changes>>

\* A transaction of wiki_create_domain or of a domain grant begins.
BeginTool(r) ==
    /\ Runs(r, {"create", "grant"})
    /\ Goes(r, "caller")
    /\ UNCHANGED <<dbVars, table, state, changes>>

Free(t) == row[t] = None

Added(set, d) == [set EXCEPT !.read = @ \cup {d}, !.write = @ \cup {d}]

\* provision_domain, up to its commit, and the expansion of the
\* session that asked: the creator's rows are made with the domain.
Provision(r) ==
    LET t == req[r].token
        d == req[r].call.domain
        scope(s) == [read |-> s.read \cup {d}, write |-> s.write \cup {d}, primary |-> d]
        owned == d \in grant[t].write \cap managed[t]
    IN
    /\ req[r].pc = "caller" /\ req[r].call.tool = "create" /\ Free(t)
    /\ IF token[t].live /\ token[t].creates /\ (d \notin domains \/ owned)
       THEN /\ domains' = domains \cup {d}
            /\ grant' = [grant EXCEPT ![t] = Added(@, d)]
            /\ managed' = [managed EXCEPT ![t] = @ \cup {d}]
            /\ Selects(r, scope(state[req[r].state].selected), scope(req[r].effective))
       ELSE /\ Goes(r, "responding")
            /\ UNCHANGED <<domains, grant, managed, state>>
    /\ UNCHANGED <<active, token, row, table, changes>>

\* _managed_domain: the caller's row is locked, and its management is read.
LockCaller(r) ==
    LET t == req[r].token IN
    /\ req[r].pc = "caller" /\ req[r].call.tool = "grant" /\ Free(t)
    /\ IF token[t].live /\ req[r].call.domain \in managed[t] /\ req[r].call.target # t
       THEN /\ row' = [row EXCEPT ![t] = r]
            /\ Goes(r, "target")
       ELSE /\ Goes(r, "responding")
            /\ UNCHANGED row
    /\ UNCHANGED <<active, token, grant, managed, domains, table, state, changes>>

Rolled(r) == [t \in Tokens |-> IF row[t] = r THEN None ELSE row[t]]

\* Faulty: the target's row is read without being locked.
TargetRead(r) == row

TargetHeld(r) == [row EXCEPT ![req[r].call.target] = r]

\* _active_target
LockTarget(r) ==
    /\ req[r].pc = "target" /\ Free(req[r].call.target)
    /\ IF token[req[r].call.target].live
       THEN /\ row' = TargetHeld(r)
            /\ Goes(r, "commit")
       ELSE /\ row' = Rolled(r)
            /\ Goes(r, "responding")
    /\ UNCHANGED <<active, token, grant, managed, domains, table, state, changes>>

\* set_domain_grant and revoke_domain_grant: the row of the grant, and the commit.
SetGrant(r) ==
    LET c == req[r].call IN
    /\ req[r].pc = "commit"
    /\ grant' = [grant EXCEPT ![c.target] =
                    [read |-> IF c.mode = "none" THEN @.read \ {c.domain}
                              ELSE @.read \cup {c.domain},
                     write |-> IF c.mode = "write" THEN @.write \cup {c.domain}
                               ELSE @.write \ {c.domain}]]
    /\ row' = Rolled(r)
    /\ Goes(r, "responding")
    /\ UNCHANGED <<active, token, managed, domains, table, state, changes>>

\* The row that a transaction waits for.
Awaits(r) ==
    CASE req[r].pc = "caller" -> req[r].token
      [] req[r].pc = "target" -> req[r].call.target
      [] OTHER -> None

\* Faulty: no lock_timeout, and nothing looks for deadlocks.
NeverRefused(r) == FALSE

Waits(r) == Awaits(r) # None /\ ~Free(Awaits(r))

\* lock_timeout, or the deadlock detector: the transaction is rolled back.
WaitEnds(r) ==
    /\ Waits(r)
    /\ row' = Rolled(r)
    /\ Goes(r, "responding")
    /\ UNCHANGED <<active, token, grant, managed, domains, table, state, changes>>

\* capture_send: the binding is recorded when the response starts; a record of
\* another token's turns the response into an error.
Respond(r) ==
    LET s == req[r].session
        t == req[r].token
        pruned == Pruned(table)
        foreign == \E e \in Recorded(pruned, s) : ~Owns(e, t)
    IN
    /\ req[r].pc = "responding"
    /\ table' = IF foreign THEN pruned ELSE Seen(pruned, s, t, req[r].state)
    /\ state' = [state EXCEPT ![req[r].state] = [@ EXCEPT !.holder = None]]
    /\ Answers(r, IF foreign THEN "error" ELSE "answered")
    /\ UNCHANGED <<dbVars, changes>>

-----------------------------------------------------------------------------
(* the operator, the database, time and restarts *)

Outside ==
    /\ changes < MaxChanges
    /\ changes' = changes + 1

\* The database fails the authentication; nothing of the request is left.
AuthFails(r) ==
    /\ Outside
    /\ req[r].pc \in {"token", "grants"}
    /\ Answers(r, "unavailable")
    /\ UNCHANGED <<dbVars, table, state>>

\* revoke_token: the row, then what it was granted.
Revoke(t) ==
    /\ Outside
    /\ token[t].live /\ Free(t)
    /\ token' = [token EXCEPT ![t].live = FALSE]
    /\ grant' = [grant EXCEPT ![t] = [read |-> {}, write |-> {}]]
    /\ managed' = [managed EXCEPT ![t] = {}]
    /\ UNCHANGED <<active, domains, row, table, state, req>>

\* set_create_domain
SetCreate(t) ==
    /\ Outside
    /\ active /\ token[t].live /\ Free(t)
    /\ token' = [token EXCEPT ![t].creates = ~@]
    /\ UNCHANGED <<active, grant, managed, domains, row, table, state, req>>

\* set_domain_management
SetManagement(t, d) ==
    /\ Outside
    /\ active /\ token[t].live /\ d \in domains /\ Free(t)
    /\ managed' = [managed EXCEPT ![t] = IF d \in @ THEN @ \ {d} ELSE @ \cup {d}]
    /\ UNCHANGED <<active, token, grant, domains, row, table, state, req>>

\* set_wiki_active
SetActive ==
    /\ Outside
    /\ active' = ~active
    /\ UNCHANGED <<token, grant, managed, domains, row, table, state, req>>

\* A day without requests.
DayPasses ==
    /\ Outside
    /\ \A r \in Requests : ~InFlight(r)
    /\ table' = {Record(e.session, e.token, e.state, e.seen, TRUE) : e \in table}
    /\ UNCHANGED <<dbVars, state, req>>

\* The server is restarted: its table, its requests and their transactions go.
Restart ==
    /\ Outside
    /\ table' = {}
    /\ row' = [t \in Tokens |-> None]
    /\ req' = [r \in Requests |-> IF InFlight(r)
                                  THEN [req[r] EXCEPT !.pc = "answered", !.answer = "lost"]
                                  ELSE req[r]]
    /\ state' = [x \in Requests |-> [state[x] EXCEPT !.holder = None]]
    /\ UNCHANGED <<active, token, grant, managed, domains>>

-----------------------------------------------------------------------------

Step(r) ==
    \/ CheckToken(r) \/ ReadGrants(r)
    \/ Release(r) \/ RefuseForeign(r) \/ Resolve(r) \/ Enter(r)
    \/ Serve(r) \/ Bind(r) \/ BeginTool(r)
    \/ Provision(r) \/ LockCaller(r) \/ LockTarget(r) \/ SetGrant(r) \/ WaitEnds(r)
    \/ Respond(r)

\* What was granted is remembered while a request is served.
Remember ==
    held' = [r \in Requests |->
                IF req'[r].pc = "idle" \/ req[r].pc = "answered" THEN held[r]
                ELSE held[r] \cup Powers(grant[req'[r].token])
                             \cup Powers(grant'[req'[r].token])]

Next ==
    \/ \E r \in Requests : (Step(r) \/ AuthFails(r)) /\ Remember
    \/ \E r \in Requests : \E a \in Asked[r] : Arrive(r, a) /\ Remember
    \/ \E t \in Tokens : (Revoke(t) \/ SetCreate(t)) /\ Remember
    \/ \E t \in Tokens, d \in Domains : SetManagement(t, d) /\ Remember
    \/ (SetActive \/ DayPasses \/ Restart) /\ Remember

Spec == Init /\ [][Next]_vars

\* Threads and the event loop run, a wait for a row has an end, and those that
\* wait for a session's lock or for a thread are queued.
FairSpec == Spec /\ \A r \in Requests : SF_vars(Step(r) /\ Remember)

-----------------------------------------------------------------------------
(* properties *)

\* Everything that is ever asked.
AllCalls == UNION {{a.call : a \in Asked[r]} : r \in Requests}

BindingStates ==
    [selected : Scopes, source : {None, "token_default", "session"},
     by : Requests \cup {None}, holder : Requests \cup {None}]

Contexts ==
    [read : SUBSET Domains, write : SUBSET Domains, managed : SUBSET Domains]

Places ==
    {"idle", "token", "grants", "known", "queued", "admitted", "caller", "target",
     "commit", "responding", "answered"}

Replies ==
    {None, "unauthorized", "unavailable", "released", "not found", "denied", "answered",
     "error", "lost"}

RequestRecords ==
    [pc : Places, token : Tokens \cup {None}, session : Sessions \cup {None},
     call : AllCalls \cup {None}, creates : BOOLEAN, context : Contexts,
     state : Requests \cup {None}, effective : Scopes,
     source : {None, "token_default", "session"}, by : Requests \cup {None},
     served : SUBSET (Domains \X {"read", "write"}), answer : Replies]

\* A request has the fields that its place needs.
Placed(q) ==
    /\ q.pc # "idle" => q.token \in Tokens /\ q.session \in Sessions /\ q.call \in AllCalls
    /\ q.pc \in {"queued", "admitted", "caller", "target", "commit", "responding"}
          => q.state \in Requests
    /\ q.pc \in {"target", "commit"} => q.call.tool = "grant"

\* Every variable stays in its type, and every request has what its place needs.
TypeOK ==
    /\ active \in BOOLEAN
    /\ token \in [Tokens -> [live : BOOLEAN, creates : BOOLEAN]]
    /\ grant \in [Tokens -> Grants]
    /\ managed \in [Tokens -> SUBSET Domains]
    /\ row \in [Tokens -> Requests \cup {None}]
    /\ state \in [Requests -> BindingStates]
    /\ req \in [Requests -> RequestRecords]
    /\ \A e \in table : e.token \in Tokens /\ e.session \in Sessions /\ e.state \in Requests
    /\ \A r \in Requests : Placed(req[r])

\* "makes revocation immediate" (docs/architecture.md): whatever was selected
\* before, a request reads and writes only what its token was granted at some
\* moment of that request.
ServedWithinGrants == \A r \in Requests : req[r].served \subseteq held[r]

\* A revoked token has no grants and manages nothing, whatever grants were being
\* given to it, and whatever domains it was creating, when it was revoked.
RevokedHasNothing ==
    \A t \in Tokens : ~token[t].live =>
        grant[t].read \cup grant[t].write \cup managed[t] = {}

\* An answer that says it used a selection of its session used one that a request
\* of this session, by this token, has made, whoever else sent the same id, and
\* whatever was evicted meanwhile.
SessionsAreSeparate ==
    \A r \in Requests : req[r].source = "session" =>
        LET b == req[req[r].by] IN
        /\ b.token = req[r].token /\ b.session = req[r].session
        /\ b.call.tool \in {"bind", "create"}

\* "releasing the session's binding" (docs/storage-modes.md): what a session had
\* selected before it was released is not brought back by a request that was
\* being served meanwhile.
ReleasedStaysReleased ==
    [][\A r, q \in Requests :
          (/\ req[r].pc = "responding" /\ r < q /\ req[q].answer = "released"
           /\ req[q].session = req[r].session /\ req[q].token = req[r].token
           /\ req[r].state < r)
              => \A e \in table' : e.state # req[r].state]_vars

\* Every request is answered, although transactions wait for each other's rows.
RequestsReturn == \A r \in Requests : InFlight(r) ~> ~InFlight(r)
=============================================================================
