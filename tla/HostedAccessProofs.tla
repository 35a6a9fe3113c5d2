------------------------- MODULE HostedAccessProofs -------------------------
(***************************************************************************)
(* What HostedAccess promises at every moment, for any number of tokens,   *)
(* domains, sessions and requests and any limit of the table.              *)
(***************************************************************************)
EXTENDS HostedAccess, TLAPS

\* What is asked is well-formed.
LEMMA CallsWellFormed ==
    ASSUME NEW c \in AllCalls
    PROVE  WellFormed(c)
<1>1. PICK r \in Requests : c \in {a.call : a \in Asked[r]}
  BY DEF AllCalls
<1>2. PICK a \in Asked[r] : c = a.call
  BY <1>1
<1>3. WellFormed(a.call)
  BY HostedAssumption
<1>4. QED
  BY <1>2, <1>3

-----------------------------------------------------------------------------
(* Types *)

LEMMA NoScopeType == NoScope \in Scopes
BY DEF NoScope, Scopes

LEMMA InitType == Init => TypeOK
<1> SUFFICES ASSUME Init PROVE TypeOK
  OBVIOUS
<1>1. NoState \in BindingStates
  BY NoScopeType DEF NoState, BindingStates
<1>2. NoRequest \in RequestRecords
  BY NoScopeType DEF NoRequest, RequestRecords, Contexts, Places, Replies
<1>3. token \in [Tokens -> [live : BOOLEAN, creates : BOOLEAN]]
  BY DEF Init
<1>4. grant \in [Tokens -> Grants] /\ managed \in [Tokens -> SUBSET Domains]
  BY HostedAssumption DEF Init
<1>5. row \in [Tokens -> Requests \cup {None}]
  BY DEF Init
<1>6. state \in [Requests -> BindingStates]
  BY <1>1 DEF Init
<1>7. req \in [Requests -> RequestRecords]
  BY <1>2 DEF Init
<1>8. \A r \in Requests : Placed(req[r])
  BY DEF Init, Placed, NoRequest
<1>9. QED
  BY <1>3, <1>4, <1>5, <1>6, <1>7, <1>8 DEF Init, TypeOK

LEMMA FirstType ==
    ASSUME NEW S \in SUBSET Domains
    PROVE  First(S) \in S \cup {None}
BY DEF First

\* A selection within the grants is a selection.
LEMMA EffectiveType ==
    ASSUME NEW selected \in Scopes, NEW context \in Contexts
    PROVE  /\ Effective(selected, context) \in Scopes
           /\ Effective(selected, context).read \subseteq context.read
           /\ Effective(selected, context).write \subseteq context.write
           /\ Effective(selected, context).primary
                 \in Effective(selected, context).write \cup {None}
<1> DEFINE read == selected.read \cap context.read
           write == selected.write \cap context.write \cap read
           primary == IF selected.primary \in write THEN selected.primary
                      ELSE First(write)
<1>1. read \in SUBSET Domains /\ write \in SUBSET Domains
  BY DEF Scopes, Contexts
<1>2. First(write) \in write \cup {None}
  BY <1>1, FirstType
<1>3. primary \in write \cup {None}
  BY <1>2
<1>4. Effective(selected, context) = [read |-> read, write |-> write, primary |-> primary]
  BY DEF Effective
<1> HIDE DEF primary
<1>5. QED
  BY <1>1, <1>3, <1>4 DEF Scopes

LEMMA TokenDefaultType ==
    ASSUME NEW context \in Contexts
    PROVE  TokenDefault(context) \in BindingStates
<1>1. First(context.write) \in Domains \cup {None}
  BY FirstType DEF Contexts
<1>2. [read |-> context.read, write |-> context.write,
       primary |-> First(context.write)] \in Scopes
  BY <1>1 DEF Scopes, Contexts
<1>3. QED
  BY <1>2 DEF TokenDefault, BindingStates

\* What is recorded of the table is some of it, and one binding more.
LEMMA TableParts ==
    ASSUME NEW tb, NEW s, NEW t, NEW x
    PROVE  /\ Pruned(tb) \subseteq tb
           /\ Recorded(tb, s) \subseteq tb
           /\ \A e \in Recorded(tb, s) : e.session = s
           /\ \A e \in Seen(tb, s, t, x) :
                 e \in tb \/ (e.session = s /\ e.token = t /\ e.state = x)
<1>1. Pruned(tb) \subseteq tb
  BY DEF Pruned
<1>2. Recorded(tb, s) \subseteq tb /\ \A e \in Recorded(tb, s) : e.session = s
  BY DEF Recorded
<1>3. ASSUME NEW e \in Seen(tb, s, t, x)
      PROVE  e \in tb \/ (e.session = s /\ e.token = t /\ e.state = x)
  BY DEF Seen, Record
<1>4. QED
  BY <1>1, <1>2, <1>3

\* The disjuncts of a step.
LEMMA StepCases ==
    ASSUME Next
    PROVE  \/ \E r \in Requests : Step(r) /\ Remember
           \/ \E r \in Requests : AuthFails(r) /\ Remember
           \/ \E r \in Requests : \E a \in Asked[r] : Arrive(r, a) /\ Remember
           \/ \E t \in Tokens : Revoke(t) /\ Remember
           \/ \E t \in Tokens : SetCreate(t) /\ Remember
           \/ \E t \in Tokens, d \in Domains : SetManagement(t, d) /\ Remember
           \/ SetActive /\ Remember
           \/ DayPasses /\ Remember
           \/ Restart /\ Remember
BY DEF Next

\* The types of what a request works with.
LEMMA RequestParts ==
    ASSUME TypeOK, NEW r \in Requests
    PROVE  /\ req[r] \in RequestRecords
           /\ req[r].context \in Contexts
           /\ req[r].effective \in Scopes
           /\ Placed(req[r])
           /\ req[r].pc # "idle" => WellFormed(req[r].call)
           /\ req[r].pc \in {"target", "commit"} =>
                 req[r].call.domain \in Domains /\ req[r].call.target \in Tokens
<1>1. req[r] \in RequestRecords /\ Placed(req[r])
  BY DEF TypeOK
<1>2. req[r].context \in Contexts /\ req[r].effective \in Scopes
  BY <1>1 DEF RequestRecords
<1>3. req[r].pc # "idle" => WellFormed(req[r].call)
  BY <1>1, CallsWellFormed DEF Placed
<1>4. QED
  BY <1>1, <1>2, <1>3 DEF Placed, WellFormed

\* What a request of any step becomes: it is the same request, in its type.
SameRequest(r, q) ==
    /\ Turns(r, q)
    /\ q \in RequestRecords
    /\ Placed(q)
    /\ q.pc # "idle"
    /\ q.token = req[r].token /\ q.session = req[r].session /\ q.call = req[r].call

LEMMA GoesOn ==
    ASSUME TypeOK, NEW r \in Requests, req[r].pc # "idle",
           NEW pc \in Places \ {"idle", "queued", "admitted"}, Goes(r, pc),
           pc \in {"caller", "target", "commit", "responding"} => req[r].state \in Requests,
           pc \in {"target", "commit"} => req[r].call.tool = "grant"
    PROVE  SameRequest(r, [req[r] EXCEPT !.pc = pc])
<1> DEFINE q == [req[r] EXCEPT !.pc = pc]
<1>1. req[r] \in RequestRecords /\ Placed(req[r])
  BY RequestParts
<1>2. q \in RequestRecords /\ q.pc = pc /\ q.token = req[r].token
      /\ q.session = req[r].session /\ q.call = req[r].call /\ q.state = req[r].state
  BY <1>1 DEF RequestRecords
<1> HIDE DEF q
<1>3. Placed(q)
  BY <1>1, <1>2 DEF Placed
<1>4. Turns(r, q)
  BY DEF Goes, q
<1>5. QED
  BY <1>2, <1>3, <1>4 DEF SameRequest, q

LEMMA AnswersOnce ==
    ASSUME TypeOK, NEW r \in Requests, req[r].pc # "idle", NEW a \in Replies, Answers(r, a)
    PROVE  SameRequest(r, [req[r] EXCEPT !.pc = "answered", !.answer = a])
<1> DEFINE q == [req[r] EXCEPT !.pc = "answered", !.answer = a]
<1>1. req[r] \in RequestRecords /\ Placed(req[r])
  BY RequestParts
<1>2. q \in RequestRecords /\ q.pc = "answered" /\ q.token = req[r].token
      /\ q.session = req[r].session /\ q.call = req[r].call
  BY <1>1 DEF RequestRecords, Places
<1> HIDE DEF q
<1>3. Placed(q)
  BY <1>1, <1>2 DEF Placed
<1>4. Turns(r, q)
  BY DEF Answers, q
<1>5. QED
  BY <1>2, <1>3, <1>4 DEF SameRequest, q

\* Every step of a request leaves it the same request, in its type.
LEMMA RequestShape ==
    ASSUME TypeOK, NEW r \in Requests, Step(r) \/ AuthFails(r)
    PROVE  \E q : SameRequest(r, q)
<1>a. req[r] \in RequestRecords /\ Placed(req[r]) /\ req[r].context \in Contexts
      /\ req[r].effective \in Scopes
  BY RequestParts
<1>b. req[r].pc # "idle" => WellFormed(req[r].call)
  BY RequestParts
<1>1. CASE CheckToken(r)
  <2>1. CASE Answers(r, "unauthorized")
    BY <1>1, <2>1, AnswersOnce DEF CheckToken, Replies
  <2>2. CASE ~Answers(r, "unauthorized")
    <3> DEFINE q == [req[r] EXCEPT !.pc = "grants", !.creates = token[req[r].token].creates]
    <3>1. token[req[r].token].creates \in BOOLEAN /\ Turns(r, q)
      BY <1>1, <1>a, <2>2 DEF CheckToken, Placed, TypeOK
    <3>2. q \in RequestRecords /\ q.pc = "grants" /\ q.token = req[r].token
          /\ q.session = req[r].session /\ q.call = req[r].call
      BY <1>a, <3>1 DEF RequestRecords, Places
    <3> HIDE DEF q
    <3>3. Placed(q)
      BY <1>1, <1>a, <3>2 DEF CheckToken, Placed
    <3> QED
      BY <3>1, <3>2, <3>3 DEF SameRequest
  <2> QED
    BY <2>1, <2>2
<1>2. CASE ReadGrants(r)
  <2> DEFINE t == req[r].token
             context == [read |-> grant[t].read, write |-> grant[t].write,
                         managed |-> managed[t]]
             q == [req[r] EXCEPT !.pc = "known", !.context = context]
  <2>1. context \in Contexts
    <3>1. grant[t] \in Grants /\ managed[t] \in SUBSET Domains
      BY <1>2, <1>a DEF ReadGrants, Placed, TypeOK
    <3> QED
      BY <3>1 DEF Grants, Contexts
  <2>2. Turns(r, q)
    BY <1>2 DEF ReadGrants
  <2> HIDE DEF context
  <2>3. q \in RequestRecords /\ q.pc = "known" /\ q.token = req[r].token
        /\ q.session = req[r].session /\ q.call = req[r].call
    BY <1>a, <2>1 DEF RequestRecords, Places
  <2> HIDE DEF q
  <2>4. Placed(q)
    BY <1>2, <1>a, <2>3 DEF ReadGrants, Placed
  <2> QED
    BY <2>2, <2>3, <2>4 DEF SameRequest
<1>3. CASE Release(r) \/ RefuseForeign(r) \/ AuthFails(r)
  <2>1. /\ req[r].pc # "idle"
        /\ \E a \in Replies : Answers(r, a)
    BY <1>3 DEF Release, RefuseForeign, AuthFails, Replies
  <2> QED
    BY <2>1, AnswersOnce
<1>4. CASE Resolve(r)
  <2>1. PICK x \in Requests : Turns(r, [req[r] EXCEPT !.pc = "queued", !.state = x])
    <3>1. Pruned(table) \subseteq table
          /\ Recorded(Pruned(table), req[r].session) \subseteq Pruned(table)
      BY TableParts
    <3>2. \A e \in Recorded(Pruned(table), req[r].session) : e.state \in Requests
      BY <3>1 DEF TypeOK
    <3> QED
      BY <1>4, <3>2 DEF Resolve
  <2> DEFINE q == [req[r] EXCEPT !.pc = "queued", !.state = x]
  <2>2. q \in RequestRecords /\ q.pc = "queued" /\ q.token = req[r].token
        /\ q.session = req[r].session /\ q.call = req[r].call /\ q.state = x
    BY <1>a DEF RequestRecords, Places
  <2> HIDE DEF q
  <2>3. Placed(q)
    BY <1>4, <1>a, <2>2 DEF Resolve, Placed
  <2> QED
    BY <2>1, <2>2, <2>3 DEF SameRequest, q
<1>5. CASE Enter(r)
  <2>1. PICK pc \in {"admitted", "answered"}, a \in {None, "denied"},
             scope \in Scopes, b \in BindingStates :
          Turns(r, [req[r] EXCEPT !.pc = pc, !.answer = a, !.effective = scope,
                                  !.source = b.source, !.by = b.by])
    <3> DEFINE x == req[r].state
               b == state[x]
               scope == Effective(b.selected, req[r].context)
    <3>1. b \in BindingStates
      BY <1>5, <1>a DEF Enter, Placed, TypeOK
    <3>2. scope \in Scopes
      BY <1>a, <3>1, EffectiveType DEF BindingStates
    <3> QED
      BY <1>5, <3>1, <3>2 DEF Enter
  <2> DEFINE q == [req[r] EXCEPT !.pc = pc, !.answer = a, !.effective = scope,
                                 !.source = b.source, !.by = b.by]
  <2>2. /\ b.source \in {None, "token_default", "session"} /\ b.by \in Requests \cup {None}
        /\ pc \in Places /\ a \in Replies
    BY DEF BindingStates, Places, Replies
  <2>3. q \in RequestRecords /\ q.pc = pc /\ q.token = req[r].token
        /\ q.session = req[r].session /\ q.call = req[r].call /\ q.state = req[r].state
    BY <1>a, <2>2 DEF RequestRecords
  <2> HIDE DEF q
  <2>4. Placed(q)
    BY <1>5, <1>a, <2>3 DEF Enter, Placed
  <2> QED
    BY <2>1, <2>3, <2>4 DEF SameRequest, q
<1>6. CASE Serve(r)
  <2>1. PICK target \in Domains \cup {None} :
          Turns(r, [req[r] EXCEPT !.pc = "responding",
                                  !.served = IF target = None THEN {}
                                             ELSE {<<target, req[r].call.tool>>}])
    BY <1>6, <1>a, <1>b DEF Serve, Runs, WellFormed, Target, Scopes
  <2> DEFINE served == IF target = None THEN {} ELSE {<<target, req[r].call.tool>>}
             q == [req[r] EXCEPT !.pc = "responding", !.served = served]
  <2>2. served \in SUBSET (Domains \X {"read", "write"})
    BY <1>6 DEF Serve, Runs
  <2> HIDE DEF served
  <2>3. q \in RequestRecords /\ q.pc = "responding" /\ q.token = req[r].token
        /\ q.session = req[r].session /\ q.call = req[r].call /\ q.state = req[r].state
    BY ZenonT(40), <1>a, <2>2 DEF RequestRecords, Places
  <2> HIDE DEF q
  <2>4. Placed(q)
    BY <1>6, <1>a, <2>3 DEF Serve, Runs, Placed
  <2> QED
    BY <2>1, <2>3, <2>4 DEF SameRequest, q, served
<1>7. ASSUME NEW scope, NEW effective \in Scopes, Selects(r, scope, effective),
             req[r].pc \in {"admitted", "caller"}
      PROVE  \E q : SameRequest(r, q)
  <2> DEFINE q == [req[r] EXCEPT !.pc = "responding", !.effective = effective,
                                 !.source = "session", !.by = r]
  <2>1. q \in RequestRecords /\ q.pc = "responding" /\ q.token = req[r].token
        /\ q.session = req[r].session /\ q.call = req[r].call /\ q.state = req[r].state
    BY <1>a, <1>7 DEF RequestRecords, Places
  <2>2. Turns(r, q)
    BY <1>7 DEF Selects
  <2> HIDE DEF q
  <2>3. Placed(q)
    BY <1>7, <1>a, <2>1 DEF Placed
  <2> QED
    BY <2>1, <2>2, <2>3 DEF SameRequest
<1>8. CASE Bind(r)
  <2>1. req[r].call.scope \in Scopes
    BY <1>8, <1>b DEF Bind, Runs, WellFormed
  <2> QED
    BY <1>7, <1>8, <2>1 DEF Bind, Runs
<1>9. CASE Provision(r)
  <2>1. CASE Goes(r, "responding")
    BY <1>9, <1>a, <2>1, GoesOn DEF Provision, Placed, Places
  <2>2. CASE ~Goes(r, "responding")
    <3> DEFINE d == req[r].call.domain
               scope(s) == [read |-> s.read \cup {d}, write |-> s.write \cup {d},
                            primary |-> d]
    <3>1. Selects(r, scope(state[req[r].state].selected), scope(req[r].effective))
      BY <1>9, <2>2 DEF Provision
    <3>2. d \in Domains
      BY <1>9, <1>b DEF Provision, WellFormed
    <3>3. scope(req[r].effective) \in Scopes
      BY <1>a, <3>2 DEF Scopes
    <3> HIDE DEF scope
    <3> QED
      BY <1>7, <1>9, <3>1, <3>3 DEF Provision
  <2> QED
    BY <2>1, <2>2
<1>10. CASE BeginTool(r)
  BY <1>10, <1>a, GoesOn DEF BeginTool, Runs, Placed, Places
<1>11. CASE LockCaller(r)
  BY <1>11, <1>a, GoesOn DEF LockCaller, Placed, Places
<1>12. CASE LockTarget(r) \/ SetGrant(r)
  BY <1>12, <1>a, GoesOn DEF LockTarget, SetGrant, Placed, Places
<1>13. CASE WaitEnds(r)
  <2>1. req[r].pc \in {"caller", "target"}
    BY <1>13 DEF WaitEnds, Waits, Awaits
  <2> QED
    BY <1>13, <1>a, <2>1, GoesOn DEF WaitEnds, Placed, Places
<1>14. CASE Respond(r)
  <2>1. PICK a \in Replies : Answers(r, a)
    BY <1>14 DEF Respond, Replies
  <2> QED
    BY <1>14, <2>1, AnswersOnce DEF Respond
<1> QED
  BY <1>1, <1>2, <1>3, <1>4, <1>5, <1>6, <1>8, <1>9, <1>10, <1>11, <1>12, <1>13, <1>14 DEF Step

\* A step of a request keeps the types of the binding states.
LEMMA StatesShape ==
    ASSUME TypeOK, NEW r \in Requests, Step(r) \/ AuthFails(r)
    PROVE  state' \in [Requests -> BindingStates]
<1> DEFINE x == req[r].state
<1>a. Placed(req[r]) /\ req[r].context \in Contexts
  BY RequestParts
<1>b. req[r].pc # "idle" => WellFormed(req[r].call)
  BY RequestParts
<1>c. state \in [Requests -> BindingStates]
  BY DEF TypeOK
<1>1. CASE UNCHANGED state
  BY <1>1, <1>c
<1>2. CASE Resolve(r)
  <2>1. TokenDefault(req[r].context) \in BindingStates
    BY <1>a, TokenDefaultType
  <2> QED
    BY <1>2, <1>c, <2>1 DEF Resolve
<1>3. ASSUME NEW h \in Requests \cup {None}, x \in Requests,
             state' = [state EXCEPT ![x] = [@ EXCEPT !.holder = h]]
      PROVE  state' \in [Requests -> BindingStates]
  <2>1. state[x] \in BindingStates
    BY <1>3, <1>c
  <2> DEFINE b == [state[x] EXCEPT !.holder = h]
  <2>2. b \in BindingStates
    BY <2>1 DEF BindingStates
  <2>3. state' = [state EXCEPT ![x] = b]
    BY <1>3
  <2> HIDE DEF b
  <2> QED
    BY <1>c, <1>3, <2>2, <2>3
<1>4. CASE Enter(r) \/ Respond(r)
  <2>1. x \in Requests
    BY <1>4, <1>a DEF Enter, Respond, Placed
  <2>2. CASE Enter(r)
    BY <1>1, <1>3, <2>1, <2>2 DEF Enter
  <2>3. CASE Respond(r)
    BY <1>3, <2>1, <2>3 DEF Respond
  <2> QED
    BY <1>4, <2>2, <2>3
<1>5. ASSUME NEW scope \in Scopes, NEW effective, Selects(r, scope, effective), x \in Requests
      PROVE  state' \in [Requests -> BindingStates]
  <2> DEFINE b == [state[x] EXCEPT !.selected = scope, !.source = "session", !.by = r]
  <2>1. state[x] \in BindingStates
    BY <1>5, <1>c
  <2>2. b \in BindingStates
    BY <2>1 DEF BindingStates
  <2>3. state' = [state EXCEPT ![x] = b]
    BY <1>5 DEF Selects
  <2> HIDE DEF b
  <2> QED
    BY <1>c, <1>5, <2>2, <2>3
<1>6. CASE Bind(r)
  <2>1. req[r].call.scope \in Scopes /\ x \in Requests
    BY <1>6, <1>a, <1>b DEF Bind, Runs, WellFormed, Placed
  <2> QED
    BY <1>5, <1>6, <2>1 DEF Bind
<1>7. CASE Provision(r)
  <2> DEFINE d == req[r].call.domain
             scope(s) == [read |-> s.read \cup {d}, write |-> s.write \cup {d},
                          primary |-> d]
  <2>1. x \in Requests /\ d \in Domains
    BY <1>7, <1>a, <1>b DEF Provision, WellFormed, Placed
  <2>2. scope(state[x].selected) \in Scopes
    <3>1. state[x].selected \in Scopes
      BY <1>c, <2>1 DEF BindingStates
    <3> QED
      BY <2>1, <3>1 DEF Scopes
  <2>3. \/ UNCHANGED state
        \/ Selects(r, scope(state[x].selected), scope(req[r].effective))
    BY <1>7 DEF Provision
  <2> HIDE DEF scope
  <2> QED
    BY <1>1, <1>5, <2>1, <2>2, <2>3
<1> QED
  BY <1>1, <1>2, <1>4, <1>6, <1>7
     DEF Step, CheckToken, ReadGrants, Release, RefuseForeign, Serve, BeginTool, LockCaller,
         LockTarget, SetGrant, WaitEnds, AuthFails

\* A step of a request records at most the binding of its own session, under its
\* own token, and with its own state.
LEMMA TableShape ==
    ASSUME TypeOK, NEW r \in Requests, Step(r) \/ AuthFails(r), NEW e \in table'
    PROVE  \/ e \in table
           \/ /\ e.session = req[r].session /\ e.token = req[r].token
              /\ req[r].pc = "responding" /\ e.state = req[r].state
           \/ /\ e.session = req[r].session /\ e.token = req[r].token
              /\ req[r].pc = "known"
              /\ \E f \in table : /\ f.state = e.state
                                  /\ f.session = e.session /\ f.token = e.token
<1> DEFINE s == req[r].session
           t == req[r].token
           pruned == Pruned(table)
<1>1. CASE UNCHANGED table
  BY <1>1
<1>2. pruned \subseteq table
  BY TableParts
<1>3. CASE Release(r)
  BY <1>3 DEF Release
<1>4. CASE Resolve(r)
  <2>1. CASE table' = pruned
    BY <1>2, <2>1
  <2>2. CASE \E f \in Recorded(pruned, s) :
               Owns(f, t) /\ table' = Seen(pruned, s, f.token, f.state)
    <3>1. PICK f \in Recorded(pruned, s) :
            Owns(f, t) /\ table' = Seen(pruned, s, f.token, f.state)
      BY <2>2
    <3>2. f \in table /\ f.session = s /\ f.token = t
      BY <1>2, <3>1, TableParts DEF Owns
    <3>3. e \in pruned \/ (e.session = s /\ e.token = f.token /\ e.state = f.state)
      BY <3>1, TableParts
    <3> QED
      BY <1>2, <1>4, <3>2, <3>3 DEF Resolve
  <2> QED
    BY <1>4, <2>1, <2>2 DEF Resolve
<1>5. CASE Respond(r)
  <2>1. table' = pruned \/ table' = Seen(pruned, s, t, req[r].state)
    BY <1>5 DEF Respond
  <2>2. CASE table' = pruned
    BY <1>2, <2>2
  <2>3. CASE table' = Seen(pruned, s, t, req[r].state)
    <3>1. e \in pruned \/ (e.session = s /\ e.token = t /\ e.state = req[r].state)
      BY <2>3, TableParts
    <3> QED
      BY <1>2, <1>5, <3>1 DEF Respond
  <2> QED
    BY <2>1, <2>2, <2>3
<1> QED
  BY <1>1, <1>3, <1>4, <1>5
     DEF Step, CheckToken, ReadGrants, RefuseForeign, Enter, Serve, Bind, BeginTool, Provision,
         LockCaller, LockTarget, SetGrant, WaitEnds, AuthFails

-----------------------------------------------------------------------------
(* The rows of a transaction *)

\* A transaction that has locked a row holds it, and the target it has locked
\* is not revoked while it does.
RowsHeld ==
    \A r \in Requests :
        /\ req[r].pc \in {"target", "commit"} => row[req[r].token] = r
        /\ req[r].pc = "commit" =>
              row[req[r].call.target] = r /\ token[req[r].call.target].live

\* A domain is added to grants.
LEMMA AddedType ==
    ASSUME NEW g \in Grants, NEW d \in Domains
    PROVE  Added(g, d) \in Grants
BY DEF Added, Grants

\* What a step of a request does to the database: it locks a free row and goes on,
\* or ends its transaction; and grants go only to tokens that are live.
LEMMA DatabaseShape ==
    ASSUME TypeOK, RowsHeld, NEW r \in Requests, Step(r) \/ AuthFails(r)
    PROVE  /\ UNCHANGED <<active, token>>
           /\ \/ UNCHANGED <<grant, managed>>
              \/ \E t \in Tokens, g \in Grants, m \in SUBSET Domains :
                    /\ token[t].live
                    /\ grant' = [grant EXCEPT ![t] = g]
                    /\ managed' = [managed EXCEPT ![t] = m]
           /\ \/ UNCHANGED row
              \/ row' = Rolled(r)
              \/ \E t \in Tokens : Free(t) /\ row' = [row EXCEPT ![t] = r]
<1>a. Placed(req[r]) /\ (req[r].pc # "idle" => WellFormed(req[r].call))
  BY RequestParts
<1>1. CASE UNCHANGED dbVars
  BY <1>1 DEF dbVars
<1>2. CASE Provision(r)
  <2> DEFINE t == req[r].token
             d == req[r].call.domain
             g == Added(grant[t], d)
             m == managed[t] \cup {d}
  <2>1. t \in Tokens /\ d \in Domains
    BY <1>2, <1>a DEF Provision, Placed, WellFormed
  <2>2. g \in Grants /\ m \in SUBSET Domains
    BY <2>1, AddedType DEF TypeOK
  <2>3. \/ UNCHANGED <<grant, managed>>
        \/ /\ token[t].live
           /\ grant' = [grant EXCEPT ![t] = g]
           /\ managed' = [managed EXCEPT ![t] = m]
    BY <1>2 DEF Provision
  <2>4. UNCHANGED <<active, token, row>>
    BY <1>2 DEF Provision
  <2> HIDE DEF g, m
  <2> QED
    BY <2>1, <2>2, <2>3, <2>4
<1>3. CASE LockCaller(r)
  BY <1>3, <1>a DEF LockCaller, Placed
<1>4. CASE LockTarget(r)
  BY <1>4, <1>a DEF LockTarget, TargetHeld, Placed, WellFormed
<1>5. CASE SetGrant(r)
  <2> DEFINE t == req[r].call.target
             d == req[r].call.domain
             g == [read |-> IF req[r].call.mode = "none" THEN grant[t].read \ {d}
                            ELSE grant[t].read \cup {d},
                   write |-> IF req[r].call.mode = "write" THEN grant[t].write \cup {d}
                             ELSE grant[t].write \ {d}]
  <2>1. t \in Tokens /\ d \in Domains /\ token[t].live
    BY <1>5, RequestParts DEF SetGrant, RowsHeld
  <2>2. g \in Grants
    <3>1. grant[t] \in Grants
      BY <2>1 DEF TypeOK
    <3> QED
      BY <2>1, <3>1 DEF Grants
  <2>3. grant' = [grant EXCEPT ![t] = g]
    BY <1>5, <2>1 DEF SetGrant, TypeOK
  <2>4. managed[t] \in SUBSET Domains /\ managed' = [managed EXCEPT ![t] = managed[t]]
    BY <1>5, <2>1 DEF SetGrant, TypeOK
  <2>5. UNCHANGED <<active, token>> /\ row' = Rolled(r)
    BY <1>5 DEF SetGrant
  <2> HIDE DEF g
  <2> QED
    BY <2>1, <2>2, <2>3, <2>4, <2>5
<1>6. CASE WaitEnds(r)
  BY <1>6 DEF WaitEnds
<1> QED
  BY <1>1, <1>2, <1>3, <1>4, <1>5, <1>6
     DEF Step, CheckToken, ReadGrants, Release, RefuseForeign, Resolve, Enter, Serve, Bind,
         BeginTool, Respond, AuthFails

\* A step of a request keeps the types, and leaves revoked tokens nothing.
LEMMA StepType ==
    ASSUME TypeOK, RowsHeld, RevokedHasNothing, NEW r \in Requests, Step(r) \/ AuthFails(r)
    PROVE  TypeOK' /\ RevokedHasNothing'
<1>1. PICK q : SameRequest(r, q)
  BY RequestShape
<1>2. /\ req' \in [Requests -> RequestRecords]
      /\ \A x \in Requests : Placed(req'[x])
  BY <1>1 DEF SameRequest, Turns, TypeOK
<1>3. state' \in [Requests -> BindingStates]
  BY StatesShape
<1>4. ASSUME NEW e \in table'
      PROVE  e.token \in Tokens /\ e.session \in Sessions /\ e.state \in Requests
  <2>1. CASE e \in table
    BY <2>1 DEF TypeOK
  <2>2. CASE req[r].pc = "responding"
    BY <2>1, <2>2, TableShape, RequestParts DEF Placed
  <2>3. CASE req[r].pc = "known"
    BY <2>1, <2>3, TableShape, RequestParts DEF Placed, TypeOK
  <2> QED
    BY <2>1, <2>2, <2>3, TableShape
<1>5. UNCHANGED <<active, token>>
  BY DatabaseShape
<1>6. /\ grant' \in [Tokens -> Grants] /\ managed' \in [Tokens -> SUBSET Domains]
      /\ RevokedHasNothing'
  <2>1. CASE UNCHANGED <<grant, managed>>
    BY <1>5, <2>1 DEF TypeOK, RevokedHasNothing
  <2>2. ASSUME NEW t \in Tokens, NEW g \in Grants, NEW m \in SUBSET Domains,
               token[t].live, grant' = [grant EXCEPT ![t] = g],
               managed' = [managed EXCEPT ![t] = m]
        PROVE  /\ grant' \in [Tokens -> Grants] /\ managed' \in [Tokens -> SUBSET Domains]
               /\ RevokedHasNothing'
    BY <1>5, <2>2 DEF TypeOK, RevokedHasNothing
  <2> QED
    BY <2>1, <2>2, DatabaseShape
<1>7. row' \in [Tokens -> Requests \cup {None}]
  BY DatabaseShape DEF TypeOK, Rolled
<1> QED
  BY <1>2, <1>3, <1>4, <1>5, <1>6, <1>7 DEF TypeOK

\* What a request becomes, field by field.
LEMMA GoesFields ==
    ASSUME TypeOK, NEW r \in Requests, NEW pc, Goes(r, pc)
    PROVE  /\ req'[r].pc = pc
           /\ req'[r].context = req[r].context /\ req'[r].effective = req[r].effective
           /\ req'[r].source = req[r].source /\ req'[r].by = req[r].by
           /\ req'[r].state = req[r].state /\ req'[r].served = req[r].served
<1>1. req[r] \in RequestRecords
  BY RequestParts
<1>2. req'[r] = [req[r] EXCEPT !.pc = pc]
  BY DEF Goes, Turns, TypeOK
<1> QED
  BY <1>1, <1>2 DEF RequestRecords

LEMMA AnswersFields ==
    ASSUME TypeOK, NEW r \in Requests, NEW a, Answers(r, a)
    PROVE  /\ req'[r].pc = "answered"
           /\ req'[r].source = req[r].source /\ req'[r].by = req[r].by
           /\ req'[r].state = req[r].state /\ req'[r].served = req[r].served
<1>1. req[r] \in RequestRecords
  BY RequestParts
<1>2. req'[r] = [req[r] EXCEPT !.pc = "answered", !.answer = a]
  BY DEF Answers, Turns, TypeOK
<1> QED
  BY <1>1, <1>2 DEF RequestRecords

LEMMA AuthenticationFields ==
    ASSUME TypeOK, NEW r \in Requests, CheckToken(r) \/ ReadGrants(r)
    PROVE  /\ req'[r].pc \in {"answered", "grants", "known"}
           /\ req'[r].pc = "known" =>
                 /\ ReadGrants(r)
                 /\ req'[r].context.read = grant[req[r].token].read
                 /\ req'[r].context.write = grant[req[r].token].write
           /\ req'[r].source = req[r].source /\ req'[r].by = req[r].by
           /\ req'[r].state = req[r].state /\ req'[r].served = req[r].served
<1>1. req[r] \in RequestRecords
  BY RequestParts
<1>2. CASE Answers(r, "unauthorized")
  BY <1>2, AnswersFields
<1>3. CASE CheckToken(r) /\ ~Answers(r, "unauthorized")
  <2>1. req'[r] = [req[r] EXCEPT !.pc = "grants", !.creates = token[req[r].token].creates]
    BY <1>3 DEF CheckToken, Turns, TypeOK
  <2> QED
    BY <1>1, <2>1 DEF RequestRecords
<1>4. CASE ReadGrants(r)
  <2> DEFINE t == req[r].token
  <2>1. req'[r] = [req[r] EXCEPT !.pc = "known",
                                 !.context = [read |-> grant[t].read, write |-> grant[t].write,
                                              managed |-> managed[t]]]
    BY <1>4 DEF ReadGrants, Turns, TypeOK
  <2> QED
    BY <1>1, <1>4, <2>1 DEF RequestRecords
<1> QED
  BY <1>2, <1>3, <1>4

LEMMA ResolveFields ==
    ASSUME TypeOK, NEW r \in Requests, NEW x,
           Turns(r, [req[r] EXCEPT !.pc = "queued", !.state = x])
    PROVE  /\ req'[r].pc = "queued" /\ req'[r].state = x
           /\ req'[r].context = req[r].context
           /\ req'[r].source = req[r].source /\ req'[r].by = req[r].by
           /\ req'[r].served = req[r].served
<1>1. req[r] \in RequestRecords
  BY RequestParts
<1>2. req'[r] = [req[r] EXCEPT !.pc = "queued", !.state = x]
  BY DEF Turns, TypeOK
<1> QED
  BY <1>1, <1>2 DEF RequestRecords

LEMMA EnterFields ==
    ASSUME TypeOK, NEW r \in Requests, Enter(r)
    PROVE  LET x == req[r].state
               scope == Effective(state[x].selected, req[r].context)
           IN
           /\ req'[r].pc \in {"admitted", "answered"}
           /\ req'[r].pc = "admitted" =>
                 Authorized(req[r].call, scope, req[r].context, req[r].creates)
           /\ req'[r].effective = scope
           /\ req'[r].context = req[r].context
           /\ req'[r].source = state[x].source /\ req'[r].by = state[x].by
           /\ req'[r].state = x /\ req'[r].served = req[r].served
<1> DEFINE x == req[r].state
           scope == Effective(state[x].selected, req[r].context)
           entered(pc, a) == [req[r] EXCEPT !.pc = pc, !.answer = a, !.effective = scope,
                                            !.source = state[x].source, !.by = state[x].by]
<1>1. req[r] \in RequestRecords
  BY RequestParts
<1>2. \/ /\ Turns(r, entered("admitted", None))
         /\ Authorized(req[r].call, scope, req[r].context, req[r].creates)
      \/ Turns(r, entered("answered", "denied"))
  BY DEF Enter
<1> HIDE DEF scope
<1>3. \/ /\ req'[r] = entered("admitted", None)
         /\ Authorized(req[r].call, scope, req[r].context, req[r].creates)
      \/ req'[r] = entered("answered", "denied")
  BY <1>2 DEF Turns, TypeOK
<1>4. /\ req'[r].pc \in {"admitted", "answered"}
      /\ req'[r].pc = "admitted" =>
            Authorized(req[r].call, scope, req[r].context, req[r].creates)
      /\ req'[r].effective = scope
      /\ req'[r].context = req[r].context
      /\ req'[r].source = state[x].source /\ req'[r].by = state[x].by
      /\ req'[r].state = x /\ req'[r].served = req[r].served
  BY ZenonT(40), <1>1, <1>3 DEF RequestRecords
<1> QED
  BY <1>4 DEF scope

LEMMA ServeFields ==
    ASSUME TypeOK, NEW r \in Requests, Serve(r)
    PROVE  LET call == req[r].call
               target == IF call.tool = "read" THEN call.domain
                         ELSE Target(call, req[r].effective)
           IN
           /\ req'[r].pc = "responding"
           /\ req'[r].served = IF target = None THEN {} ELSE {<<target, call.tool>>}
           /\ req'[r].context = req[r].context
           /\ req'[r].source = req[r].source /\ req'[r].by = req[r].by
           /\ req'[r].state = req[r].state
<1> DEFINE call == req[r].call
           target == IF call.tool = "read" THEN call.domain
                     ELSE Target(call, req[r].effective)
           served == IF target = None THEN {} ELSE {<<target, call.tool>>}
<1>1. req[r] \in RequestRecords
  BY RequestParts
<1>2. req'[r] = [req[r] EXCEPT !.pc = "responding", !.served = served]
  BY DEF Serve, Turns, TypeOK
<1> HIDE DEF served
<1>3. /\ req'[r].pc = "responding"
      /\ req'[r].served = served
      /\ req'[r].context = req[r].context
      /\ req'[r].source = req[r].source /\ req'[r].by = req[r].by
      /\ req'[r].state = req[r].state
  BY <1>1, <1>2 DEF RequestRecords
<1> QED
  BY <1>3 DEF served

LEMMA SelectsFields ==
    ASSUME TypeOK, NEW r \in Requests, NEW scope, NEW effective, Selects(r, scope, effective)
    PROVE  /\ req'[r].pc = "responding"
           /\ req'[r].context = req[r].context
           /\ req'[r].source = "session" /\ req'[r].by = r
           /\ req'[r].state = req[r].state /\ req'[r].served = req[r].served
<1>1. req[r] \in RequestRecords
  BY RequestParts
<1>2. req'[r] = [req[r] EXCEPT !.pc = "responding", !.effective = effective,
                               !.source = "session", !.by = r]
  BY DEF Selects, Turns, TypeOK
<1> QED
  BY <1>1, <1>2 DEF RequestRecords

\* Only the locks lead a request to where its rows are held.
LEMMA OnlyLocksHold ==
    ASSUME TypeOK, NEW r \in Requests, Step(r) \/ AuthFails(r),
           req'[r].pc \in {"target", "commit"}
    PROVE  LockCaller(r) \/ LockTarget(r)
<1>1. ~(CheckToken(r) \/ ReadGrants(r))
  BY AuthenticationFields
<1>2. ~(Release(r) \/ RefuseForeign(r) \/ AuthFails(r) \/ Respond(r))
  BY AnswersFields DEF Release, RefuseForeign, AuthFails, Respond
<1>3. ~Resolve(r)
  BY ResolveFields DEF Resolve
<1>4. ~Enter(r)
  BY EnterFields
<1>5. ~Serve(r)
  BY ServeFields
<1>6. ~(Bind(r) \/ Provision(r))
  BY SelectsFields, GoesFields DEF Bind, Provision
<1>7. ~(BeginTool(r) \/ SetGrant(r) \/ WaitEnds(r))
  BY GoesFields DEF BeginTool, SetGrant, WaitEnds
<1> QED
  BY <1>1, <1>2, <1>3, <1>4, <1>5, <1>6, <1>7 DEF Step

LEMMA StepRows ==
    ASSUME TypeOK, RowsHeld, NEW r \in Requests, Step(r) \/ AuthFails(r)
    PROVE  RowsHeld'
<1>a. PICK q : SameRequest(r, q)
  BY RequestShape
<1>b. /\ req'[r].token = req[r].token /\ req'[r].call = req[r].call
      /\ \A x \in Requests \ {r} : req'[x] = req[x]
  BY <1>a DEF SameRequest, Turns, TypeOK
<1>c. UNCHANGED token
  BY DatabaseShape
<1>d. Placed(req[r]) /\ (req[r].pc # "idle" => WellFormed(req[r].call))
  BY RequestParts
<1>e. None \notin Requests
  BY HostedAssumption
<1>1. ASSUME NEW x \in Requests \ {r}, NEW t \in Tokens, row[t] = x
      PROVE  row'[t] = x
  <2>1. CASE UNCHANGED row
    BY <1>1, <2>1
  <2>2. CASE row' = Rolled(r)
    BY <1>1, <2>2 DEF Rolled
  <2>3. CASE \E u \in Tokens : Free(u) /\ row' = [row EXCEPT ![u] = r]
    BY <1>1, <1>e, <2>3 DEF Free, TypeOK
  <2> QED
    BY <2>1, <2>2, <2>3, DatabaseShape
<1>2. ASSUME NEW x \in Requests \ {r}
      PROVE  /\ req'[x].pc \in {"target", "commit"} => row'[req'[x].token] = x
             /\ req'[x].pc = "commit" =>
                   row'[req'[x].call.target] = x /\ token'[req'[x].call.target].live
  <2>1. Placed(req[x])
    BY DEF TypeOK
  <2>2. req[x].pc = "commit" => req[x].call.target \in Tokens
    BY RequestParts
  <2> QED
    BY <1>1, <1>b, <1>c, <2>1, <2>2 DEF RowsHeld, Placed
<1>3. /\ req'[r].pc \in {"target", "commit"} => row'[req'[r].token] = r
      /\ req'[r].pc = "commit" =>
            row'[req'[r].call.target] = r /\ token'[req'[r].call.target].live
  <2>1. CASE LockCaller(r)
    <3>1. req'[r].pc # "commit"
      BY <2>1, RequestParts DEF LockCaller, Goes, Turns, RequestRecords, TypeOK
    <3>2. req'[r].pc = "target" => row' = [row EXCEPT ![req[r].token] = r]
      BY <2>1, RequestParts DEF LockCaller, Goes, Turns, RequestRecords, TypeOK
    <3> QED
      BY <1>b, <1>d, <2>1, <3>1, <3>2 DEF LockCaller, Placed, TypeOK
  <2>2. CASE LockTarget(r)
    <3>1. req[r].token \in Tokens /\ req[r].call.target \in Tokens
      BY <1>d, <2>2, RequestParts DEF LockTarget, Placed
    <3>2. \/ /\ row' = [row EXCEPT ![req[r].call.target] = r]
             /\ token[req[r].call.target].live
          \/ req'[r].pc \notin {"target", "commit"}
      BY <2>2, RequestParts DEF LockTarget, TargetHeld, Goes, Turns, RequestRecords, TypeOK
    <3>3. row[req[r].token] = r
      BY <2>2 DEF LockTarget, RowsHeld
    <3> QED
      BY <1>b, <1>c, <3>1, <3>2, <3>3 DEF TypeOK
  <2> QED
    BY <2>1, <2>2, OnlyLocksHold
<1> QED
  BY <1>2, <1>3 DEF RowsHeld

-----------------------------------------------------------------------------
(* What is outside the requests *)

\* The operator and time keep the types, the rows, and revoked tokens without grants.
LEMMA OutsideType ==
    ASSUME TypeOK, RowsHeld, RevokedHasNothing,
           \/ \E t \in Tokens : Revoke(t) \/ SetCreate(t)
           \/ \E t \in Tokens, d \in Domains : SetManagement(t, d)
           \/ SetActive \/ DayPasses
    PROVE  /\ TypeOK' /\ RowsHeld' /\ RevokedHasNothing'
           /\ UNCHANGED <<req, state>>
<1>a. None \notin Requests
  BY HostedAssumption
<1>b. \A r \in Requests : req[r].pc = "commit" => req[r].call.target \in Tokens
  BY RequestParts
<1>1. ASSUME NEW t \in Tokens, Revoke(t)
      PROVE  /\ TypeOK' /\ RowsHeld' /\ RevokedHasNothing'
             /\ UNCHANGED <<req, state>>
  <2>1. /\ token' = [token EXCEPT ![t] = [@ EXCEPT !.live = FALSE]]
        /\ grant' = [grant EXCEPT ![t] = [read |-> {}, write |-> {}]]
        /\ managed' = [managed EXCEPT ![t] = {}]
        /\ row[t] = None
        /\ UNCHANGED <<active, row, table, state, req>>
    BY <1>1 DEF Revoke, Free
  <2>2. [read |-> {}, write |-> {}] \in Grants
    BY DEF Grants
  <2>3. TypeOK'
    BY <2>1, <2>2 DEF TypeOK
  <2>4. RowsHeld'
    BY <1>a, <1>b, <2>1 DEF RowsHeld, TypeOK
  <2>5. RevokedHasNothing'
    BY <2>1 DEF RevokedHasNothing, TypeOK
  <2> QED
    BY <2>1, <2>3, <2>4, <2>5
<1>2. ASSUME NEW t \in Tokens, SetCreate(t)
      PROVE  /\ TypeOK' /\ RowsHeld' /\ RevokedHasNothing'
             /\ UNCHANGED <<req, state>>
  <2>1. /\ \E b \in BOOLEAN : token' = [token EXCEPT ![t] = [@ EXCEPT !.creates = b]]
        /\ UNCHANGED <<active, grant, managed, row, table, state, req>>
    BY <1>2 DEF SetCreate, TypeOK
  <2>2. /\ token' \in [Tokens -> [live : BOOLEAN, creates : BOOLEAN]]
        /\ \A u \in Tokens : token'[u].live = token[u].live
    BY <2>1 DEF TypeOK
  <2> QED
    BY <1>b, <2>1, <2>2 DEF TypeOK, RowsHeld, RevokedHasNothing
<1>3. ASSUME NEW t \in Tokens, NEW d \in Domains, SetManagement(t, d)
      PROVE  /\ TypeOK' /\ RowsHeld' /\ RevokedHasNothing'
             /\ UNCHANGED <<req, state>>
  BY <1>3 DEF SetManagement, TypeOK, RowsHeld, RevokedHasNothing
<1>4. CASE SetActive
  BY <1>4 DEF SetActive, TypeOK, RowsHeld, RevokedHasNothing
<1>5. CASE DayPasses
  <2>1. \A e \in table' : \E f \in table :
          f.token = e.token /\ f.session = e.session /\ f.state = e.state
    BY <1>5 DEF DayPasses, Record
  <2>2. \A e \in table' : e.token \in Tokens /\ e.session \in Sessions /\ e.state \in Requests
    BY <2>1 DEF TypeOK
  <2> QED
    BY <1>5, <2>2 DEF DayPasses, dbVars, TypeOK, RowsHeld, RevokedHasNothing
<1> QED
  BY <1>1, <1>2, <1>3, <1>4, <1>5

\* A restart ends the requests and their transactions.
LEMMA RestartType ==
    ASSUME TypeOK, RowsHeld, RevokedHasNothing, Restart
    PROVE  TypeOK' /\ RowsHeld' /\ RevokedHasNothing'
<1>1. ASSUME NEW r \in Requests
      PROVE  /\ req'[r] \in RequestRecords /\ Placed(req'[r])
             /\ req'[r].pc \notin {"target", "commit"}
  <2>1. req[r] \in RequestRecords /\ Placed(req[r])
    BY RequestParts
  <2>2. CASE InFlight(r)
    <3> DEFINE q == [req[r] EXCEPT !.pc = "answered", !.answer = "lost"]
    <3>1. req'[r] = q
      BY <2>2 DEF Restart
    <3>2. q \in RequestRecords /\ q.pc = "answered" /\ q.token = req[r].token
          /\ q.session = req[r].session /\ q.call = req[r].call
      BY ZenonT(40), <2>1 DEF RequestRecords, Places, Replies
    <3> HIDE DEF q
    <3> QED
      BY <2>1, <2>2, <3>1, <3>2 DEF Placed, InFlight
  <2>3. CASE ~InFlight(r)
    BY <2>1, <2>3 DEF Restart, InFlight
  <2> QED
    BY <2>2, <2>3
<1>2. req' \in [Requests -> RequestRecords]
  BY <1>1 DEF Restart
<1>3. state' \in [Requests -> BindingStates]
  <2>1. ASSUME NEW x \in Requests
        PROVE  [state[x] EXCEPT !.holder = None] \in BindingStates
    BY DEF TypeOK, BindingStates
  <2> QED
    BY <2>1 DEF Restart
<1>4. table' = {} /\ row' = [t \in Tokens |-> None] /\ UNCHANGED <<active, token, grant, managed>>
  BY DEF Restart
<1> QED
  BY <1>1, <1>2, <1>3, <1>4 DEF TypeOK, RowsHeld, RevokedHasNothing

\* A request comes, with what it asks.
LEMMA ArriveType ==
    ASSUME TypeOK, RowsHeld, RevokedHasNothing, NEW r \in Requests, NEW a \in Asked[r],
           Arrive(r, a)
    PROVE  TypeOK' /\ RowsHeld' /\ RevokedHasNothing'
<1> DEFINE q == [req[r] EXCEPT !.pc = "token", !.token = a.token, !.session = a.session,
                               !.call = a.call]
<1>1. a.token \in Tokens /\ a.session \in Sessions /\ a.call \in AllCalls
  BY HostedAssumption DEF AllCalls
<1>r. req[r] \in RequestRecords
  BY RequestParts
<1>2. /\ q \in RequestRecords /\ q.pc = "token" /\ q.token = a.token
      /\ q.session = a.session /\ q.call = a.call
  BY <1>1, <1>r DEF RequestRecords, Places
<1>3. req' = [req EXCEPT ![r] = q] /\ UNCHANGED <<dbVars, table, state>>
  BY DEF Arrive, Turns
<1> HIDE DEF q
<1>4. Placed(q)
  BY <1>1, <1>2 DEF Placed
<1>5. TypeOK'
  BY <1>2, <1>3, <1>4 DEF TypeOK, dbVars
<1>6. RowsHeld'
  BY <1>2, <1>3 DEF RowsHeld, TypeOK, dbVars
<1> QED
  BY <1>3, <1>5, <1>6 DEF RevokedHasNothing, dbVars

\* The inductive invariant of the types, the rows and the revoked tokens.
Safe == TypeOK /\ RowsHeld /\ RevokedHasNothing

LEMMA InitSafe == Init => Safe
<1> SUFFICES ASSUME Init PROVE Safe
  OBVIOUS
<1>1. RowsHeld /\ RevokedHasNothing
  BY DEF Init, NoRequest, RowsHeld, RevokedHasNothing
<1> QED
  BY <1>1, InitType DEF Safe

LEMMA NextSafe == Safe /\ [Next]_vars => Safe'
<1> SUFFICES ASSUME TypeOK, RowsHeld, RevokedHasNothing, [Next]_vars
             PROVE  TypeOK' /\ RowsHeld' /\ RevokedHasNothing'
  BY DEF Safe
<1>1. CASE \E r \in Requests : Step(r) \/ AuthFails(r)
  BY <1>1, StepType, StepRows
<1>2. CASE \E r \in Requests : \E a \in Asked[r] : Arrive(r, a)
  BY <1>2, ArriveType
<1>3. CASE Restart
  BY <1>3, RestartType
<1>4. CASE UNCHANGED vars
  BY <1>4 DEF vars, TypeOK, RowsHeld, RevokedHasNothing
<1> QED
  BY <1>1, <1>2, <1>3, <1>4, OutsideType, StepCases

LEMMA SafeAlways == Spec => []Safe
BY InitSafe, NextSafe, PTL DEF Spec

\* Whatever a request asks, every variable stays in its type.
THEOREM TypeCorrect == Spec => []TypeOK
<1>1. Safe => TypeOK
  BY DEF Safe
<1> QED
  BY <1>1, SafeAlways, PTL

\* A revoked token has no grants and manages nothing, whatever transactions were
\* granting it domains, or creating its own, when it was revoked.
THEOREM RevokedTokensHaveNothing == Spec => []RevokedHasNothing
<1>1. Safe => RevokedHasNothing
  BY DEF Safe
<1> QED
  BY <1>1, SafeAlways, PTL

-----------------------------------------------------------------------------
(* What is served *)

Authenticated ==
    {"known", "queued", "admitted", "caller", "target", "commit", "responding"}

\* What a request's tool serves.
Serves(q) ==
    LET target == IF q.call.tool = "read" THEN q.call.domain
                  ELSE Target(q.call, q.effective)
    IN IF target = None THEN {} ELSE {<<target, q.call.tool>>}

\* What a request may do is what its token was granted while it was served, and
\* an admitted tool does nothing else.
WithinGrants(r) ==
    /\ req[r].pc \in Authenticated => Powers(req[r].context) \subseteq held[r]
    /\ req[r].pc = "admitted" /\ req[r].call.tool \in {"read", "write"} =>
          Serves(req[r]) \subseteq Powers(req[r].context)
    /\ req[r].served \subseteq held[r]

AllWithinGrants == \A r \in Requests : WithinGrants(r)

\* The gate admits a reading or writing tool only within the effective binding.
LEMMA AdmittedWithin ==
    ASSUME NEW q \in RequestRecords, NEW selected \in Scopes,
           q.effective = Effective(selected, q.context),
           Authorized(q.call, q.effective, q.context, q.creates),
           q.call.tool \in {"read", "write"}
    PROVE  Serves(q) \subseteq Powers(q.context)
<1>1. q.context \in Contexts
  BY DEF RequestRecords
<1>2. /\ q.effective.read \subseteq q.context.read
      /\ q.effective.write \subseteq q.context.write
  BY <1>1, EffectiveType
<1>3. CASE q.call.tool = "read"
  BY <1>2, <1>3 DEF Authorized, Serves, Powers
<1>4. CASE q.call.tool = "write"
  BY <1>2, <1>4 DEF Authorized, Serves, Powers
<1> QED
  BY <1>3, <1>4

LEMMA RememberGrows ==
    ASSUME Remember, NEW r \in Requests
    PROVE  /\ held[r] \subseteq held'[r]
           /\ req'[r].pc # "idle" /\ req[r].pc # "answered" =>
                 Powers(grant[req'[r].token]) \subseteq held'[r]
BY DEF Remember

LEMMA StepWithin ==
    ASSUME TypeOK, AllWithinGrants, NEW r \in Requests, Step(r) \/ AuthFails(r), Remember
    PROVE  AllWithinGrants'
<1>a. PICK q : SameRequest(r, q)
  BY RequestShape
<1>b. /\ req'[r] = q /\ q.token = req[r].token /\ q.call = req[r].call
      /\ \A x \in Requests \ {r} : req'[x] = req[x]
  BY <1>a DEF SameRequest, Turns, TypeOK
<1>c. WithinGrants(r) /\ held[r] \subseteq held'[r]
  BY RememberGrows DEF AllWithinGrants
<1>1. ASSUME NEW x \in Requests \ {r}
      PROVE  WithinGrants(x)'
  <2>1. WithinGrants(x) /\ held[x] \subseteq held'[x] /\ req'[x] = req[x]
    BY <1>b, RememberGrows DEF AllWithinGrants
  <2> QED
    BY <2>1 DEF WithinGrants
<1> SUFFICES WithinGrants(r)'
  BY <1>1 DEF AllWithinGrants
<1>2. ASSUME req'[r].served = req[r].served, req'[r].pc # "admitted",
             \/ req'[r].pc \notin Authenticated
             \/ req[r].pc \in Authenticated /\ req'[r].context = req[r].context
      PROVE  WithinGrants(r)'
  BY <1>2, <1>c DEF WithinGrants
<1>3. CASE CheckToken(r) \/ ReadGrants(r)
  <2>1. CASE req'[r].pc = "known"
    <3>1. /\ ReadGrants(r)
          /\ Powers(req'[r].context) = Powers(grant[req[r].token])
          /\ req'[r].served = req[r].served
      BY <1>3, <2>1, AuthenticationFields DEF Powers
    <3>2. Powers(grant[req[r].token]) \subseteq held'[r]
      BY <1>b, <2>1, <3>1, RememberGrows DEF ReadGrants
    <3> QED
      BY <1>c, <2>1, <3>1, <3>2 DEF WithinGrants
  <2>2. CASE req'[r].pc # "known"
    BY <1>2, <1>3, <2>2, AuthenticationFields DEF Authenticated
  <2> QED
    BY <2>1, <2>2
<1>4. CASE Release(r) \/ RefuseForeign(r) \/ AuthFails(r) \/ Respond(r)
  BY <1>2, <1>4, AnswersFields DEF Release, RefuseForeign, AuthFails, Respond, Authenticated
<1>5. CASE Resolve(r)
  <2>1. \E x : Turns(r, [req[r] EXCEPT !.pc = "queued", !.state = x])
    BY <1>5 DEF Resolve
  <2> QED
    BY <1>2, <1>5, <2>1, ResolveFields DEF Resolve, Authenticated
<1>6. CASE Enter(r)
  <2> DEFINE selected == state[req[r].state].selected
  <2>1. selected \in Scopes
    BY <1>6, RequestParts DEF Enter, Placed, TypeOK, BindingStates
  <2>2. /\ req'[r].effective = Effective(selected, req[r].context)
        /\ req'[r].context = req[r].context
        /\ req'[r].served = req[r].served
        /\ req'[r].pc = "admitted" =>
              Authorized(req[r].call, req'[r].effective, req[r].context, req[r].creates)
    BY <1>6, EnterFields
  <2>3. ASSUME req'[r].pc = "admitted", req'[r].call.tool \in {"read", "write"}
        PROVE  Serves(req'[r]) \subseteq Powers(req'[r].context)
    <3>1. Authorized(q.call, q.effective, q.context, q.creates)
      BY <1>b, <2>2, <2>3 DEF Authorized
    <3> QED
      BY <1>a, <1>b, <2>1, <2>2, <2>3, <3>1, AdmittedWithin DEF SameRequest
  <2>4. Powers(req'[r].context) \subseteq held'[r]
    BY <1>6, <1>c, <2>2 DEF Enter, WithinGrants, Authenticated
  <2> QED
    BY <1>c, <2>2, <2>3, <2>4 DEF WithinGrants
<1>7. CASE Serve(r)
  <2>1. /\ req[r].pc = "admitted" /\ req[r].call.tool \in {"read", "write"}
    BY <1>7 DEF Serve, Runs
  <2>2. /\ req'[r].pc = "responding" /\ req'[r].context = req[r].context
        /\ req'[r].served = Serves(req[r])
    BY <1>7, ServeFields DEF Serves
  <2> QED
    BY <1>c, <2>1, <2>2 DEF WithinGrants, Authenticated
<1>8. CASE Bind(r) \/ Provision(r)
  <2>1. /\ req'[r].pc = "responding" /\ req'[r].context = req[r].context
        /\ req'[r].served = req[r].served
    BY ZenonT(40), <1>8, SelectsFields, GoesFields DEF Bind, Provision
  <2> QED
    BY <1>2, <1>8, <2>1 DEF Bind, Runs, Provision, Authenticated
<1>9. CASE BeginTool(r) \/ LockCaller(r) \/ LockTarget(r) \/ SetGrant(r) \/ WaitEnds(r)
  <2>1. /\ req'[r].pc # "admitted" /\ req'[r].context = req[r].context
        /\ req'[r].served = req[r].served
    <3>1. Goes(r, "caller") \/ Goes(r, "target") \/ Goes(r, "commit") \/ Goes(r, "responding")
      BY <1>9 DEF BeginTool, LockCaller, LockTarget, SetGrant, WaitEnds
    <3> QED
      BY <3>1, GoesFields
  <2>2. req[r].pc \in Authenticated
    BY <1>9 DEF BeginTool, Runs, LockCaller, LockTarget, SetGrant, WaitEnds, Waits, Awaits,
                Authenticated
  <2> QED
    BY <1>2, <2>1, <2>2
<1> QED
  BY <1>3, <1>4, <1>5, <1>6, <1>7, <1>8, <1>9 DEF Step

\* A step that leaves the requests alone, or ends them, or begins one.
LEMMA OtherWithin ==
    ASSUME AllWithinGrants, Remember,
           \A r \in Requests :
               /\ req'[r].served = req[r].served
               /\ \/ req'[r] = req[r]
                  \/ req'[r].pc \in {"token", "answered"}
    PROVE  AllWithinGrants'
<1> SUFFICES ASSUME NEW r \in Requests PROVE WithinGrants(r)'
  BY DEF AllWithinGrants
<1>1. WithinGrants(r) /\ held[r] \subseteq held'[r]
  BY RememberGrows DEF AllWithinGrants
<1>2. CASE req'[r] = req[r]
  BY <1>1, <1>2 DEF WithinGrants
<1>3. CASE req'[r].pc \in {"token", "answered"}
  BY <1>1, <1>3 DEF WithinGrants, Authenticated
<1> QED
  BY <1>2, <1>3

\* What a restart and an arrival make of the requests.
LEMMA RestartFields ==
    ASSUME TypeOK, Restart, NEW r \in Requests
    PROVE  /\ req'[r] = req[r] \/ req'[r].pc = "answered"
           /\ req[r].pc = "idle" <=> req'[r].pc = "idle"
           /\ req'[r].token = req[r].token /\ req'[r].session = req[r].session
           /\ req'[r].call = req[r].call /\ req'[r].state = req[r].state
           /\ req'[r].source = req[r].source /\ req'[r].by = req[r].by
           /\ req'[r].served = req[r].served
<1>1. req[r] \in RequestRecords
  BY RequestParts
<1>2. CASE InFlight(r)
  <2>1. req'[r] = [req[r] EXCEPT !.pc = "answered", !.answer = "lost"]
    BY <1>2 DEF Restart
  <2> QED
    BY <1>1, <1>2, <2>1 DEF RequestRecords, InFlight
<1>3. CASE ~InFlight(r)
  BY <1>3 DEF Restart
<1> QED
  BY <1>2, <1>3

LEMMA ArriveFields ==
    ASSUME TypeOK, NEW r \in Requests, NEW a \in Asked[r], Arrive(r, a)
    PROVE  /\ req[r].pc = "idle" /\ req'[r].pc = "token"
           /\ req'[r].state = req[r].state /\ req'[r].source = req[r].source
           /\ req'[r].by = req[r].by /\ req'[r].served = req[r].served
           /\ \A x \in Requests \ {r} : req'[x] = req[x]
           /\ UNCHANGED <<table, state>>
<1>1. req[r] \in RequestRecords
  BY RequestParts
<1>2. req'[r] = [req[r] EXCEPT !.pc = "token", !.token = a.token, !.session = a.session,
                               !.call = a.call]
  BY DEF Arrive, Turns, TypeOK
<1> QED
  BY <1>1, <1>2 DEF Arrive, Turns, RequestRecords, TypeOK

LEMMA InitWithin == Init => AllWithinGrants
BY DEF Init, NoRequest, AllWithinGrants, WithinGrants, Authenticated

LEMMA NextWithin == Safe /\ AllWithinGrants /\ [Next]_vars => AllWithinGrants'
<1> SUFFICES ASSUME TypeOK, RowsHeld, RevokedHasNothing, AllWithinGrants, [Next]_vars
             PROVE  AllWithinGrants'
  BY DEF Safe
<1>1. CASE \E r \in Requests : (Step(r) \/ AuthFails(r)) /\ Remember
  BY <1>1, StepWithin
<1>2. CASE \E r \in Requests : \E a \in Asked[r] : Arrive(r, a) /\ Remember
  <2>1. \A r \in Requests : /\ req'[r].served = req[r].served
                            /\ req'[r] = req[r] \/ req'[r].pc \in {"token", "answered"}
    BY <1>2, ArriveFields
  <2> QED
    BY <1>2, <2>1, OtherWithin
<1>3. CASE Restart /\ Remember
  BY <1>3, RestartFields, OtherWithin
<1>4. CASE /\ \/ \E t \in Tokens : Revoke(t) \/ SetCreate(t)
              \/ \E t \in Tokens, d \in Domains : SetManagement(t, d)
              \/ SetActive \/ DayPasses
           /\ Remember
  BY <1>4, OutsideType, OtherWithin
<1>5. CASE UNCHANGED vars
  BY <1>5 DEF vars, AllWithinGrants, WithinGrants
<1> QED
  BY <1>1, <1>2, <1>3, <1>4, <1>5, StepCases

\* A request reads and writes only what its token was granted at some moment of
\* that request, whatever its session had selected before.
THEOREM ServedIsGranted == Spec => []ServedWithinGrants
<1>1. AllWithinGrants => ServedWithinGrants
  BY DEF AllWithinGrants, WithinGrants, ServedWithinGrants
<1> QED
  BY <1>1, SafeAlways, InitWithin, NextWithin, PTL DEF Spec

-----------------------------------------------------------------------------
(* Whose selection it is *)

\* Two requests of one session under one token.
SameSession(x, y) ==
    /\ x \in Requests /\ y \in Requests
    /\ req[x].pc # "idle" /\ req[y].pc # "idle"
    /\ req[x].token = req[y].token /\ req[x].session = req[y].session

Selecting(x, y) == SameSession(x, y) /\ req[x].call.tool \in {"bind", "create"}

\* Whatever is recorded, used or selected belongs to one session and one token.
Separate ==
    /\ \A e \in table : /\ req[e.state].pc # "idle"
                        /\ e.token = req[e.state].token /\ e.session = req[e.state].session
    /\ \A r \in Requests : req[r].pc = "idle" => req[r].state = None /\ req[r].source = None
    /\ \A r \in Requests : req[r].state # None => SameSession(req[r].state, r)
    /\ \A r \in Requests : req[r].source = "session" => Selecting(req[r].by, r)
    /\ \A x \in Requests : state[x].source = "session" => Selecting(state[x].by, x)

LEMMA InitSeparate == Init => Separate
BY HostedAssumption DEF Init, NoRequest, NoState, Separate

\* Requests that came stay whose they are.
LEMMA SameSessionStays ==
    ASSUME \A r \in Requests : req[r].pc # "idle" =>
              /\ req'[r].pc # "idle" /\ req'[r].token = req[r].token
              /\ req'[r].session = req[r].session /\ req'[r].call = req[r].call
    PROVE  \A x, y : SameSession(x, y) =>
              /\ x \in Requests /\ y \in Requests
              /\ req'[x].pc # "idle" /\ req'[y].pc # "idle"
              /\ req'[x].token = req'[y].token /\ req'[x].session = req'[y].session
              /\ req'[x].call = req[x].call
BY DEF SameSession

LEMMA StepSeparate ==
    ASSUME TypeOK, Separate, NEW r \in Requests, Step(r) \/ AuthFails(r)
    PROVE  Separate'
<1>a. PICK q : SameRequest(r, q)
  BY RequestShape
<1>b. /\ req'[r] = q /\ req'[r].pc # "idle" /\ req'[r].token = req[r].token
      /\ req'[r].session = req[r].session /\ req'[r].call = req[r].call
      /\ \A x \in Requests \ {r} : req'[x] = req[x]
  BY <1>a DEF SameRequest, Turns, TypeOK
<1>c. req[r].pc # "idle"
  BY DEF Step, CheckToken, ReadGrants, Release, RefuseForeign, Resolve, Enter, Serve, Bind,
         BeginTool, Runs, Provision, LockCaller, LockTarget, SetGrant, WaitEnds, Waits, Awaits,
         Respond, AuthFails
<1>d. \A x, y : SameSession(x, y) =>
         /\ x \in Requests /\ y \in Requests
         /\ req'[x].pc # "idle" /\ req'[y].pc # "idle"
         /\ req'[x].token = req'[y].token /\ req'[x].session = req'[y].session
         /\ req'[x].call = req[x].call
  BY <1>b, SameSessionStays
<1>e. None \notin Requests /\ None # "session"
  BY HostedAssumption
<1>f. Placed(req[r])
  BY RequestParts
<1>1. ASSUME NEW e \in table'
      PROVE  /\ req'[e.state].pc # "idle"
             /\ e.token = req'[e.state].token /\ e.session = req'[e.state].session
  <2>1. ASSUME NEW f \in table
        PROVE  /\ req'[f.state].pc # "idle"
               /\ f.token = req'[f.state].token /\ f.session = req'[f.state].session
    BY <1>b DEF Separate, TypeOK
  <2>2. CASE req[r].pc = "responding" /\ e.state = req[r].state
             /\ e.session = req[r].session /\ e.token = req[r].token
    <3>1. SameSession(e.state, r)
      BY <1>e, <1>f, <2>2 DEF Placed, Separate
    <3> QED
      BY <1>b, <1>d, <2>2, <3>1
  <2> QED
    BY <2>1, <2>2, TableShape
<1>2. ASSUME NEW x \in Requests, req'[x].pc = "idle"
      PROVE  req'[x].state = None /\ req'[x].source = None
  BY <1>b, <1>2 DEF Separate
<1> DEFINE Used == req'[r].state # None => SameSession(req'[r].state, r)
           Source == req'[r].source = "session" => Selecting(req'[r].by, r)
           States == \A x \in Requests : state'[x].source = "session" => Selecting(state'[x].by, x)
<1>3. Used /\ Source /\ States
  <2>0. ASSUME req'[r].state = req[r].state PROVE Used
    BY <2>0 DEF Separate
  <2>1. ASSUME req'[r].source = req[r].source, req'[r].by = req[r].by PROVE Source
    BY <2>1 DEF Separate
  <2>2. ASSUME UNCHANGED state PROVE States
    BY <2>2 DEF Separate
  <2>3. CASE CheckToken(r) \/ ReadGrants(r)
    BY <2>0, <2>1, <2>2, <2>3, AuthenticationFields DEF CheckToken, ReadGrants
  <2>4. CASE Release(r) \/ RefuseForeign(r) \/ AuthFails(r)
    BY <2>0, <2>1, <2>2, <2>4, AnswersFields DEF Release, RefuseForeign, AuthFails
  <2>5. CASE Resolve(r)
    <3> DEFINE s == req[r].session
               t == req[r].token
    <3>1. \/ /\ state' = [state EXCEPT ![r] = TokenDefault(req[r].context)]
             /\ Turns(r, [req[r] EXCEPT !.pc = "queued", !.state = r])
          \/ /\ UNCHANGED state
             /\ \E e \in Recorded(Pruned(table), s) :
                   Owns(e, t) /\ Turns(r, [req[r] EXCEPT !.pc = "queued", !.state = e.state])
      BY <2>5 DEF Resolve
    <3>2. CASE /\ state' = [state EXCEPT ![r] = TokenDefault(req[r].context)]
               /\ Turns(r, [req[r] EXCEPT !.pc = "queued", !.state = r])
      <4>1. Used
        BY <1>c, <3>2, ResolveFields DEF SameSession
      <4>2. Source
        BY <2>1, <3>2, ResolveFields
      <4>3. \A x \in Requests : \/ state'[x] = state[x]
                                \/ state'[x].source = "token_default"
        BY <3>2 DEF TokenDefault, TypeOK
      <4> QED
        BY <4>1, <4>2, <4>3 DEF Separate
    <3>3. ASSUME NEW e \in Recorded(Pruned(table), s), Owns(e, t), UNCHANGED state,
                 Turns(r, [req[r] EXCEPT !.pc = "queued", !.state = e.state])
          PROVE  Used /\ Source /\ States
      <4>0. /\ Pruned(table) \subseteq table
            /\ Recorded(Pruned(table), s) \subseteq Pruned(table)
            /\ \A f \in Recorded(Pruned(table), s) : f.session = s
        BY TableParts
      <4>1. e \in table /\ e.session = s /\ e.token = t
        BY <3>3, <4>0 DEF Owns
      <4>2. SameSession(e.state, r)
        BY <1>c, <4>1 DEF Separate, SameSession, TypeOK
      <4> QED
        BY <2>1, <2>2, <3>3, <4>2, ResolveFields
    <3> QED
      BY <3>1, <3>2, <3>3
  <2>6. CASE Enter(r)
    <3> DEFINE x == req[r].state
    <3>1. x \in Requests /\ SameSession(x, r)
      BY <1>e, <1>f, <2>6 DEF Enter, Placed, Separate
    <3>2. req'[r].source = state[x].source /\ req'[r].by = state[x].by /\ req'[r].state = x
      BY <2>6, EnterFields
    <3>3. Source
      <4>1. state[x].source = "session" => Selecting(state[x].by, x)
        BY <3>1 DEF Separate
      <4>2. \A b : Selecting(b, x) => Selecting(b, r)
        BY <3>1 DEF Selecting, SameSession
      <4> QED
        BY <3>2, <4>1, <4>2
    <3>4. \A y \in Requests : /\ state'[y].source = state[y].source
                              /\ state'[y].by = state[y].by
      <4>1. state[x] \in BindingStates
        BY <3>1 DEF TypeOK
      <4> QED
        BY <2>6, <3>1, <4>1 DEF Enter, BindingStates, TypeOK
    <3> QED
      BY <2>0, <3>2, <3>3, <3>4 DEF Separate
  <2>7. CASE Serve(r)
    BY <2>0, <2>1, <2>2, <2>7, ServeFields DEF Serve
  <2>8. ASSUME NEW scope, NEW effective, Selects(r, scope, effective),
               req[r].pc \in {"admitted", "caller"}, req[r].call.tool \in {"bind", "create"}
        PROVE  Used /\ Source /\ States
    <3> DEFINE x == req[r].state
    <3>1. x \in Requests /\ SameSession(x, r)
      BY <1>e, <1>f, <2>8 DEF Placed, Separate
    <3>2. Selecting(r, r) /\ Selecting(r, x)
      BY <1>c, <2>8, <3>1 DEF Selecting, SameSession
    <3>3. \A y \in Requests : \/ state'[y] = state[y]
                              \/ y = x /\ state'[y].by = r
      <4>1. state[x] \in BindingStates
        BY <3>1 DEF TypeOK
      <4> QED
        BY <2>8, <3>1, <4>1 DEF Selects, BindingStates, TypeOK
    <3> QED
      BY <2>0, <2>8, <3>2, <3>3, SelectsFields DEF Separate
  <2>9. CASE Bind(r)
    BY <2>8, <2>9 DEF Bind, Runs
  <2>10. CASE Provision(r)
    <3>1. \/ UNCHANGED state /\ Goes(r, "responding")
          \/ \E scope, effective : Selects(r, scope, effective)
      BY <2>10 DEF Provision
    <3> QED
      BY <2>0, <2>1, <2>2, <2>8, <2>10, <3>1, GoesFields DEF Provision
  <2>11. CASE BeginTool(r) \/ LockCaller(r) \/ LockTarget(r) \/ SetGrant(r) \/ WaitEnds(r)
    BY <2>0, <2>1, <2>2, <2>11, GoesFields
       DEF BeginTool, LockCaller, LockTarget, SetGrant, WaitEnds
  <2>12. CASE Respond(r)
    <3> DEFINE x == req[r].state
    <3>1. x \in Requests
      BY <1>f, <2>12 DEF Respond, Placed
    <3>2. \A y \in Requests : /\ state'[y].source = state[y].source
                              /\ state'[y].by = state[y].by
      <4>1. state[x] \in BindingStates
        BY <3>1 DEF TypeOK
      <4> QED
        BY <2>12, <3>1, <4>1 DEF Respond, BindingStates, TypeOK
    <3> QED
      BY <2>0, <2>1, <2>12, <3>2, AnswersFields DEF Respond, Separate
  <2> QED
    BY <2>3, <2>4, <2>5, <2>6, <2>7, <2>9, <2>10, <2>11, <2>12 DEF Step
<1>4. ASSUME NEW x \in Requests
      PROVE  /\ req'[x].state # None => SameSession(req'[x].state, x)
             /\ req'[x].source = "session" => Selecting(req'[x].by, x)
  BY <1>3, <1>b DEF Separate
<1> HIDE DEF Used, Source
<1>5. ASSUME NEW x \in Requests
      PROVE  /\ (req[x].state # None => SameSession(req[x].state, x))'
             /\ (req[x].source = "session" => Selecting(req[x].by, x))'
             /\ (state[x].source = "session" => Selecting(state[x].by, x))'
  <2>1. (req[x].state # None => SameSession(req[x].state, x))'
    BY <1>4, <1>d DEF SameSession
  <2>2. (req[x].source = "session" => Selecting(req[x].by, x))'
    BY <1>4, <1>d DEF Selecting, SameSession
  <2>3. (state[x].source = "session" => Selecting(state[x].by, x))'
    BY <1>3, <1>d DEF Selecting, SameSession
  <2> QED
    BY <2>1, <2>2, <2>3
<1> QED
  BY <1>1, <1>2, <1>5 DEF Separate

\* A step that keeps whose every request is, and what is recorded of it.
LEMMA KeepsSeparate ==
    ASSUME TypeOK, Separate,
           \A r \in Requests :
               /\ req[r].pc # "idle" =>
                     /\ req'[r].pc # "idle" /\ req'[r].token = req[r].token
                     /\ req'[r].session = req[r].session /\ req'[r].call = req[r].call
               /\ req'[r].state = req[r].state /\ req'[r].source = req[r].source
               /\ req'[r].by = req[r].by
               /\ state'[r].source = state[r].source /\ state'[r].by = state[r].by,
           \A r \in Requests : req'[r].pc = "idle" => req[r].pc = "idle",
           \A e \in table' : \E f \in table :
               f.token = e.token /\ f.session = e.session /\ f.state = e.state
    PROVE  Separate'
<1>1. \A x, y : SameSession(x, y) =>
         /\ x \in Requests /\ y \in Requests
         /\ req'[x].pc # "idle" /\ req'[y].pc # "idle"
         /\ req'[x].token = req'[y].token /\ req'[x].session = req'[y].session
         /\ req'[x].call = req[x].call
  BY SameSessionStays
<1>2. ASSUME NEW e \in table'
      PROVE  /\ req'[e.state].pc # "idle"
             /\ e.token = req'[e.state].token /\ e.session = req'[e.state].session
  BY DEF Separate, TypeOK
<1>3. ASSUME NEW x \in Requests
      PROVE  /\ (req[x].state # None => SameSession(req[x].state, x))'
             /\ (req[x].source = "session" => Selecting(req[x].by, x))'
             /\ (state[x].source = "session" => Selecting(state[x].by, x))'
  <2>1. (req[x].state # None => SameSession(req[x].state, x))'
    BY <1>1 DEF Separate, SameSession
  <2>2. (req[x].source = "session" => Selecting(req[x].by, x))'
    <3>1. req'[x].source = "session" => Selecting(req'[x].by, x)
      BY DEF Separate
    <3> QED
      BY <1>1, <3>1 DEF Selecting, SameSession
  <2>3. (state[x].source = "session" => Selecting(state[x].by, x))'
    <3>1. state'[x].source = "session" => Selecting(state'[x].by, x)
      BY DEF Separate
    <3> QED
      BY <1>1, <3>1 DEF Selecting, SameSession
  <2> QED
    BY <2>1, <2>2, <2>3
<1>4. ASSUME NEW x \in Requests, req'[x].pc = "idle"
      PROVE  req'[x].state = None /\ req'[x].source = None
  BY <1>4 DEF Separate
<1> QED
  BY <1>2, <1>3, <1>4 DEF Separate

LEMMA NextSeparate == Safe /\ Separate /\ [Next]_vars => Separate'
<1> SUFFICES ASSUME TypeOK, RowsHeld, RevokedHasNothing, Separate, [Next]_vars
             PROVE  Separate'
  BY DEF Safe
<1>1. CASE \E r \in Requests : Step(r) \/ AuthFails(r)
  BY <1>1, StepSeparate
<1>2. ASSUME NEW r \in Requests, NEW a \in Asked[r], Arrive(r, a)
      PROVE  Separate'
  <2>1. /\ req[r].pc = "idle" /\ req'[r].pc = "token"
        /\ req'[r].state = req[r].state /\ req'[r].source = req[r].source
        /\ req'[r].by = req[r].by
        /\ \A x \in Requests \ {r} : req'[x] = req[x]
        /\ UNCHANGED <<table, state>>
    BY <1>2, ArriveFields
  <2> QED
    BY <2>1, KeepsSeparate
<1>3. CASE Restart
  <2>1. table' = {}
    BY <1>3 DEF Restart
  <2>2. \A x \in Requests : state'[x].source = state[x].source /\ state'[x].by = state[x].by
    BY <1>3 DEF Restart, TypeOK, BindingStates
  <2> QED
    BY <1>3, <2>1, <2>2, RestartFields, KeepsSeparate
<1>4. CASE \/ \E t \in Tokens : Revoke(t) \/ SetCreate(t)
           \/ \E t \in Tokens, d \in Domains : SetManagement(t, d)
           \/ SetActive \/ DayPasses
  <2>1. UNCHANGED <<req, state>>
    BY <1>4, OutsideType
  <2>2. \A e \in table' : \E f \in table :
           f.token = e.token /\ f.session = e.session /\ f.state = e.state
    <3>1. CASE DayPasses
      BY <3>1 DEF DayPasses, Record
    <3>2. CASE ~DayPasses
      BY <1>4, <3>2 DEF Revoke, SetCreate, SetManagement, SetActive
    <3> QED
      BY <3>1, <3>2
  <2> QED
    BY <2>1, <2>2, KeepsSeparate
<1>5. CASE UNCHANGED vars
  BY <1>5, KeepsSeparate DEF vars
<1> QED
  BY <1>1, <1>2, <1>3, <1>4, <1>5, StepCases

\* A request whose answer says that it used the selection of its session used one
\* that a request of the same session, under the same token, has made.
THEOREM SelectionsStayWithTheirSession == Spec => []SessionsAreSeparate
<1>1. Separate => SessionsAreSeparate
  BY DEF Separate, Selecting, SameSession, SessionsAreSeparate
<1> QED
  BY <1>1, SafeAlways, InitSeparate, NextSeparate, PTL DEF Spec
=============================================================================
