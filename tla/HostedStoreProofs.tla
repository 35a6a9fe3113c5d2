--------------------------- MODULE HostedStoreProofs ---------------------------
(***************************************************************************)
(* Theorems of the hosted server's PostgreSQL storage, for every value of  *)
(* the constants: of PgPages, for any number of callers, slugs, texts,     *)
(* scenarios and calls, and of Maintenance, which reindexes the domains    *)
(* in the background, for any number of domains, request threads and       *)
(* workers and any admissible queue size.                                  *)
(***************************************************************************)
EXTENDS PgPages, Maintenance, FiniteSetTheorems, TLAPS

-----------------------------------------------------------------------------
(* Pages *)

LEMMA AbsentIsNothing ==
    /\ Absent \notin Texts /\ Absent \notin Callers /\ Absent \notin Slugs
    /\ Absent \notin PageRecords /\ Absent \notin [slug : Slugs, revision : Nat]
    /\ Absent \notin ChunkRecords /\ Slugs \subseteq Nat
    /\ Declares \in [Texts -> SUBSET Scenarios]
    /\ Attempts \in Nat
BY PagesAssumption DEF PageRecords, ChunkRecords

-----------------------------------------------------------------------------
(* Projections *)

\* The specification pages say which page declares what.
LEMMA DeclaredByRevision ==
    ASSUME NEW pages \in PageMaps, NEW s \in Scenarios
    PROVE  DeclaredBy(pages, s) = Declarers(SpecificationPages(pages), s)
<1>1. ASSUME NEW p \in Slugs, p \in DeclaredBy(pages, s)
      PROVE  p \in Declarers(SpecificationPages(pages), s)
  <2> DEFINE t == <<p, pages[p].text, pages[p].revision>>
  <2>1. t \in SpecificationPages(pages) /\ t[1] = p /\ s \in Declares[t[2]]
    BY <1>1 DEF DeclaredBy, SpecificationPages
  <2> QED
    BY <2>1 DEF Declarers
<1>2. ASSUME NEW p \in Slugs, p \in Declarers(SpecificationPages(pages), s)
      PROVE  p \in DeclaredBy(pages, s)
  <2>1. PICK t \in SpecificationPages(pages) : t[1] = p /\ s \in Declares[t[2]]
    BY <1>2 DEF Declarers
  <2>2. PICK q \in Slugs : /\ IsSpecification(TextOf(pages, q))
                           /\ t = <<q, pages[q].text, pages[q].revision>>
    BY <2>1 DEF SpecificationPages
  <2> QED
    BY <2>1, <2>2 DEF DeclaredBy
<1> QED
  BY <1>1, <1>2 DEF DeclaredBy, Declarers

\* A projection names the specification pages it was made of and has their rows.
LEMMA ProjectionsFit ==
    ASSUME NEW pages \in PageMaps
    PROVE  /\ Project(pages) \in Views /\ Project(pages).kind = "ready"
           /\ Project(pages).revision = SpecificationPages(pages)
           /\ Project(pages).rows = RowsOf(SpecificationPages(pages))
           /\ ScenarioRows(pages) = RowsOf(SpecificationPages(pages))
<1>1. ScenarioRows(pages) = RowsOf(SpecificationPages(pages))
  BY DeclaredByRevision DEF ScenarioRows, RowsOf
<1>2. SpecificationPages(pages) \subseteq Slugs \X Texts \X Nat
  <2> SUFFICES ASSUME NEW p \in Slugs, IsSpecification(TextOf(pages, p))
               PROVE  <<p, pages[p].text, pages[p].revision>> \in Slugs \X Texts \X Nat
    BY DEF SpecificationPages
  <2>1. pages[p] \in PageRecords
    BY DEF PageMaps, TextOf, IsSpecification
  <2> QED
    BY <2>1 DEF PageRecords
<1>3. ScenarioRows(pages) \subseteq Scenarios \X Slugs
  BY DEF ScenarioRows
<1> QED
  BY <1>1, <1>2, <1>3 DEF Project, Views

\* A page that declares nothing leaves the specification pages as they are.
LEMMA PlainPagesDoNotCount ==
    ASSUME NEW old \in PageMaps, NEW new \in PageMaps, NEW p \in Slugs,
           \A q \in Slugs \ {p} : new[q] = old[q],
           ~IsSpecification(TextOf(old, p)), ~IsSpecification(TextOf(new, p))
    PROVE  SpecificationPages(new) = SpecificationPages(old)
<1>1. \A q \in Slugs : IsSpecification(TextOf(new, q)) =>
         q # p /\ new[q] = old[q] /\ IsSpecification(TextOf(old, q))
  BY DEF TextOf
<1>2. \A q \in Slugs : IsSpecification(TextOf(old, q)) =>
         q # p /\ new[q] = old[q] /\ IsSpecification(TextOf(new, q))
  BY DEF TextOf
<1> QED
  BY <1>1, <1>2 DEF SpecificationPages

\* A change of one page that is itself not blocked blocks no other.
LEMMA OthersStayUnblocked ==
    ASSUME NEW old \in PageMaps, NEW new \in PageMaps, NEW p \in Slugs,
           \A q \in Slugs \ {p} : new[q] = old[q],
           \A q \in Slugs : ~Blocked(old, q), ~Blocked(new, p)
    PROVE  \A q \in Slugs : ~Blocked(new, q)
<1> SUFFICES ASSUME NEW q \in Slugs, NEW s \in Scenarios, q # p,
                    q \in DeclaredBy(new, s), DeclaredBy(new, s) # {q}
             PROVE  FALSE
  BY DEF Blocked
<1>1. \A x \in Slugs \ {p} : x \in DeclaredBy(new, s) <=> x \in DeclaredBy(old, s)
  BY DEF DeclaredBy, TextOf
<1>2. PICK x \in Slugs : x # q /\ x \in DeclaredBy(new, s)
  BY DEF DeclaredBy
<1>3. CASE x = p
  BY <1>2, <1>3 DEF Blocked
<1>4. CASE x # p
  BY <1>1, <1>2, <1>4 DEF Blocked
<1> QED
  BY <1>3, <1>4

LEMMA PlainIsUnblocked ==
    ASSUME NEW pages, NEW p, ~IsSpecification(TextOf(pages, p))
    PROVE  ~Blocked(pages, p)
BY DEF Blocked, DeclaredBy

-----------------------------------------------------------------------------
(* Initial states *)

LEMMA InitInv == Init => PagesInv
<1> SUFFICES ASSUME Init PROVE PagesInv
  OBVIOUS
<1> USE AbsentIsNothing
<1>1. PICK first \in Slugs, t \in Texts :
         page = [p \in Slugs |-> IF p = first
                    THEN [id |-> 1, text |-> t, revision |-> 1] ELSE Absent]
  BY DEF Init
<1>2. page \in PageMaps
  <2>1. [id |-> 1, text |-> t, revision |-> 1] \in PageRecords
    BY DEF PageRecords
  <2> QED
    BY <1>1, <2>1 DEF PageMaps
<1>3. /\ projection \in Views /\ projection.revision = SpecificationPages(page)
      /\ projection.rows = RowsOf(SpecificationPages(page))
  BY <1>2, ProjectionsFit DEF Init
<1>4. chunks \in [Slugs -> ChunkRecords \cup {Absent}]
  <2>1. \A q \in Slugs : page[q] # Absent => Chunk(1, page[q].text, 1, "tool") \in ChunkRecords
    BY <1>2 DEF PageMaps, PageRecords, Chunk, ChunkRecords
  <2> QED
    BY <2>1 DEF Init
<1>5. NoCall \in CallRecords /\ NoView \in Views /\ Absent \in Reads
  BY DEF NoCall, CallRecords, NoView, Views, Reads
<1>6. TypeOK
  <2>1. /\ pc \in [Callers -> Labels] /\ call \in [Callers -> CallRecords]
        /\ seen \in [Callers -> Reads] /\ view \in [Callers -> Views]
    BY <1>5 DEF Init, Labels
  <2>2. /\ rowLock \in [Slugs -> Callers \cup {Absent}]
        /\ chunkLock \in [Slugs -> Callers \cup {Absent}]
        /\ domainLock \in [Callers -> {"none", "share", "update", "exclusive"}]
        /\ announced \in BOOLEAN /\ births \in [Slugs -> Nat]
    BY DEF Init
  <2>3. mode \in {"optional", "strict"} /\ generation \in Nat /\ lastId \in Nat /\ calls \in Nat
    BY DEF Init
  <2> QED
    BY <1>2, <1>3, <1>4, <2>1, <2>2, <2>3 DEF TypeOK
<1>7. \A c \in Callers :
         CallFits(c) /\ HoldsRow(c) /\ ViewFits(c) /\ ReadIsOld(c) /\ CallIsOld(c)
  BY DEF Init, NoCall, CallFits, Working, HoldsRow, HasRow, ViewFits, ReadIsOld, CallIsOld
<1>8. PagesAreBorn
  BY DEF Init, PagesAreBorn
<1>9. RowsAreOfRevision /\ StaleIsAnnounced
  BY <1>3 DEF RowsAreOfRevision, StaleIsAnnounced, StaleSlugs
<1>10. StrictDeclaresOnce
  <2> SUFFICES ASSUME NEW p \in Slugs, NEW s \in Scenarios, p \in DeclaredBy(page, s)
               PROVE  DeclaredBy(page, s) = {p}
    BY DEF StrictDeclaresOnce, Blocked
  <2>1. \A q \in Slugs : q # first => ~IsSpecification(TextOf(page, q))
    BY <1>1 DEF TextOf, IsSpecification
  <2> QED
    BY <2>1 DEF DeclaredBy
<1> QED
  BY <1>6, <1>7, <1>8, <1>9, <1>10 DEF PagesInv

-----------------------------------------------------------------------------
(* Steps that change no page and publish nothing *)

\* Caller c goes on, and what is stored stays.
LEMMA FrameInv ==
    ASSUME PagesInv, NEW c \in Callers,
           NEW label \in Labels, NEW r \in CallRecords, NEW v \in Views, NEW s \in Reads,
           pc' = [pc EXCEPT ![c] = label], call' = [call EXCEPT ![c] = r],
           view' = [view EXCEPT ![c] = v], seen' = [seen EXCEPT ![c] = s],
           UNCHANGED <<mode, database, history>>, calls' \in Nat,
           rowLock' \in [Slugs -> Callers \cup {Absent}],
           chunkLock' \in [Slugs -> Callers \cup {Absent}],
           \A p \in Slugs : rowLock[p] \in Callers \ {c} => rowLock'[p] = rowLock[p],
           domainLock' \in [Callers -> {"none", "share", "update", "exclusive"}],
           CallFits(c)', HoldsRow(c)', ViewFits(c)', ReadIsOld(c)', CallIsOld(c)'
    PROVE  PagesInv'
<1>1. TypeOK'
  <2>1. /\ pc' \in [Callers -> Labels] /\ call' \in [Callers -> CallRecords]
        /\ seen' \in [Callers -> Reads] /\ view' \in [Callers -> Views]
    BY DEF PagesInv, TypeOK
  <2>2. /\ mode' \in {"optional", "strict"}
        /\ page' \in PageMaps /\ chunks' \in [Slugs -> ChunkRecords \cup {Absent}]
        /\ generation' \in Nat /\ lastId' \in Nat
        /\ projection' \in Views
        /\ announced' \in BOOLEAN /\ births' \in [Slugs -> Nat]
    BY DEF PagesInv, TypeOK, database, history
  <2> QED
    BY <2>1, <2>2 DEF TypeOK
<1>2. ASSUME NEW d \in Callers \ {c}
      PROVE  /\ pc'[d] = pc[d] /\ call'[d] = call[d] /\ view'[d] = view[d]
             /\ seen'[d] = seen[d]
  BY DEF PagesInv, TypeOK
<1>3. /\ mode' = mode /\ page' = page /\ births' = births /\ projection' = projection
      /\ announced' = announced
  BY DEF database, history
<1>4. ASSUME NEW d \in Callers \ {c}
      PROVE  CallFits(d)' /\ HoldsRow(d)' /\ ViewFits(d)' /\ ReadIsOld(d)' /\ CallIsOld(d)'
  <2>1. CallFits(d) /\ HoldsRow(d) /\ ViewFits(d) /\ ReadIsOld(d) /\ CallIsOld(d)
    BY DEF PagesInv
  <2>2. CallFits(d)'
    BY <1>2, <2>1 DEF CallFits, Working, IndexedPages
  <2>3. HoldsRow(d)'
    BY <1>2, <1>3, <2>1
       DEF CallFits, HoldsRow, HasRow, HasRevision, PagesInv, TypeOK, CallRecords
  <2>4. ViewFits(d)'
    BY <1>2, <1>3, <2>1 DEF ViewFits, Working
  <2>5. ReadIsOld(d)' /\ CallIsOld(d)'
    BY <1>2, <1>3, <2>1 DEF ReadIsOld, CallIsOld, Working
  <2> QED
    BY <2>2, <2>3, <2>4, <2>5
<1>5. PagesAreBorn' /\ RowsAreOfRevision'
  BY <1>3 DEF PagesInv, PagesAreBorn, RowsAreOfRevision
<1>6. StrictDeclaresOnce'
  BY <1>3 DEF PagesInv, StrictDeclaresOnce
<1>7. StaleIsAnnounced'
  BY <1>3 DEF PagesInv, StaleIsAnnounced, StaleSlugs, SpecificationPages, TextOf
<1> QED
  BY <1>1, <1>4, <1>5, <1>6, <1>7 DEF PagesInv

\* The types and the parts of the invariant of one caller.
LEMMA OfCaller ==
    ASSUME PagesInv, NEW c \in Callers
    PROVE  /\ pc[c] \in Labels /\ call[c] \in CallRecords /\ view[c] \in Views
           /\ seen[c] \in Reads
           /\ pc \in [Callers -> Labels] /\ call \in [Callers -> CallRecords]
           /\ view \in [Callers -> Views] /\ seen \in [Callers -> Reads]
           /\ page \in PageMaps /\ births \in [Slugs -> Nat]
           /\ chunks \in [Slugs -> ChunkRecords \cup {Absent}]
           /\ rowLock \in [Slugs -> Callers \cup {Absent}]
           /\ chunkLock \in [Slugs -> Callers \cup {Absent}]
           /\ domainLock \in [Callers -> {"none", "share", "update", "exclusive"}]
           /\ calls \in Nat
           /\ CallFits(c) /\ HoldsRow(c) /\ ViewFits(c) /\ ReadIsOld(c) /\ CallIsOld(c)
BY DEF PagesInv, TypeOK

\* A transaction that ends gives back its own locks only.
LEMMA ReleaseKeeps ==
    ASSUME PagesInv, NEW c \in Callers, Released(c)
    PROVE  /\ rowLock' \in [Slugs -> Callers \cup {Absent}]
           /\ chunkLock' \in [Slugs -> Callers \cup {Absent}]
           /\ \A p \in Slugs : rowLock[p] \in Callers \ {c} => rowLock'[p] = rowLock[p]
           /\ \A p \in Slugs : chunkLock[p] \in Callers \ {c} => chunkLock'[p] = chunkLock[p]
           /\ \A p \in Slugs : chunkLock'[p] \in {Absent, chunkLock[p]}
           /\ domainLock' \in [Callers -> {"none", "share", "update", "exclusive"}]
BY OfCaller DEF Released

\* A call that ends without a change.
LEMMA RefuseInv ==
    ASSUME PagesInv, NEW c \in Callers, Refuse(c)
    PROVE  PagesInv'
<1> USE AbsentIsNothing
<1>1. NoCall \in CallRecords /\ NoView \in Views /\ "idle" \in Labels
  BY DEF NoCall, CallRecords, NoView, Views, Labels
<1>2. /\ pc' = [pc EXCEPT ![c] = "idle"] /\ call' = [call EXCEPT ![c] = NoCall]
      /\ view' = [view EXCEPT ![c] = NoView] /\ seen' = [seen EXCEPT ![c] = seen[c]]
      /\ UNCHANGED <<mode, database, history, calls, seen>>
  BY OfCaller DEF Refuse, Answer
<1>3. pc'[c] = "idle" /\ call'[c] = NoCall
  BY <1>2, OfCaller
<1>4. CallFits(c)' /\ HoldsRow(c)' /\ ViewFits(c)' /\ CallIsOld(c)'
  BY <1>3 DEF CallFits, HoldsRow, HasRow, ViewFits, CallIsOld, Working, NoCall
<1>5. ReadIsOld(c)'
  BY <1>2, OfCaller DEF ReadIsOld, database, history
<1>6. Released(c)
  BY DEF Refuse
<1> QED
  BY <1>1, <1>2, <1>4, <1>5, <1>6, ReleaseKeeps, OfCaller, FrameInv

\* A caller reads a page.
LEMMA ReadInv ==
    ASSUME PagesInv, NEW c \in Callers, NEW p \in Slugs, Read(c, p)
    PROVE  PagesInv'
<1> USE AbsentIsNothing
<1> DEFINE s == [slug |-> p, revision |-> page[p].revision]
<1>1. page[p] \in PageRecords
  BY OfCaller DEF Read, PageMaps
<1>2. s \in Reads
  BY <1>1 DEF PageRecords, Reads
<1>3. /\ pc' = [pc EXCEPT ![c] = pc[c]] /\ call' = [call EXCEPT ![c] = call[c]]
      /\ view' = [view EXCEPT ![c] = view[c]] /\ seen' = [seen EXCEPT ![c] = s]
      /\ UNCHANGED <<mode, database, history, calls, pc, call, view, rowLock, chunkLock,
                     domainLock>>
  BY OfCaller DEF Read, locks
<1>4. CallFits(c)' /\ HoldsRow(c)' /\ ViewFits(c)' /\ CallIsOld(c)'
  <2>1. UNCHANGED <<mode, page, births, pc, call, view, rowLock>>
    BY <1>3 DEF database, history
  <2>2. CallFits(c)' /\ HoldsRow(c)'
    BY <2>1, OfCaller DEF CallFits, HoldsRow, HasRow, Working, HasRevision, IndexedPages
  <2>3. ViewFits(c)'
    BY <2>1, OfCaller DEF ViewFits, Working
  <2>4. CallIsOld(c)'
    BY <2>1, OfCaller DEF CallIsOld, Working
  <2> QED
    BY <2>2, <2>3, <2>4
<1>5. ReadIsOld(c)'
  <2>1. seen'[c] = s /\ page' = page /\ births' = births
    BY <1>3, OfCaller DEF database, history
  <2>2. births[p] > 0 /\ page[p].revision \in Nat
    BY <1>1 DEF PagesInv, PagesAreBorn, Read, PageRecords
  <2> QED
    BY <2>1, <2>2 DEF ReadIsOld
<1> QED
  BY <1>2, <1>3, <1>4, <1>5, OfCaller, FrameInv

\* A call begins with what its tool gives it.
LEMMA BeginInv ==
    ASSUME PagesInv, NEW c \in Callers, NEW label \in {"checking", "preparing"},
           NEW r \in CallRecords, Begin(c, label, r),
           r.op # "none", label = "checking" => r.op \in {"update", "delete"},
           r.op \in {"write", "update", "delete"} => r.slug \in Slugs,
           r.op \in {"write", "update"} => r.text \in Texts,
           r.op = "delete" => r.text = Absent,
           r.op \in {"update", "delete"} =>
              /\ seen[c] # Absent /\ r.slug = seen[c].slug /\ r.expected = seen[c].revision
              /\ r.op = "update" => r.base = page[r.slug] /\ page[r.slug] # Absent
    PROVE  PagesInv'
<1> USE AbsentIsNothing
<1> DEFINE q == [r EXCEPT !.attempt = 1]
<1>1. /\ q \in CallRecords /\ q.op = r.op /\ q.slug = r.slug /\ q.text = r.text
      /\ q.expected = r.expected /\ q.base = r.base
  BY DEF CallRecords
<1>2. /\ pc' = [pc EXCEPT ![c] = label] /\ call' = [call EXCEPT ![c] = q]
      /\ view' = [view EXCEPT ![c] = view[c]] /\ seen' = [seen EXCEPT ![c] = Absent]
      /\ UNCHANGED <<mode, database, history, rowLock, chunkLock, domainLock>>
      /\ calls' = calls + 1
  BY OfCaller DEF Begin, Goto, locks
<1> HIDE DEF q
<1>3. pc'[c] = label /\ call'[c] = q /\ page' = page /\ births' = births
  BY <1>2, OfCaller DEF database, history
<1>4. r.op = "update" => r.base \in PageRecords
  BY OfCaller DEF PageMaps
<1>5. CallFits(c)'
  BY <1>1, <1>3, <1>4 DEF CallFits, Working
<1>6. HoldsRow(c)' /\ ViewFits(c)'
  BY <1>3 DEF HoldsRow, HasRow, ViewFits, Working
<1>7. ReadIsOld(c)'
  BY <1>2, OfCaller DEF ReadIsOld
<1>8. CallIsOld(c)'
  BY <1>1, <1>3, OfCaller DEF CallIsOld, ReadIsOld, Working
<1>9. calls' \in Nat /\ label \in Labels /\ Absent \in Reads
  BY <1>2, OfCaller DEF Labels, Reads
<1> QED
  BY <1>1, <1>2, <1>5, <1>6, <1>7, <1>8, <1>9, OfCaller, FrameInv

LEMMA StartInv ==
    ASSUME PagesInv, NEW c \in Callers,
           \/ \E p \in Slugs, t \in Texts : StartWrite(c, p, t)
           \/ \E t \in Texts : StartUpdate(c, t)
           \/ StartDelete(c) \/ StartIndex(c)
    PROVE  PagesInv'
<1> USE AbsentIsNothing
<1>1. ASSUME NEW p \in Slugs, NEW t \in Texts, StartWrite(c, p, t) PROVE PagesInv'
  <2> DEFINE r == [NoCall EXCEPT !.op = "write", !.slug = p, !.text = t]
  <2>1. r \in CallRecords /\ r.op = "write" /\ r.slug = p /\ r.text = t
    BY DEF NoCall, CallRecords
  <2>2. Begin(c, "preparing", r)
    BY <1>1 DEF StartWrite
  <2> HIDE DEF r
  <2> QED
    BY <2>1, <2>2, BeginInv
<1>2. ASSUME NEW t \in Texts, StartUpdate(c, t) PROVE PagesInv'
  <2> DEFINE r == [NoCall EXCEPT !.op = "update", !.slug = seen[c].slug, !.text = t,
                                 !.expected = seen[c].revision, !.base = page[seen[c].slug]]
  <2>1. /\ seen[c] # Absent /\ seen[c].slug \in Slugs /\ seen[c].revision \in Nat
        /\ page[seen[c].slug] # Absent
    BY <1>2, OfCaller DEF StartUpdate, Reads
  <2>2. page[seen[c].slug] \in PageRecords
    BY <2>1, OfCaller DEF PageMaps
  <2>3. /\ r \in CallRecords /\ r.op = "update" /\ r.slug = seen[c].slug /\ r.text = t
        /\ r.expected = seen[c].revision /\ r.base = page[r.slug]
    BY <2>1, <2>2 DEF NoCall, CallRecords
  <2>4. Begin(c, "checking", r)
    BY <1>2 DEF StartUpdate
  <2> HIDE DEF r
  <2> QED
    BY <2>1, <2>3, <2>4, BeginInv
<1>3. CASE StartDelete(c)
  <2> DEFINE r == [NoCall EXCEPT !.op = "delete", !.slug = seen[c].slug,
                                 !.expected = seen[c].revision]
  <2>1. seen[c] # Absent /\ seen[c].slug \in Slugs /\ seen[c].revision \in Nat
    BY <1>3, OfCaller DEF StartDelete, Reads
  <2>2. /\ r \in CallRecords /\ r.op = "delete" /\ r.slug = seen[c].slug /\ r.text = Absent
        /\ r.expected = seen[c].revision
    BY <2>1 DEF NoCall, CallRecords
  <2>3. Begin(c, "checking", r)
    BY <1>3 DEF StartDelete
  <2> HIDE DEF r
  <2> QED
    BY <2>1, <2>2, <2>3, BeginInv
<1>4. CASE StartIndex(c)
  <2> DEFINE r == [NoCall EXCEPT !.op = "index"]
  <2>1. r \in CallRecords /\ r.op = "index"
    BY DEF NoCall, CallRecords
  <2>2. Begin(c, "preparing", r)
    BY <1>4 DEF StartIndex
  <2> HIDE DEF r
  <2> QED
    BY <2>1, <2>2, BeginInv
<1> QED
  BY <1>1, <1>2, <1>3, <1>4

\* A page tool is checked, prepared, or goes on under its locks.
LEMMA GoOnInv ==
    ASSUME PagesInv, NEW c \in Callers, NEW label \in Labels, NEW v \in Views, NEW n \in Nat,
           pc[c] # "idle", call[c].op # "index",
           label \in {"preparing", "changing", "selecting", "rewriting", "bumping", "publishing"},
           label = "selecting" => call[c].op = "update",
           label = "rewriting" => call[c].op \in {"update", "delete"},
           pc' = [pc EXCEPT ![c] = label], view' = [view EXCEPT ![c] = v],
           call' = [call EXCEPT ![c].found = n],
           UNCHANGED <<mode, database, history, calls, seen>>,
           rowLock' \in [Slugs -> Callers \cup {Absent}],
           chunkLock' \in [Slugs -> Callers \cup {Absent}],
           \A p \in Slugs : rowLock[p] \in Callers \ {c} => rowLock'[p] = rowLock[p],
           domainLock' \in [Callers -> {"none", "share", "update", "exclusive"}],
           HoldsRow(c)', ViewFits(c)',
           \* A call that does without a projection found no specification page.
           call[c].op \in {"update", "delete"} /\ v = NoView /\ label # "preparing" =>
                    \/ Working(c) /\ view[c] = NoView
                    \/ ~IsSpecification(TextOf(page, call[c].slug))
    PROVE  PagesInv'
<1> USE AbsentIsNothing
<1> DEFINE r == [call[c] EXCEPT !.found = n]
<1>1. /\ r \in CallRecords /\ r.op = call[c].op /\ r.slug = call[c].slug
      /\ r.text = call[c].text /\ r.expected = call[c].expected /\ r.base = call[c].base
      /\ call' = [call EXCEPT ![c] = r]
  BY OfCaller DEF CallRecords
<1> HIDE DEF r
<1>2. /\ pc'[c] = label /\ view'[c] = v /\ call'[c] = r /\ page' = page /\ births' = births
      /\ seen' = seen
  BY <1>1, OfCaller DEF database, history
<1>3. CallFits(c)'
  BY <1>1, <1>2, OfCaller DEF CallFits, Working, Labels
<1>4. ReadIsOld(c)'
  BY <1>2, OfCaller DEF ReadIsOld
<1>5. CallIsOld(c)'
  BY <1>1, <1>2, OfCaller DEF CallIsOld, Working, TextOf
<1>6. seen' = [seen EXCEPT ![c] = seen[c]]
  BY <1>2, OfCaller
<1> QED
  BY <1>1, <1>3, <1>4, <1>5, <1>6, OfCaller, FrameInv

\* Nothing is found anew.
LEMMA SameFound ==
    ASSUME PagesInv, NEW c \in Callers, UNCHANGED call
    PROVE  call[c].found \in Nat /\ call' = [call EXCEPT ![c].found = call[c].found]
BY OfCaller DEF CallRecords

\* No locks are taken.
LEMMA SameLocks ==
    ASSUME PagesInv, NEW c \in Callers, UNCHANGED locks
    PROVE  /\ rowLock' \in [Slugs -> Callers \cup {Absent}]
           /\ chunkLock' \in [Slugs -> Callers \cup {Absent}]
           /\ \A p \in Slugs : rowLock[p] \in Callers \ {c} => rowLock'[p] = rowLock[p]
           /\ domainLock' \in [Callers -> {"none", "share", "update", "exclusive"}]
           /\ rowLock' = rowLock /\ chunkLock' = chunkLock
BY OfCaller DEF locks

LEMMA CheckInv ==
    ASSUME PagesInv, NEW c \in Callers, Check(c)
    PROVE  PagesInv'
<1>1. CASE Refuse(c)
  BY <1>1, RefuseInv
<1>2. ASSUME Goto(c, "preparing"), UNCHANGED <<mode, database, calls, call, seen, view, locks, history>>
      PROVE  PagesInv'
  <2>1. view' = [view EXCEPT ![c] = view[c]] /\ pc'[c] = "preparing"
    BY <1>2, OfCaller DEF Goto
  <2>2. HoldsRow(c)' /\ ViewFits(c)'
    BY <2>1 DEF HoldsRow, HasRow, ViewFits, Working
  <2>3. "preparing" \in Labels /\ pc[c] # "idle" /\ call[c].op # "index"
    BY OfCaller DEF Labels, Check, CallFits
  <2>4. UNCHANGED locks /\ UNCHANGED call
    BY <1>2
  <2> QED
    BY <1>2, <2>1, <2>2, <2>3, <2>4, SameLocks, SameFound, OfCaller, GoOnInv DEF Goto
<1> QED
  BY <1>1, <1>2 DEF Check

\* The candidate is a domain that may be.
LEMMA CandidateFits ==
    ASSUME PagesInv, NEW c \in Callers, call[c].op \in {"write", "update", "delete"}
    PROVE  /\ Candidate(c) \in PageMaps
           /\ TextOf(Candidate(c), call[c].slug) = call[c].text
<1> USE AbsentIsNothing
<1> DEFINE r == call[c]
<1>1. r.slug \in Slugs /\ r.expected \in Nat /\ page \in PageMaps
  BY OfCaller DEF CallFits, CallRecords
<1>2. CASE r.op = "write"
  <2>1. [id |-> 0, text |-> r.text, revision |-> 1] \in PageRecords
    BY <1>2, OfCaller DEF CallFits, PageRecords
  <2>2. Candidate(c) = [page EXCEPT ![r.slug] = [id |-> 0, text |-> r.text, revision |-> 1]]
    BY <1>2 DEF Candidate
  <2> QED
    BY <1>1, <2>1, <2>2 DEF PageMaps, TextOf
<1>3. CASE r.op = "update"
  <2>1. [id |-> 0, text |-> r.text, revision |-> r.expected + 1] \in PageRecords
    BY <1>1, <1>3, OfCaller DEF CallFits, PageRecords
  <2>2. Candidate(c) = [page EXCEPT ![r.slug] =
                           [id |-> 0, text |-> r.text, revision |-> r.expected + 1]]
    BY <1>3 DEF Candidate
  <2> QED
    BY <1>1, <2>1, <2>2 DEF PageMaps, TextOf
<1>4. CASE r.op = "delete"
  <2>1. Candidate(c) = [page EXCEPT ![r.slug] = Absent] /\ r.text = Absent
    BY <1>4, OfCaller DEF Candidate, CallFits
  <2> QED
    BY <1>1, <2>1 DEF PageMaps, TextOf
<1> QED
  BY <1>2, <1>3, <1>4

\* What is prepared is a projection, none or a failure.
LEMMA PreparedInv ==
    ASSUME PagesInv, NEW c \in Callers, NEW v \in Views, Prepared(c, v),
           pc[c] = "preparing", call[c].op # "index",
           \/ v = NoView /\ ~NeedsProjection(c)
           \/ v = Failed /\ mode = "optional"
           \/ /\ v = Project(Candidate(c))
              /\ mode = "strict" /\ NeedsProjection(c) => ~Blocked(Candidate(c), call[c].slug)
              /\ NeedsProjection(c)
    PROVE  PagesInv'
<1> DEFINE r == call[c]
<1>1. r.op \in {"write", "update", "delete"} /\ r.slug \in Slugs
  BY OfCaller DEF CallFits, CallRecords
<1>2. /\ pc' = [pc EXCEPT ![c] = "changing"] /\ view' = [view EXCEPT ![c] = v]
      /\ UNCHANGED <<mode, database, calls, call, seen, locks, history>>
  BY DEF Prepared, Goto
<1>3. pc'[c] = "changing" /\ view'[c] = v /\ call' = call /\ mode' = mode
  BY <1>2, OfCaller
<1>4. HoldsRow(c)'
  BY <1>3 DEF HoldsRow, HasRow
<1>5. v.kind = "ready" => /\ v = Project(Candidate(c)) /\ NeedsProjection(c)
                          /\ mode = "strict" => ~Blocked(Candidate(c), r.slug)
  BY DEF NoView, Failed
<1>6. ASSUME v.kind = "ready"
      PROVE  /\ v.rows = RowsOf(v.revision)
             /\ mode = "strict" => \A s \in Scenarios :
                   r.slug \in Declarers(v.revision, s) => Declarers(v.revision, s) = {r.slug}
  <2>1. Candidate(c) \in PageMaps
    BY <1>1, CandidateFits
  <2>2. v.revision = SpecificationPages(Candidate(c)) /\ v.rows = RowsOf(v.revision)
    BY <1>5, <1>6, <2>1, ProjectionsFit
  <2> QED
    BY <1>5, <1>6, <2>1, <2>2, DeclaredByRevision DEF Blocked
<1>7. v.kind # "ready" => v \in {NoView, Failed}
  BY <1>1, CandidateFits, ProjectionsFit
<1>8. v = NoView => ~IsSpecification(r.text) /\ ~IsSpecification(TextOf(page, r.slug))
  BY <1>1, CandidateFits, ProjectionsFit DEF NeedsProjection, NoView, Failed
<1>9. mode = "strict" => v # Failed
  BY <1>1, CandidateFits, ProjectionsFit DEF NoView, Failed, PagesInv, TypeOK
<1>10. ViewFits(c)'
  BY <1>3, <1>6, <1>7, <1>8, <1>9 DEF ViewFits, Working
<1>11. "changing" \in Labels /\ UNCHANGED locks /\ UNCHANGED call /\ pc[c] # "idle"
  BY <1>2 DEF Labels
<1> QED
  BY <1>2, <1>4, <1>8, <1>10, <1>11, SameLocks, SameFound, OfCaller, GoOnInv

LEMMA PrepareInv ==
    ASSUME PagesInv, NEW c \in Callers, Prepare(c) \/ PrepareFails(c)
    PROVE  PagesInv'
<1>1. CASE Refuse(c)
  BY <1>1, RefuseInv
<1>2. pc[c] = "preparing" /\ call[c].op # "index"
  BY DEF Prepare, PrepareFails
<1>3. call[c].op \in {"write", "update", "delete"}
  BY <1>2, OfCaller DEF CallFits, CallRecords
<1>4. NoView \in Views /\ Failed \in Views /\ Project(Candidate(c)) \in Views
  BY <1>3, CandidateFits, ProjectionsFit DEF NoView, Failed, Views
<1>5. CASE Prepare(c)
  <2>1. CASE NeedsProjection(c)
    BY <1>1, <1>2, <1>4, <1>5, <2>1, PreparedInv DEF Prepare
  <2>2. CASE ~NeedsProjection(c)
    BY <1>2, <1>4, <1>5, <2>2, PreparedInv DEF Prepare
  <2> QED
    BY <2>1, <2>2
<1>6. CASE PrepareFails(c)
  BY <1>1, <1>2, <1>4, <1>6, PreparedInv DEF PrepareFails
<1> QED
  BY <1>5, <1>6

\* index_domain goes on, with the pages it read and a prepared projection.
LEMMA IndexGoesOn ==
    ASSUME PagesInv, NEW c \in Callers, NEW label \in Labels, NEW r \in CallRecords,
           NEW v \in Views, pc[c] # "idle", r.op = "index", r.base \in PageMaps,
           label \in {"emptying", "filling", "publishing"},
           label # "publishing" => r.slug \in Slugs /\ r.base[r.slug] # Absent,
           v = Failed \/ (v.kind = "ready" /\ v.rows = RowsOf(v.revision)),
           pc' = [pc EXCEPT ![c] = label], call' = [call EXCEPT ![c] = r],
           view' = [view EXCEPT ![c] = v],
           UNCHANGED <<mode, database, history, calls, seen, rowLock, domainLock>>,
           chunkLock' \in [Slugs -> Callers \cup {Absent}]
    PROVE  PagesInv'
<1> USE AbsentIsNothing
<1>1. /\ pc'[c] = label /\ call'[c] = r /\ view'[c] = v
      /\ seen' = [seen EXCEPT ![c] = seen[c]] /\ seen' = seen
  BY OfCaller
<1>2. CallFits(c)' /\ HoldsRow(c)' /\ CallIsOld(c)'
  BY <1>1 DEF CallFits, HoldsRow, HasRow, CallIsOld, Working, IndexedPages
<1>3. v # NoView /\ (v.kind # "ready" => v = Failed)
  BY DEF NoView, Failed
<1>4. v.kind = "ready" => v.rows = RowsOf(v.revision)
  BY DEF Failed
<1>5. ViewFits(c)'
  BY <1>1, <1>3, <1>4 DEF ViewFits, Working
<1>6. ReadIsOld(c)'
  BY <1>1, OfCaller DEF ReadIsOld, database, history
<1> QED
  BY <1>1, <1>2, <1>5, <1>6, OfCaller, FrameInv

\* The next page is one of those that are left.
LEMMA NextPageInv ==
    ASSUME PagesInv, NEW c \in Callers, NEW r \in CallRecords, NEW rest \in SUBSET Slugs,
           NextPage(c, r, rest), NEW v \in Views, pc[c] # "idle",
           r.op = "index", r.base \in PageMaps, \A p \in rest : r.base[p] # Absent,
           v = Failed \/ (v.kind = "ready" /\ v.rows = RowsOf(v.revision)),
           view' = [view EXCEPT ![c] = v],
           UNCHANGED <<mode, database, history, calls, seen, locks>>
    PROVE  PagesInv'
<1>1. /\ "emptying" \in Labels /\ "publishing" \in Labels
      /\ UNCHANGED <<rowLock, domainLock>> /\ chunkLock' \in [Slugs -> Callers \cup {Absent}]
  BY SameLocks, OfCaller DEF Labels, locks
<1>2. CASE Goto(c, "publishing") /\ call' = [call EXCEPT ![c] = r]
  BY <1>1, <1>2, IndexGoesOn DEF Goto
<1>3. ASSUME NEW p \in rest, Goto(c, "emptying"),
             call' = [call EXCEPT ![c] = [r EXCEPT !.slug = p, !.found = 0]]
      PROVE  PagesInv'
  <2> DEFINE q == [r EXCEPT !.slug = p, !.found = 0]
  <2>1. /\ q \in CallRecords /\ q.op = r.op /\ q.slug = p /\ q.base = r.base
        /\ p \in Slugs /\ r.base[p] # Absent
    BY DEF CallRecords
  <2> HIDE DEF q
  <2> QED
    BY <1>1, <1>3, <2>1, IndexGoesOn DEF Goto, q
<1> QED
  BY <1>2, <1>3 DEF NextPage

LEMMA PrepareIndexInv ==
    ASSUME PagesInv, NEW c \in Callers, PrepareIndex(c)
    PROVE  PagesInv'
<1> DEFINE r == [call[c] EXCEPT !.base = page]
           rest == {p \in Slugs : page[p] # Absent}
<1>1. page \in PageMaps /\ Project(page) \in Views /\ Failed \in Views
  BY OfCaller, ProjectionsFit DEF Failed, Views
<1>2. r \in CallRecords /\ r.op = "index" /\ r.base = page
  BY <1>1, OfCaller DEF PrepareIndex, CallRecords
<1>3. PICK v \in {Failed, Project(page)} : view' = [view EXCEPT ![c] = v]
  BY DEF PrepareIndex
<1>4. v = Failed \/ (v.kind = "ready" /\ v.rows = RowsOf(v.revision))
  BY <1>1, <1>3, ProjectionsFit
<1>5. /\ NextPage(c, r, rest) /\ pc[c] # "idle"
      /\ UNCHANGED <<mode, database, history, calls, seen, locks>>
  BY DEF PrepareIndex
<1> HIDE DEF r
<1>6. rest \in SUBSET Slugs /\ \A p \in rest : r.base[p] # Absent
  BY <1>2
<1> QED
  BY <1>1, <1>2, <1>3, <1>4, <1>5, <1>6, NextPageInv

\* The DELETE and the INSERT of one page's chunks.
LEMMA EmptyInv ==
    ASSUME PagesInv, ChunksInv, NEW c \in Callers, EmptyWaits(c) \/ Empty(c) \/ Fill(c)
    PROVE  PagesInv'
<1> USE AbsentIsNothing
<1> DEFINE p == call[c].slug
<1>1. /\ call[c].op = "index" /\ p \in IndexedPages(c) /\ p \in Slugs
      /\ call[c].base \in PageMaps /\ call[c].base[p] # Absent /\ pc[c] # "idle"
      /\ call[c] \in CallRecords /\ view[c] \in Views
  BY OfCaller DEF EmptyWaits, Empty, Fill, CallFits, Working, IndexedPages
<1>2. view[c] = Failed \/ (view[c].kind = "ready" /\ view[c].rows = RowsOf(view[c].revision))
  BY <1>1, OfCaller DEF EmptyWaits, Empty, Fill, ViewFits, Working
<1>3. CASE EmptyWaits(c)
  <2> DEFINE r == [call[c] EXCEPT !.found = chunks[p].id]
  <2>1. chunks[p] # Absent
    BY <1>1, <1>3 DEF EmptyWaits, OwnPage, ChunksInv, ChunksAreKnown
  <2>2. chunks[p].id \in Nat
    BY <1>1, <2>1, OfCaller DEF ChunkRecords
  <2>3. r \in CallRecords /\ r.op = "index" /\ r.slug = p /\ r.base = call[c].base
    BY <1>1, <2>2 DEF CallRecords
  <2>4. /\ pc' = [pc EXCEPT ![c] = "emptying"] /\ call' = [call EXCEPT ![c] = r]
        /\ view' = [view EXCEPT ![c] = view[c]] /\ UNCHANGED <<rowLock, domainLock>>
        /\ UNCHANGED <<mode, database, history, calls, seen>>
        /\ chunkLock' \in [Slugs -> Callers \cup {Absent}] /\ "emptying" \in Labels
    BY <1>3, OfCaller DEF EmptyWaits, locks, Labels
  <2> HIDE DEF r
  <2> QED
    BY <1>1, <1>2, <2>3, <2>4, IndexGoesOn
<1>4. CASE Empty(c)
  <2>1. /\ pc' = [pc EXCEPT ![c] = "filling"] /\ call' = [call EXCEPT ![c] = call[c]]
        /\ view' = [view EXCEPT ![c] = view[c]] /\ UNCHANGED <<rowLock, domainLock>>
        /\ UNCHANGED <<mode, database, history, calls, seen>> /\ "filling" \in Labels
    BY <1>4, OfCaller DEF Empty, Goto, Labels
  <2>2. chunkLock' \in [Slugs -> Callers \cup {Absent}]
    BY <1>4, OfCaller DEF Empty, LockChunk
  <2> QED
    BY <1>1, <1>2, <2>1, <2>2, IndexGoesOn
<1>5. CASE Fill(c)
  <2> DEFINE rest == {q \in IndexedPages(c) : p < q}
  <2>1. rest \in SUBSET Slugs /\ \A q \in rest : call[c].base[q] # Absent
    BY DEF IndexedPages
  <2>2. CASE Refuse(c)
    BY <2>2, RefuseInv
  <2>3. ASSUME NextPage(c, call[c], rest),
               UNCHANGED <<mode, database, calls, seen, view, locks, history>>
        PROVE  PagesInv'
    <3> DEFINE r == call[c]
               v == view[c]
    <3>1. /\ view' = [view EXCEPT ![c] = v] /\ NextPage(c, r, rest)
          /\ UNCHANGED <<mode, database, history, calls, seen, locks>>
      BY <2>3, OfCaller
    <3>2. /\ r \in CallRecords /\ v \in Views /\ pc[c] # "idle" /\ r.op = "index"
          /\ r.base \in PageMaps /\ \A q \in rest : r.base[q] # Absent
          /\ v = Failed \/ (v.kind = "ready" /\ v.rows = RowsOf(v.revision))
      BY <1>1, <1>2, <2>1
    <3> HIDE DEF rest, r, v
    <3> QED
      BY <2>1, <3>1, <3>2, NextPageInv
  <2> QED
    BY <1>5, <2>2, <2>3 DEF Fill
<1> QED
  BY <1>3, <1>4, <1>5

\* Locks as they are asked for.
LEMMA LockDomainTyped ==
    ASSUME PagesInv, NEW c \in Callers, NEW wanted \in {"share", "update", "exclusive"},
           LockDomain(c, wanted)
    PROVE  domainLock' \in [Callers -> {"none", "share", "update", "exclusive"}]
BY OfCaller DEF LockDomain, Stronger

LEMMA LockFirstInv ==
    ASSUME PagesInv, NEW c \in Callers, LockFirst(c)
    PROVE  PagesInv'
<1>1. /\ UNCHANGED <<mode, database, calls, pc, call, seen, view, rowLock, chunkLock, history>>
      /\ UNCHANGED call /\ pc[c] = "changing" /\ LockDomain(c, "exclusive")
      /\ call[c].op = "write"
  BY DEF LockFirst
<1>2. /\ pc' = [pc EXCEPT ![c] = "changing"] /\ view' = [view EXCEPT ![c] = view[c]]
      /\ pc'[c] = "changing"
  BY <1>1, OfCaller
<1>3. domainLock' \in [Callers -> {"none", "share", "update", "exclusive"}]
  BY <1>1, LockDomainTyped
<1>4. HoldsRow(c)' /\ ViewFits(c)'
  <2>1. HoldsRow(c)'
    BY <1>2 DEF HoldsRow, HasRow
  <2>2. pc' = pc /\ call' = call /\ view' = view /\ mode' = mode
    BY <1>1
  <2> QED
    BY <2>1, <2>2, OfCaller DEF ViewFits, Working
<1>5. "changing" \in Labels /\ Working(c)
  BY <1>1 DEF Labels, Working
<1> QED
  BY <1>1, <1>2, <1>3, <1>4, <1>5, OfCaller, SameFound, GoOnInv DEF Working

\* The row is this transaction's from here on.
LEMMA LockedInv ==
    ASSUME PagesInv, NEW c \in Callers, NEW label \in {"selecting", "rewriting", "bumping"},
           Locked(c, label), pc[c] = "changing", call[c].op \in {"write", "update", "delete"},
           label = "selecting" => call[c].op = "update",
           label = "rewriting" => call[c].op = "delete",
           RowHolders(c, call[c].slug) = {}, UNCHANGED mode,
           domainLock' \in [Callers -> {"none", "share", "update", "exclusive"}],
           call[c].op = "write" => page[call[c].slug] = Absent,
           call[c].op \in {"update", "delete"} => HasRevision(call[c].slug, call[c].expected)
    PROVE  PagesInv'
<1> USE AbsentIsNothing
<1> DEFINE p == call[c].slug
<1>1. /\ pc' = [pc EXCEPT ![c] = label] /\ rowLock' = [rowLock EXCEPT ![p] = c]
      /\ UNCHANGED <<mode, database, calls, call, seen, view, chunkLock, history>>
      /\ UNCHANGED call
  BY DEF Locked, Goto
<1>2. view' = [view EXCEPT ![c] = view[c]] /\ pc'[c] = label /\ p \in Slugs
  BY <1>1, OfCaller DEF CallFits
<1>3. rowLock[p] \in {Absent, c}
  BY <1>2, OfCaller DEF RowHolders
<1>4. /\ rowLock' \in [Slugs -> Callers \cup {Absent}] /\ rowLock'[p] = c
      /\ \A q \in Slugs : rowLock[q] \in Callers \ {c} => rowLock'[q] = rowLock[q]
  BY <1>1, <1>2, <1>3, OfCaller
<1>5. HoldsRow(c)'
  BY <1>1, <1>4 DEF HoldsRow, HasRevision, database
<1>6. ViewFits(c)'
  BY <1>1, OfCaller DEF ViewFits, Working
<1>7. label \in Labels /\ label # "preparing" /\ Working(c) /\ call[c].op # "index"
  BY DEF Labels, Working
<1>8. call[c].found \in Nat /\ call' = [call EXCEPT ![c].found = call[c].found]
  BY <1>1, SameFound
<1>9. /\ UNCHANGED <<mode, database, history, calls, seen>> /\ view[c] \in Views
      /\ chunkLock' \in [Slugs -> Callers \cup {Absent}]
  BY <1>1, OfCaller
<1>10. label \in {"preparing", "changing", "selecting", "rewriting", "bumping", "publishing"}
  OBVIOUS
<1>11. label = "rewriting" => call[c].op \in {"update", "delete"}
  OBVIOUS
<1> HIDE DEF p
<1> QED
  BY <1>1, <1>2, <1>4, <1>5, <1>6, <1>7, <1>8, <1>9, <1>10, <1>11, GoOnInv

LEMMA TakeRowInv ==
    ASSUME PagesInv, NEW c \in Callers, Insert(c) \/ ChangeRow(c)
    PROVE  PagesInv'
<1>1. CASE Refuse(c)
  BY <1>1, RefuseInv
<1>2. ASSUME Insert(c), Locked(c, "bumping"), LockDomain(c, "share"),
             page[call[c].slug] = Absent
      PROVE  PagesInv'
  BY <1>2, LockDomainTyped, LockedInv DEF Insert, Locked
<1>3. ASSUME NEW label \in {"selecting", "rewriting"}, ChangeRow(c), Locked(c, label),
             label = "selecting" => call[c].op = "update",
             label = "rewriting" => call[c].op = "delete",
             UNCHANGED domainLock, RevisionMatches(c)
      PROVE  PagesInv'
  BY <1>3, LockedInv, OfCaller DEF ChangeRow, Locked, RevisionMatches
<1>4. CASE Insert(c)
  BY <1>1, <1>2, <1>4 DEF Insert
<1>5. CASE ChangeRow(c)
  BY <1>1, <1>3, <1>5 DEF ChangeRow
<1> QED
  BY <1>4, <1>5

\* A page tool goes on with its row.
LEMMA HeldGoesOn ==
    ASSUME PagesInv, NEW c \in Callers, NEW label \in {"rewriting", "bumping", "publishing"},
           NEW n \in Nat, HasRow(c), call[c].op # "index",
           label = "rewriting" => call[c].op \in {"update", "delete"},
           pc' = [pc EXCEPT ![c] = label], call' = [call EXCEPT ![c].found = n],
           UNCHANGED <<mode, database, history, calls, seen, view, rowLock>>,
           chunkLock' \in [Slugs -> Callers \cup {Absent}],
           domainLock' \in [Callers -> {"none", "share", "update", "exclusive"}]
    PROVE  PagesInv'
<1>1. /\ pc'[c] = label /\ view' = [view EXCEPT ![c] = view[c]] /\ label \in Labels
      /\ pc[c] # "idle" /\ Working(c)
  BY OfCaller DEF HasRow, Labels, Working
<1>2. /\ call'[c].op = call[c].op /\ call'[c].slug = call[c].slug
      /\ call'[c].expected = call[c].expected /\ call'[c].text = call[c].text
  BY OfCaller DEF CallRecords
<1>3. HoldsRow(c)'
  <2>1. page' = page /\ rowLock' = rowLock
    BY DEF database
  <2> QED
    BY <1>2, <2>1, OfCaller DEF HoldsRow, HasRevision
<1>4. ViewFits(c)'
  <2>1. view'[c] = view[c] /\ mode' = mode /\ ViewFits(c)
    BY OfCaller
  <2> QED
    BY <1>1, <1>2, <2>1 DEF ViewFits
<1> QED
  BY <1>1, <1>3, <1>4, OfCaller, GoOnInv

LEMMA ChunkStepInv ==
    ASSUME PagesInv, ChunksInv, NEW c \in Callers,
           SelectChunks(c) \/ UpdateChunk(c) \/ ReplaceChunk(c) \/ DropPage(c)
    PROVE  PagesInv'
<1> USE AbsentIsNothing
<1> DEFINE p == call[c].slug
<1>1. HasRow(c) /\ call[c].op \in {"update", "delete"} /\ p \in Slugs /\ call[c].found \in Nat
  BY OfCaller DEF SelectChunks, UpdateChunk, ReplaceChunk, DropPage, CallFits, HasRow, CallRecords
<1>2. CASE SelectChunks(c)
  <2>1. page[p] # Absent
    BY <1>1, OfCaller DEF HoldsRow, HasRevision
  <2>2. chunks[p] # Absent
    BY <1>1, <2>1 DEF ChunksInv, ChunksAreKnown
  <2>3. chunks[p].id \in Nat
    BY <1>1, <2>2, OfCaller DEF ChunkRecords
  <2>4. \E label \in {"rewriting", "bumping"} : pc' = [pc EXCEPT ![c] = label]
    BY <1>2 DEF SelectChunks, Goto
  <2>5. /\ call' = [call EXCEPT ![c].found = chunks[p].id]
        /\ UNCHANGED <<mode, database, history, calls, seen, view, rowLock>>
        /\ chunkLock' \in [Slugs -> Callers \cup {Absent}]
        /\ domainLock' \in [Callers -> {"none", "share", "update", "exclusive"}]
    BY <1>2, SameLocks DEF SelectChunks, locks
  <2> QED
    BY <1>1, <2>3, <2>4, <2>5, HeldGoesOn
<1>3. chunkLock' = [chunkLock EXCEPT ![p] = c] \/ UNCHANGED chunkLock =>
         chunkLock' \in [Slugs -> Callers \cup {Absent}]
  BY <1>1, OfCaller
<1>4. CASE UpdateChunk(c) \/ DropPage(c)
  <2>1. /\ pc' = [pc EXCEPT ![c] = "bumping"] /\ UNCHANGED call
        /\ UNCHANGED <<mode, database, history, calls, seen, view, rowLock>>
        /\ UNCHANGED domainLock
    BY <1>4 DEF UpdateChunk, DropPage, Goto
  <2>2. chunkLock' = [chunkLock EXCEPT ![p] = c] \/ UNCHANGED chunkLock
    BY <1>4 DEF UpdateChunk, DropPage, LockChunk
  <2> QED
    BY <1>1, <1>3, <2>1, <2>2, SameFound, OfCaller, HeldGoesOn
<1>5. CASE ReplaceChunk(c)
  <2>1. CASE Refuse(c)
    BY <2>1, RefuseInv
  <2>2. CASE ~Refuse(c)
    <3>1. /\ pc' = [pc EXCEPT ![c] = "bumping"] /\ call' = [call EXCEPT ![c].found = @ + 1]
          /\ UNCHANGED <<mode, database, history, calls, seen, view, rowLock>>
          /\ UNCHANGED domainLock /\ chunkLock' = [chunkLock EXCEPT ![p] = c]
      BY <1>5, <2>2 DEF ReplaceChunk, Goto, LockChunk
    <3>2. call' = [call EXCEPT ![c].found = call[c].found + 1] /\ call[c].found + 1 \in Nat
      BY <1>1, <3>1, OfCaller
    <3> QED
      BY <1>1, <1>3, <3>1, <3>2, OfCaller, HeldGoesOn
  <2> QED
    BY <2>1, <2>2
<1> QED
  BY <1>2, <1>4, <1>5

LEMMA BumpInv ==
    ASSUME PagesInv, NEW c \in Callers, BumpGeneration(c)
    PROVE  PagesInv'
<1>1. /\ UNCHANGED <<mode, database, calls, seen, view, rowLock, chunkLock, history>>
      /\ UNCHANGED call /\ pc[c] = "bumping" /\ LockDomain(c, "update")
      /\ pc' = [pc EXCEPT ![c] = "publishing"]
  BY DEF BumpGeneration, Goto
<1>2. domainLock' \in [Callers -> {"none", "share", "update", "exclusive"}]
  BY <1>1, LockDomainTyped
<1>3. HasRow(c) /\ call[c].op # "index"
  BY <1>1, OfCaller DEF HasRow, CallFits
<1> QED
  BY <1>1, <1>2, <1>3, OfCaller, SameFound, HeldGoesOn

\* The snapshot has changed: everything again, or without a projection.
LEMMA TryAgainInv ==
    ASSUME PagesInv, NEW c \in Callers, TryAgain(c), Working(c)
    PROVE  PagesInv'
<1> USE AbsentIsNothing
<1>1. CASE Refuse(c)
  BY <1>1, RefuseInv
<1>2. ASSUME Goto(c, "preparing"), Released(c), call' = [call EXCEPT ![c].attempt = @ + 1],
             UNCHANGED <<mode, database, calls, seen, view, history>>
      PROVE  PagesInv'
  <2> DEFINE r == [call[c] EXCEPT !.attempt = @ + 1]
  <2>a. call[c] \in CallRecords
    BY OfCaller
  <2>b. call[c].attempt + 1 \in Nat
    BY <2>a DEF CallRecords
  <2>1. /\ r \in CallRecords /\ r.op = call[c].op /\ r.slug = call[c].slug
        /\ r.text = call[c].text /\ r.base = call[c].base /\ r.expected = call[c].expected
    BY <2>a, <2>b DEF CallRecords
  <2>2. /\ call' = [call EXCEPT ![c] = r] /\ pc' = [pc EXCEPT ![c] = "preparing"]
        /\ view' = [view EXCEPT ![c] = view[c]] /\ seen' = [seen EXCEPT ![c] = seen[c]]
    BY <1>2, OfCaller DEF Goto
  <2> HIDE DEF r
  <2>3. /\ pc'[c] = "preparing" /\ call'[c] = r /\ page' = page /\ births' = births
        /\ seen' = seen
    BY <1>2, <2>2, OfCaller DEF database, history
  <2>4. CallFits(c)'
    BY <2>1, <2>3, OfCaller DEF CallFits, Working
  <2>5. HoldsRow(c)' /\ ViewFits(c)'
    BY <2>3 DEF HoldsRow, HasRow, ViewFits, Working
  <2>6. ReadIsOld(c)' /\ CallIsOld(c)'
    BY <2>1, <2>3, OfCaller DEF ReadIsOld, CallIsOld, Working
  <2>7. "preparing" \in Labels /\ calls' \in Nat
    BY <1>2, OfCaller DEF Labels
  <2>8. call[c] \in CallRecords /\ view[c] \in Views /\ seen[c] \in Reads
    BY OfCaller
  <2>9. /\ rowLock' \in [Slugs -> Callers \cup {Absent}]
        /\ chunkLock' \in [Slugs -> Callers \cup {Absent}]
        /\ \A p \in Slugs : rowLock[p] \in Callers \ {c} => rowLock'[p] = rowLock[p]
        /\ domainLock' \in [Callers -> {"none", "share", "update", "exclusive"}]
    BY <1>2, ReleaseKeeps
  <2>10. UNCHANGED <<mode, database, history>>
    BY <1>2
  <2> QED
    BY <2>1, <2>2, <2>4, <2>5, <2>6, <2>7, <2>8, <2>9, <2>10, FrameInv
<1>3. ASSUME Goto(c, "changing"), Released(c), view' = [view EXCEPT ![c] = Failed],
             call[c].op # "index", mode = "optional",
             UNCHANGED <<mode, database, calls, call, seen, history>>
      PROVE  PagesInv'
  <2>1. Failed \in Views /\ Failed # NoView /\ Failed.kind # "ready"
    BY DEF Failed, Views, NoView
  <2>2. /\ pc' = [pc EXCEPT ![c] = "changing"] /\ pc'[c] = "changing"
        /\ view'[c] = Failed /\ mode' = "optional" /\ call' = call
    BY <1>3, OfCaller DEF Goto
  <2>3. HoldsRow(c)' /\ ViewFits(c)'
    BY <1>3, <2>1, <2>2 DEF HoldsRow, HasRow, ViewFits, Working
  <2>4. "changing" \in Labels /\ pc[c] # "idle" /\ UNCHANGED call
    BY <1>3 DEF Labels, Working
  <2>5. call[c].found \in Nat /\ call' = [call EXCEPT ![c].found = call[c].found]
    BY <2>4, SameFound
  <2>6. /\ rowLock' \in [Slugs -> Callers \cup {Absent}]
        /\ chunkLock' \in [Slugs -> Callers \cup {Absent}]
        /\ \A p \in Slugs : rowLock[p] \in Callers \ {c} => rowLock'[p] = rowLock[p]
        /\ domainLock' \in [Callers -> {"none", "share", "update", "exclusive"}]
    BY <1>3, ReleaseKeeps
  <2>7. UNCHANGED <<mode, database, history, calls, seen>>
    BY <1>3
  <2> QED
    BY <1>3, <2>1, <2>2, <2>3, <2>4, <2>5, <2>6, <2>7, GoOnInv
<1> QED
  BY <1>1, <1>2, <1>3 DEF TryAgain

-----------------------------------------------------------------------------
(* Steps that publish *)

LEMMA AnsweredFits ==
    ASSUME NEW c \in Callers, PagesInv, Answer(c)
    PROVE  /\ CallFits(c)' /\ HoldsRow(c)' /\ ViewFits(c)' /\ CallIsOld(c)'
           /\ pc' \in [Callers -> Labels] /\ call' \in [Callers -> CallRecords]
           /\ view' \in [Callers -> Views]
           /\ \A d \in Callers \ {c} :
                 pc'[d] = pc[d] /\ call'[d] = call[d] /\ view'[d] = view[d]
<1>1. NoCall \in CallRecords /\ NoView \in Views /\ "idle" \in Labels
  BY DEF NoCall, CallRecords, NoView, Views, Labels
<1>2. pc'[c] = "idle" /\ call'[c] = NoCall
  BY OfCaller DEF Answer
<1>3. CallFits(c)' /\ HoldsRow(c)' /\ ViewFits(c)' /\ CallIsOld(c)'
  BY <1>2 DEF CallFits, HoldsRow, HasRow, ViewFits, CallIsOld, Working, NoCall
<1> QED
  BY <1>1, <1>3, OfCaller DEF Answer

\* At its COMMIT an index_domain has the chunk rows of all the pages it read, and
\* they are those pages still.
LEMMA IndexedPagesHeld ==
    ASSUME PagesInv, ChunksInv, NEW c \in Callers, pc[c] = "publishing", call[c].op = "index",
           NEW p \in IndexedPages(c)
    PROVE  /\ p \in Slugs /\ chunkLock[p] = c /\ OwnPage(c, p)
           /\ page[p] \in PageRecords /\ chunks[p] \in ChunkRecords
           /\ call[c].base[p] \in PageRecords
           /\ call[c].base[p].revision <= page[p].revision
           /\ \/ call[c].base[p].revision # page[p].revision
              \/ call[c].base[p].text = page[p].text
<1> USE AbsentIsNothing
<1>1. p \in Slugs /\ Working(c) /\ Filled(c, p)
  BY DEF IndexedPages, Working, Filled
<1>2. chunkLock[p] = c /\ OwnPage(c, p)
  BY <1>1 DEF ChunksInv, HoldsChunks
<1>3. page[p] # Absent /\ chunks[p] # Absent
  BY <1>1, <1>2 DEF OwnPage, ChunksInv, ChunksAreKnown
<1>4. call[c].base \in PageMaps /\ call[c].base[p] # Absent
  BY <1>1, OfCaller DEF CallFits, IndexedPages
<1>5. /\ page[p] \in PageRecords /\ chunks[p] \in ChunkRecords
      /\ call[c].base[p] \in PageRecords
  BY <1>1, <1>3, <1>4, OfCaller DEF PageMaps
<1>6. IndexIsOld(c)
  BY DEF ChunksInv
<1> QED
  BY <1>1, <1>2, <1>5, <1>6 DEF IndexIsOld

\* index_domain writes the chunks of the pages it read.
LEMMA ReindexedInv ==
    ASSUME PagesInv, ChunksInv, NEW c \in Callers, NEW described, NEW stale \in BOOLEAN,
           call[c].op = "index", pc[c] = "publishing", Reindexed(c, described, stale),
           \/ described = projection /\ stale
           \/ /\ described \in Views /\ ~stale
              /\ described.revision = SpecificationPages(page)
              /\ described.rows = RowsOf(described.revision)
    PROVE  PagesInv'
<1> USE AbsentIsNothing
<1>1. /\ UNCHANGED <<mode, page, generation, lastId, calls, seen, births>>
      /\ projection' = described /\ announced' = stale
      /\ chunks' = [p \in Slugs |->
            IF p \in IndexedPages(c)
            THEN Chunk(chunks[p].id + 1, call[c].base[p].text, call[c].base[p].revision, "index")
            ELSE chunks[p]]
      /\ Answer(c) /\ Released(c)
  BY DEF Reindexed
<1>2. chunks' \in [Slugs -> ChunkRecords \cup {Absent}]
  <2>1. \A p \in IndexedPages(c) :
           Chunk(chunks[p].id + 1, call[c].base[p].text, call[c].base[p].revision, "index")
              \in ChunkRecords
    BY IndexedPagesHeld DEF Chunk, ChunkRecords, PageRecords
  <2> QED
    BY <1>1, <2>1, OfCaller
<1>3. projection' \in Views /\ announced' \in BOOLEAN
  BY <1>1 DEF PagesInv, TypeOK
<1>4. TypeOK'
  <2>1. /\ mode' \in {"optional", "strict"} /\ page' \in PageMaps
        /\ generation' \in Nat /\ lastId' \in Nat /\ calls' \in Nat
        /\ seen' \in [Callers -> Reads]
        /\ births' \in [Slugs -> Nat]
    BY <1>1 DEF PagesInv, TypeOK
  <2>2. /\ rowLock' \in [Slugs -> Callers \cup {Absent}]
        /\ chunkLock' \in [Slugs -> Callers \cup {Absent}]
        /\ domainLock' \in [Callers -> {"none", "share", "update", "exclusive"}]
    BY <1>1, ReleaseKeeps
  <2> QED
    BY <1>1, <1>2, <1>3, <2>1, <2>2, AnsweredFits DEF TypeOK
<1>5. ASSUME NEW d \in Callers
      PROVE  CallFits(d)' /\ HoldsRow(d)' /\ ViewFits(d)' /\ ReadIsOld(d)' /\ CallIsOld(d)'
  <2>1. ReadIsOld(d)'
    BY <1>1, OfCaller DEF ReadIsOld
  <2>2. CASE d = c
    BY <1>1, <2>1, <2>2, AnsweredFits
  <2>3. CASE d # c
    <3>1. /\ pc'[d] = pc[d] /\ call'[d] = call[d] /\ view'[d] = view[d]
          /\ UNCHANGED <<mode, page, births>>
      BY <1>1, <2>3, AnsweredFits
    <3>2. CallFits(d)'
      BY <3>1, OfCaller DEF CallFits, Working, IndexedPages
    <3>a. ViewFits(d) /\ HoldsRow(d)
      BY OfCaller
    <3>b. HoldsRow(d)'
      <4> SUFFICES ASSUME HasRow(d) PROVE HoldsRow(d)'
        BY <3>1 DEF HoldsRow, HasRow
      <4>1. rowLock[call[d].slug] = d /\ call[d].slug \in Slugs
        BY <3>a, OfCaller DEF HoldsRow, HasRow, CallFits, CallRecords
      <4>2. rowLock'[call[d].slug] = d
        BY <1>1, <2>3, <4>1 DEF Released
      <4> QED
        BY <3>1, <3>a, <4>1, <4>2 DEF HoldsRow, HasRow, HasRevision
    <3>3. ViewFits(d)'
      BY <3>1, <3>a DEF ViewFits, Working
    <3>4. CallIsOld(d)'
      BY <3>1, OfCaller DEF CallIsOld, Working
    <3> QED
      BY <2>1, <3>2, <3>b, <3>3, <3>4
  <2> QED
    BY <2>2, <2>3
<1>6. PagesAreBorn' /\ StrictDeclaresOnce'
  BY <1>1 DEF PagesInv, PagesAreBorn, StrictDeclaresOnce
<1>7. RowsAreOfRevision'
  BY <1>1 DEF PagesInv, RowsAreOfRevision
<1>8. StaleIsAnnounced'
  <2>1. CASE stale
    BY <1>1, <2>1 DEF StaleIsAnnounced
  <2>2. CASE ~stale
    <3>1. projection'.revision = SpecificationPages(page')
      BY <1>1, <2>2
    <3> QED
      BY <3>1 DEF StaleIsAnnounced, StaleSlugs, SpecificationPages, TextOf
  <2> QED
    BY <2>1, <2>2
<1> QED
  BY <1>4, <1>5, <1>6, <1>7, <1>8 DEF PagesInv

LEMMA PublishIndexInv ==
    ASSUME PagesInv, ChunksInv, NEW c \in Callers, PublishIndex(c) \/ PublishIndexFails(c)
    PROVE  PagesInv'
<1>1. call[c].op = "index" /\ pc[c] = "publishing" /\ Working(c)
  BY DEF PublishIndex, PublishIndexFails, Working
<1>2. CASE Reindexed(c, projection, TRUE)
  BY <1>1, <1>2, ReindexedInv
<1>3. CASE TryAgain(c)
  BY <1>1, <1>3, TryAgainInv
<1>4. ASSUME view[c].kind = "ready", SnapshotUnchanged(c, page), Reindexed(c, view[c], FALSE)
      PROVE  PagesInv'
  <2>1. view[c].rows = RowsOf(view[c].revision)
    BY <1>1, <1>4, OfCaller DEF ViewFits
  <2>2. view[c].revision = SpecificationPages(page) /\ view[c] \in Views
    BY <1>4, OfCaller DEF SnapshotUnchanged
  <2> QED
    BY <1>1, <1>4, <2>1, <2>2, ReindexedInv
<1> QED
  BY <1>2, <1>3, <1>4 DEF PublishIndex, PublishIndexFails

\* The change of one page, by the transaction that holds its row.
LEMMA ChangedPage ==
    ASSUME PagesInv, NEW c \in Callers, pc[c] = "publishing", call[c].op # "index"
    PROVE  LET p == call[c].slug IN
           /\ call[c].op \in {"write", "update", "delete"}
           /\ p \in Slugs /\ rowLock[p] = c /\ call[c].text \in Texts \cup {Absent}
           /\ Changed(c) \in PageMaps
           /\ \A q \in Slugs \ {p} : Changed(c)[q] = page[q]
           /\ TextOf(Changed(c), p) = call[c].text
           /\ call[c].op = "write" => page[p] = Absent
           /\ call[c].op = "update" =>
                 /\ page[p] # Absent /\ page[p] \in PageRecords
                 /\ page[p].revision = call[c].expected
                 /\ Changed(c)[p] # Absent /\ Changed(c)[p].revision = page[p].revision + 1
           /\ call[c].op = "delete" =>
                 /\ page[p] # Absent /\ page[p].revision = call[c].expected
                 /\ Changed(c)[p] = Absent
<1> USE AbsentIsNothing
<1> DEFINE p == call[c].slug
<1>1. call[c].op \in {"write", "update", "delete"}
  BY OfCaller DEF CallFits, CallRecords
<1>2. /\ p \in Slugs /\ rowLock[p] = c /\ call[c].text \in Texts \cup {Absent}
      /\ call[c].op \in {"write", "update"} => call[c].text \in Texts
      /\ call[c].op = "delete" => call[c].text = Absent
      /\ call[c].op = "write" => page[p] = Absent
      /\ call[c].op \in {"update", "delete"} =>
            page[p] # Absent /\ page[p].revision = call[c].expected
      /\ page \in PageMaps
  BY <1>1, OfCaller DEF CallFits, HoldsRow, HasRow, HasRevision
<1>3. page[p] # Absent => page[p] \in PageRecords
  BY <1>2 DEF PageMaps
<1>4. lastId + 1 \in Nat
  BY DEF PagesInv, TypeOK
<1>5. CASE call[c].op = "write"
  <2>1. [id |-> lastId + 1, text |-> call[c].text, revision |-> 1] \in PageRecords
    BY <1>2, <1>4, <1>5 DEF PageRecords
  <2>2. Changed(c) = [page EXCEPT ![p] =
                         [id |-> lastId + 1, text |-> call[c].text, revision |-> 1]]
    BY <1>5 DEF Changed
  <2> QED
    BY <1>2, <1>5, <2>1, <2>2 DEF PageMaps, TextOf
<1>6. CASE call[c].op = "update"
  <2> DEFINE new == [page[p] EXCEPT !.text = call[c].text, !.revision = @ + 1]
  <2>1. page[p] \in PageRecords /\ page[p].revision + 1 \in Nat
    BY <1>2, <1>3, <1>6 DEF PageRecords
  <2>2. /\ new \in PageRecords /\ new.revision = page[p].revision + 1
        /\ new.text = call[c].text
    BY <1>2, <1>6, <2>1 DEF PageRecords
  <2>3. Changed(c) = [page EXCEPT ![p].text = call[c].text, ![p].revision = @ + 1]
    BY <1>6 DEF Changed
  <2>4. Changed(c) = [page EXCEPT ![p] = new]
    BY <1>2, <2>3 DEF PageMaps
  <2> HIDE DEF new
  <2>5. Changed(c)[p] = new /\ new # Absent
    BY <1>2, <2>2, <2>4 DEF PageMaps
  <2>6. Changed(c) \in PageMaps /\ \A q \in Slugs \ {p} : Changed(c)[q] = page[q]
    BY <1>2, <2>2, <2>4 DEF PageMaps
  <2> QED
    BY <1>2, <1>6, <2>1, <2>2, <2>5, <2>6 DEF TextOf
<1>7. CASE call[c].op = "delete"
  <2>1. Changed(c) = [page EXCEPT ![p] = Absent]
    BY <1>7 DEF Changed
  <2> QED
    BY <1>2, <1>7, <2>1 DEF PageMaps, TextOf
<1> QED
  BY <1>1, <1>5, <1>6, <1>7

\* COMMIT: without a projection where none is needed, with the failure of one
\* that was optional, or with one that names the pages as they are now.
LEMMA CommitInv ==
    ASSUME PagesInv, NEW c \in Callers, pc[c] = "publishing", call[c].op # "index",
           NEW described, NEW stale \in BOOLEAN, Commit(c, described, stale),
           \/ view[c] = NoView /\ described = projection /\ stale = announced
           \/ mode = "optional" /\ described = projection /\ stale
           \/ /\ view[c].kind = "ready" /\ SnapshotUnchanged(c, Changed(c))
              /\ described = view[c] /\ ~stale
    PROVE  PagesInv'
<1> USE AbsentIsNothing
<1> DEFINE r == call[c]
           p == call[c].slug
<1>1. /\ page' = Changed(c) /\ generation' = generation + 1
      /\ chunks' = [chunks EXCEPT ![p] = NewChunk(c)]
      /\ lastId' = IF r.op = "write" THEN lastId + 1 ELSE lastId
      /\ births' = IF r.op = "write" THEN [births EXCEPT ![p] = @ + 1] ELSE births
      /\ projection' = IF r.op = "delete"
                       THEN [described EXCEPT !.rows = {row \in @ : row[2] # p}]
                       ELSE described
      /\ announced' = stale
      /\ UNCHANGED <<mode, calls, seen>>
  BY DEF Commit
<1>2. Answer(c) /\ Released(c)
  BY DEF Commit
<1>3. Working(c)
  BY DEF Working
<1>4. /\ r.op \in {"write", "update", "delete"}
      /\ p \in Slugs /\ rowLock[p] = c /\ r.text \in Texts \cup {Absent}
      /\ page' \in PageMaps /\ page \in PageMaps
      /\ \A q \in Slugs \ {p} : page'[q] = page[q]
      /\ TextOf(page', p) = r.text
      /\ r.op = "write" => page[p] = Absent
      /\ r.op = "update" => /\ page[p] # Absent /\ page[p] \in PageRecords
                            /\ page[p].revision = r.expected
                            /\ page'[p] # Absent /\ page'[p].revision = page[p].revision + 1
      /\ r.op = "delete" => /\ page[p] # Absent /\ page[p].revision = r.expected
                            /\ page'[p] = Absent
  BY <1>1, ChangedPage, OfCaller
<1>5. /\ births' \in [Slugs -> Nat] /\ births \in [Slugs -> Nat]
      /\ r.op = "write" => births'[p] = births[p] + 1
      /\ r.op # "write" => births' = births
      /\ \A q \in Slugs \ {p} : births'[q] = births[q]
  BY <1>1, <1>4, OfCaller
<1>b. ASSUME NEW q \in Slugs
      PROVE  /\ births[q] \in Nat /\ births'[q] \in Nat /\ births'[q] >= births[q]
             /\ r.op # "write" \/ q # p => births'[q] = births[q]
             /\ r.op = "write" /\ q = p => births'[q] = births[q] + 1
  <2>1. births[q] \in Nat
    BY <1>5
  <2>2. CASE r.op = "write" /\ q = p
    BY <1>5, <2>1, <2>2
  <2>3. CASE r.op # "write" \/ q # p
    BY <1>5, <2>1, <2>3
  <2> QED
    BY <2>1, <2>2, <2>3
<1>6. r.op \in {"update", "delete"} => births[p] > 0
  BY <1>4 DEF PagesInv, PagesAreBorn
<1>7. ViewFits(c) /\ CallIsOld(c)
  BY OfCaller
<1>8. described \in Views /\ described.rows \subseteq RowsOf(described.revision)
  <2>1. CASE described = projection
    BY <2>1 DEF PagesInv, TypeOK, RowsAreOfRevision
  <2>2. CASE described = view[c] /\ view[c].kind = "ready"
    BY <1>3, <1>7, <2>2, OfCaller DEF ViewFits
  <2> QED
    BY <2>1, <2>2
<1>9. /\ projection' \in Views /\ projection'.revision = described.revision
      /\ \A row \in described.rows :
            row \notin projection'.rows => r.op = "delete" /\ row[2] = p
      /\ projection'.rows \subseteq described.rows
  <2>1. CASE r.op = "delete"
    BY <1>1, <1>8, <2>1 DEF Views
  <2>2. CASE r.op # "delete"
    BY <1>1, <1>8, <2>2
  <2> QED
    BY <2>1, <2>2
<1>10. TypeOK'
  <2>1. /\ mode' \in {"optional", "strict"} /\ generation' \in Nat /\ lastId' \in Nat
        /\ calls' \in Nat /\ seen' \in [Callers -> Reads]
    BY <1>1 DEF PagesInv, TypeOK
  <2>2. chunks' \in [Slugs -> ChunkRecords \cup {Absent}]
    <3>1. r.found \in Nat /\ r.expected \in Nat /\ (r.op \in {"write", "update"} => r.text \in Texts)
      BY <1>4, OfCaller DEF CallRecords, CallFits
    <3>2. NewChunk(c) \in ChunkRecords \cup {Absent}
      BY <1>4, <3>1, OfCaller DEF NewChunk, Chunk, ChunkRecords
    <3> QED
      BY <1>1, <1>4, <3>2, OfCaller
  <2>3. announced' \in BOOLEAN
    BY <1>1 DEF PagesInv, TypeOK
  <2> QED
    BY <1>2, <1>4, <1>5, <1>9, <2>1, <2>2, <2>3, AnsweredFits, ReleaseKeeps DEF TypeOK
<1>11. ASSUME NEW d \in Callers PROVE ReadIsOld(d)'
  <2> DEFINE q == seen[d].slug
  <2> SUFFICES ASSUME seen[d] # Absent
               PROVE  /\ births'[q] > 0
                      /\ births'[q] = 1 /\ page'[q] # Absent =>
                            seen[d].revision <= page'[q].revision
    BY <1>1 DEF ReadIsOld
  <2>1. q \in Slugs /\ seen[d].revision \in Nat
    BY OfCaller DEF Reads
  <2>2. /\ births[q] > 0
        /\ births[q] = 1 /\ page[q] # Absent => seen[d].revision <= page[q].revision
    BY OfCaller DEF ReadIsOld
  <2>3. births[q] \in Nat
    BY <1>5, <2>1
  <2>4. CASE q # p
    BY <1>4, <1>5, <2>1, <2>2, <2>4
  <2>5. CASE q = p /\ r.op = "write"
    <3>1. births'[q] = births[q] + 1 /\ births[q] \in Nat
      BY <1>b, <2>1, <2>5
    <3> QED
      BY <2>2, <3>1
  <2>6. CASE q = p /\ r.op = "update"
    <3>1. page[p].revision \in Nat
      BY <1>4, <2>6 DEF PageRecords
    <3> QED
      BY <1>4, <1>5, <2>1, <2>2, <2>6, <3>1
  <2>7. CASE q = p /\ r.op = "delete"
    BY <1>4, <1>5, <2>1, <2>2, <2>7
  <2> QED
    BY <1>4, <2>4, <2>5, <2>6, <2>7
<1>12. ASSUME NEW d \in Callers \ {c}, call[d].op \in {"update", "delete"}
       PROVE  CallIsOld(d)'
  <2> DEFINE q == call[d].slug
  <2>1. call'[d] = call[d] /\ pc'[d] = pc[d] /\ view'[d] = view[d]
    BY <1>2, AnsweredFits
  <2>2. q \in Slugs /\ call[d].expected \in Nat
    BY <1>12, OfCaller DEF CallFits, CallRecords
  <2>3. /\ births[q] > 0
        /\ births[q] = 1 /\ page[q] # Absent => call[d].expected <= page[q].revision
    BY <1>12, OfCaller DEF CallIsOld
  <2>4. births[q] \in Nat
    BY <1>5, <2>2
  <2>5. CASE q # p
    <3>1. births'[q] = births[q] /\ page'[q] = page[q]
      BY <1>4, <1>5, <2>2, <2>5
    <3>2. CallIsOld(d)
      BY OfCaller
    <3> QED
      BY <2>1, <3>1, <3>2 DEF CallIsOld, Working
  <2>6. CASE q = p /\ r.op = "write"
    <3>1. births'[q] > 0 /\ births'[q] # 1
      BY <1>5, <2>2, <2>3, <2>4, <2>6
    <3>2. births'[call'[d].slug] > 0 /\ births'[call'[d].slug] # 1
      BY <2>1, <3>1
    <3> QED
      BY <3>2 DEF CallIsOld
  <2>7. CASE q = p /\ r.op = "update"
    <3>1. page[p].revision \in Nat
      BY <1>4, <2>7 DEF PageRecords
    <3>2. births'[q] = births[q] /\ (births[q] = 1 => call[d].expected < page'[q].revision)
      BY <1>4, <1>5, <2>2, <2>3, <2>7, <3>1
    <3>3. page'[q].revision \in Nat
      BY <1>4, <2>7, <3>1
    <3> QED
      BY <2>1, <2>2, <2>3, <3>2, <3>3 DEF CallIsOld
  <2>8. CASE q = p /\ r.op = "delete"
    <3>1. births'[q] = births[q] /\ page'[q] = Absent
      BY <1>4, <1>5, <2>2, <2>8
    <3> QED
      BY <2>1, <2>3, <3>1 DEF CallIsOld
  <2> QED
    BY <1>4, <2>5, <2>6, <2>7, <2>8
<1>13. ASSUME NEW d \in Callers
       PROVE  CallFits(d)' /\ HoldsRow(d)' /\ ViewFits(d)' /\ ReadIsOld(d)' /\ CallIsOld(d)'
  <2>1. CASE d = c
    BY <1>2, <1>11, <2>1, AnsweredFits
  <2>2. CASE d # c
    <3>1. call'[d] = call[d] /\ pc'[d] = pc[d] /\ view'[d] = view[d] /\ mode' = mode
      BY <1>1, <1>2, <2>2, AnsweredFits
    <3>2. CallFits(d) /\ HoldsRow(d) /\ ViewFits(d) /\ CallIsOld(d)
      BY OfCaller
    <3>3. CallFits(d)'
      BY <3>1, <3>2 DEF CallFits, Working, IndexedPages
    <3>4. ViewFits(d)'
      BY <3>1, <3>2 DEF ViewFits, Working
    <3>5. HoldsRow(d)'
      <4> SUFFICES ASSUME HasRow(d) PROVE HoldsRow(d)'
        BY <3>1 DEF HoldsRow, HasRow
      <4>1. rowLock[call[d].slug] = d /\ call[d].slug \in Slugs
        BY <3>2, OfCaller DEF HoldsRow, HasRow, CallFits, CallRecords
      <4>2. /\ call[d].slug # p /\ page'[call[d].slug] = page[call[d].slug]
            /\ rowLock'[call[d].slug] = d
        BY <1>2, <1>4, <2>2, <4>1 DEF Released
      <4> QED
        BY <3>1, <3>2, <4>1, <4>2 DEF HoldsRow, HasRow, HasRevision
    <3>6. CallIsOld(d)'
      BY <1>12, <2>2, <3>1 DEF CallIsOld
    <3> QED
      BY <1>11, <3>3, <3>4, <3>5, <3>6
  <2> QED
    BY <2>1, <2>2
<1>14. PagesAreBorn'
  <2> SUFFICES ASSUME NEW q \in Slugs, page'[q] # Absent PROVE births'[q] > 0
    BY DEF PagesAreBorn
  <2>1. CASE q # p
    <3>1. births[q] > 0
      BY <1>4, <2>1 DEF PagesInv, PagesAreBorn
    <3> QED
      BY <1>b, <2>1, <3>1
  <2>2. CASE q = p
    BY <1>4, <1>6, <1>b, <2>2
  <2> QED
    BY <2>1, <2>2
<1>15. RowsAreOfRevision'
  <2> SUFFICES ASSUME NEW row \in RowsOf(described.revision), row \notin projection'.rows
               PROVE  \/ births'[row[2]] > 1
                      \/ births'[row[2]] = 1 /\ page'[row[2]] = Absent
    BY <1>8, <1>9 DEF RowsAreOfRevision
  <2>1. row[2] \in Slugs
    BY DEF RowsOf
  <2>2. births[row[2]] \in Nat
    BY <1>5, <2>1
  <2>3. CASE row \in described.rows
    <3>1. r.op = "delete" /\ row[2] = p
      BY <1>9, <2>3
    <3>2. births'[row[2]] = births[row[2]] /\ births[row[2]] > 0 /\ page'[row[2]] = Absent
      BY <1>4, <1>6, <1>b, <2>1, <3>1
    <3> QED
      BY <2>2, <3>2
  <2>4. CASE row \notin described.rows
    <3>1. described = projection
      BY <1>3, <1>7, <2>4 DEF ViewFits
    <3>2. births[row[2]] > 1 \/ (births[row[2]] = 1 /\ page[row[2]] = Absent)
      BY <2>4, <3>1 DEF PagesInv, RowsAreOfRevision
    <3>3. CASE row[2] # p
      BY <1>4, <1>b, <2>1, <3>2, <3>3
    <3>4. CASE row[2] = p /\ r.op = "write"
      <4>1. births'[row[2]] = births[row[2]] + 1
        BY <1>b, <2>1, <3>4
      <4> QED
        BY <2>2, <3>2, <4>1
    <3>5. CASE row[2] = p /\ r.op # "write"
      BY <1>4, <1>b, <2>1, <3>2, <3>5
    <3> QED
      BY <3>3, <3>4, <3>5
  <2> QED
    BY <2>3, <2>4
<1>16. view[c] = NoView => ~IsSpecification(r.text)
  BY <1>3, <1>4, <1>7 DEF ViewFits
<1>17. StaleIsAnnounced'
  <2>1. CASE stale
    BY <1>1, <2>1 DEF StaleIsAnnounced
  <2>2. CASE view[c].kind = "ready" /\ SnapshotUnchanged(c, Changed(c)) /\ described = view[c]
    <3>1. projection'.revision = SpecificationPages(page')
      BY <1>1, <1>9, <2>2 DEF SnapshotUnchanged
    <3> QED
      BY <3>1 DEF StaleIsAnnounced, StaleSlugs, SpecificationPages, TextOf
  <2>3. CASE view[c] = NoView /\ described = projection /\ stale = announced
    <3> SUFFICES ASSUME ~announced, NEW q \in StaleSlugs' PROVE births'[q] > 1
      BY <1>1, <2>3 DEF StaleIsAnnounced
    <3>1. q \in Slugs /\ births[q] \in Nat
      BY <1>5 DEF StaleSlugs
    <3>2. q \in StaleSlugs => births[q] > 1
      BY DEF PagesInv, StaleIsAnnounced
    <3>3. CASE q \in StaleSlugs
      BY <1>b, <3>1, <3>2, <3>3
    <3>4. CASE q \notin StaleSlugs
      <4>1. {t \in SpecificationPages(page') : t[1] = q} # {t \in SpecificationPages(page) : t[1] = q}
        BY <1>9, <2>3, <3>1, <3>4 DEF StaleSlugs, SpecificationPages, TextOf
      <4>2. q = p
        BY <1>4, <3>1, <4>1 DEF SpecificationPages, TextOf
      <4>3. ~IsSpecification(TextOf(page', p))
        BY <1>4, <1>16, <2>3
      <4>4. IsSpecification(TextOf(page, p))
        BY <4>1, <4>2, <4>3 DEF SpecificationPages
      <4>5. r.op \in {"update", "delete"}
        BY <1>4, <4>4 DEF TextOf, IsSpecification
      <4>6. births[p] # 1
        BY <1>3, <1>4, <1>7, <2>3, <4>4, <4>5 DEF CallIsOld, TextOf
      <4> QED
        BY <1>6, <1>b, <3>1, <4>2, <4>5, <4>6
    <3> QED
      BY <3>3, <3>4
  <2> QED
    BY <2>1, <2>2, <2>3
<1>18. StrictDeclaresOnce'
  <2> SUFFICES ASSUME mode = "strict" PROVE \A q \in Slugs : ~Blocked(page', q)
    BY <1>1 DEF StrictDeclaresOnce, Blocked, DeclaredBy, TextOf
  <2>1. \A q \in Slugs : ~Blocked(page, q)
    BY DEF PagesInv, StrictDeclaresOnce
  <2>2. CASE view[c] = NoView
    <3>1. ~Blocked(page', p)
      BY <1>4, <1>16, <2>2, PlainIsUnblocked
    <3> QED
      BY <1>4, <2>1, <3>1, OthersStayUnblocked
  <2>3. CASE view[c].kind = "ready" /\ SnapshotUnchanged(c, Changed(c))
    <3>1. view[c].revision = SpecificationPages(page')
      BY <1>1, <2>3 DEF SnapshotUnchanged
    <3>2. \A s \in Scenarios : p \in Declarers(view[c].revision, s) =>
                                  Declarers(view[c].revision, s) = {p}
      BY <1>3, <1>4, <1>7, <2>3 DEF ViewFits
    <3>3. ~Blocked(page', p)
      BY <1>4, <3>1, <3>2, DeclaredByRevision DEF Blocked
    <3> QED
      BY <1>4, <2>1, <3>3, OthersStayUnblocked
  <2> QED
    BY <2>2, <2>3
<1> QED
  BY <1>10, <1>13, <1>14, <1>15, <1>17, <1>18 DEF PagesInv

LEMMA PublishInv ==
    ASSUME PagesInv, NEW c \in Callers, Publish(c) \/ PublishFails(c)
    PROVE  PagesInv'
<1>1. pc[c] = "publishing" /\ Working(c)
  BY DEF Publish, PublishFails, Working
<1>2. call[c].op # "index" /\ ViewFits(c)
  BY OfCaller DEF Publish, PublishFails
<1>3. mode \in {"optional", "strict"} /\ announced \in BOOLEAN
  BY DEF PagesInv, TypeOK
<1>4. CASE Publish(c)
  <2>1. CASE view[c] = NoView /\ Commit(c, projection, announced)
    BY <1>1, <1>2, <1>3, <2>1, CommitInv
  <2>2. CASE view[c] = Failed /\ Commit(c, projection, TRUE)
    <3>1. mode = "optional"
      BY <1>1, <1>2, <1>3, <2>2 DEF ViewFits
    <3> QED
      BY <1>1, <1>2, <2>2, <3>1, CommitInv
  <2>3. ASSUME view[c].kind = "ready", SnapshotUnchanged(c, Changed(c)), Commit(c, view[c], FALSE)
        PROVE  PagesInv'
    BY <1>1, <1>2, <2>3, CommitInv
  <2>4. CASE TryAgain(c)
    BY <1>1, <2>4, TryAgainInv
  <2> QED
    BY <1>4, <2>1, <2>2, <2>3, <2>4 DEF Publish
<1>5. CASE PublishFails(c)
  <2>1. CASE mode = "optional"
    BY <1>1, <1>2, <1>5, <2>1, CommitInv DEF PublishFails
  <2>2. CASE mode # "optional"
    BY <1>5, <2>2, RefuseInv DEF PublishFails
  <2> QED
    BY <2>1, <2>2
<1> QED
  BY <1>4, <1>5

-----------------------------------------------------------------------------
(* Every step *)

LEMMA StutterInv == ASSUME PagesInv, UNCHANGED vars PROVE PagesInv'
<1>1. /\ UNCHANGED <<mode, page, chunks, generation, projection, lastId, calls, pc, call, seen,
                     view, rowLock, chunkLock, domainLock, announced, births>>
  BY DEF vars, database, locks, history
<1>2. TypeOK'
  BY <1>1 DEF PagesInv, TypeOK
<1>3. ASSUME NEW c \in Callers
      PROVE  CallFits(c)' /\ HoldsRow(c)' /\ ViewFits(c)' /\ ReadIsOld(c)' /\ CallIsOld(c)'
  <2>1. CallFits(c) /\ HoldsRow(c) /\ ViewFits(c) /\ ReadIsOld(c) /\ CallIsOld(c)
    BY DEF PagesInv
  <2>2. CallFits(c)' /\ HoldsRow(c)'
    BY <1>1, <2>1 DEF CallFits, HoldsRow, HasRow, Working, HasRevision, IndexedPages
  <2>3. ViewFits(c)'
    BY <1>1, <2>1 DEF ViewFits, Working
  <2>4. ReadIsOld(c)' /\ CallIsOld(c)'
    BY <1>1, <2>1 DEF ReadIsOld, CallIsOld, Working
  <2> QED
    BY <2>2, <2>3, <2>4
<1>4. PagesAreBorn' /\ RowsAreOfRevision' /\ StrictDeclaresOnce'
  BY <1>1 DEF PagesInv, PagesAreBorn, RowsAreOfRevision, StrictDeclaresOnce
<1>5. StaleIsAnnounced'
  BY <1>1 DEF PagesInv, StaleIsAnnounced, StaleSlugs, SpecificationPages, TextOf
<1> QED
  BY <1>2, <1>3, <1>4, <1>5 DEF PagesInv

LEMMA StepInv == PagesInv /\ ChunksInv /\ [Next]_vars => PagesInv'
<1> SUFFICES ASSUME PagesInv, ChunksInv, [Next]_vars PROVE PagesInv'
  OBVIOUS
<1>1. ASSUME NEW c \in Callers, CallStep(c) PROVE PagesInv'
  BY <1>1, CheckInv, PrepareInv, PrepareIndexInv, LockFirstInv, TakeRowInv, ChunkStepInv,
     BumpInv, PublishInv, EmptyInv, PublishIndexInv, RefuseInv DEF CallStep, DeadlockVictim
<1>2. ASSUME NEW c \in Callers, ConnectionLost(c) PROVE PagesInv'
  BY <1>2, RefuseInv DEF ConnectionLost
<1> QED
  BY <1>1, <1>2, ReadInv, StartInv, StutterInv DEF Next

-----------------------------------------------------------------------------
(* Chunks *)

LEMMA InitChunks == Init => ChunksInv
<1> SUFFICES ASSUME Init PROVE ChunksInv
  OBVIOUS
<1> USE AbsentIsNothing
<1>1. \A c \in Callers : HoldsChunk(c) /\ HoldsChunks(c) /\ IndexIsOld(c)
  BY DEF Init, NoCall, HoldsChunk, HoldsChunks, IndexIsOld, Filled, Working
<1>2. ASSUME NEW p \in Slugs
      PROVE  /\ chunks[p] = Absent <=> page[p] = Absent
             /\ page[p] # Absent => /\ page[p].id <= lastId
                                    /\ chunks[p].revision <= page[p].revision
                                    /\ chunks[p].text = page[p].text
  <2>1. PICK first \in Slugs, t \in Texts :
           page = [q \in Slugs |-> IF q = first THEN [id |-> 1, text |-> t, revision |-> 1]
                                   ELSE Absent]
    BY DEF Init
  <2>2. /\ chunks[p] = IF page[p] = Absent THEN Absent ELSE Chunk(1, page[p].text, 1, "tool")
        /\ lastId = 1
    BY DEF Init
  <2>3. CASE page[p] = Absent
    BY <2>2, <2>3
  <2>4. CASE page[p] # Absent
    <3>1. page[p].id = 1 /\ page[p].revision = 1 /\ page[p].text \in Texts
      BY <2>1, <2>4
    <3>2. Chunk(1, page[p].text, 1, "tool") \in ChunkRecords
      BY <3>1 DEF Chunk, ChunkRecords
    <3> QED
      BY <2>2, <2>4, <3>1, <3>2 DEF Chunk
  <2> QED
    BY <2>3, <2>4
<1> QED
  BY <1>1, <1>2 DEF ChunksInv, PagesAreNumbered, ChunksAreKnown

\* What is known of the chunks of one caller and of one page.
LEMMA OfChunks ==
    ASSUME PagesInv, ChunksInv, NEW c \in Callers, NEW p \in Slugs
    PROVE  /\ HoldsChunk(c) /\ HoldsChunks(c) /\ IndexIsOld(c)
           /\ chunks[p] = Absent <=> page[p] = Absent
           /\ page[p] # Absent =>
                 /\ page[p] \in PageRecords /\ chunks[p] \in ChunkRecords
                 /\ page[p].id <= lastId /\ chunks[p].revision <= page[p].revision
                 /\ chunks[p].text # page[p].text =>
                       chunks[p].by = "index" /\ chunks[p].revision < page[p].revision
<1>1. page[p] \in PageRecords \cup {Absent} /\ chunks[p] \in ChunkRecords \cup {Absent}
  BY OfCaller DEF PageMaps
<1> QED
  BY <1>1 DEF ChunksInv, PagesAreNumbered, ChunksAreKnown

\* A step of c that commits nothing leaves the others what they know.
LEMMA ChunkFrame ==
    ASSUME PagesInv, ChunksInv, NEW c \in Callers, UNCHANGED <<page, chunks, lastId>>,
           \A d \in Callers \ {c} : pc'[d] = pc[d] /\ call'[d] = call[d],
           \A p \in Slugs : chunkLock[p] \in Callers \ {c} => chunkLock'[p] = chunkLock[p],
           \A p \in Slugs : chunkLock'[p] \in {c, Absent, chunkLock[p]},
           HoldsChunk(c)', HoldsChunks(c)', IndexIsOld(c)'
    PROVE  ChunksInv'
<1> USE AbsentIsNothing
<1>1. ASSUME NEW d \in Callers, d # c
      PROVE  HoldsChunk(d)' /\ HoldsChunks(d)' /\ IndexIsOld(d)'
  <2>1. HoldsChunk(d) /\ HoldsChunks(d) /\ IndexIsOld(d) /\ CallFits(d)
    BY OfCaller DEF ChunksInv
  <2>2. pc'[d] = pc[d] /\ call'[d] = call[d]
    BY <1>1
  <2>3. \A p \in Slugs : chunkLock'[p] = d <=> chunkLock[p] = d
    BY <1>1
  <2>4. HoldsChunk(d)'
    <3>1. call[d].op \in {"update", "delete"} => call[d].slug \in Slugs
      BY <2>1 DEF CallFits
    <3> QED
      BY <2>1, <2>2, <2>3, <3>1 DEF HoldsChunk
  <2>5. \A p \in Slugs : Filled(d, p)' = Filled(d, p) /\ OwnPage(d, p)' = OwnPage(d, p)
    BY <2>2 DEF Filled, OwnPage, IndexedPages
  <2>6. HoldsChunks(d)'
    BY <2>1, <2>2, <2>3, <2>5 DEF HoldsChunks, Working, IndexedPages
  <2>7. IndexIsOld(d)'
    BY <2>1, <2>2, <2>5 DEF IndexIsOld, Working, IndexedPages
  <2> QED
    BY <2>4, <2>6, <2>7
<1>2. PagesAreNumbered' /\ ChunksAreKnown'
  BY DEF ChunksInv, PagesAreNumbered, ChunksAreKnown
<1> QED
  BY <1>1, <1>2 DEF ChunksInv

\* After most steps a caller need not know anything of the chunks.
KnowsNothing(c) ==
    \/ pc[c] \in {"idle", "checking", "preparing"}
    \/ pc[c] \in {"changing", "selecting"} /\ call[c].op # "index"
    \/ pc[c] = "rewriting" /\ call[c].op = "delete"
    \/ call[c].op = "write"

LEMMA QuietChunks ==
    ASSUME PagesInv, ChunksInv, NEW c \in Callers, UNCHANGED <<page, chunks, lastId>>,
           \A d \in Callers \ {c} : pc'[d] = pc[d] /\ call'[d] = call[d],
           \A p \in Slugs : chunkLock[p] \in Callers \ {c} => chunkLock'[p] = chunkLock[p],
           \A p \in Slugs : chunkLock'[p] \in {c, Absent, chunkLock[p]},
           KnowsNothing(c)'
    PROVE  ChunksInv'
<1>1. HoldsChunk(c)'
  BY DEF KnowsNothing, HoldsChunk
<1>2. HoldsChunks(c)' /\ IndexIsOld(c)'
  BY DEF KnowsNothing, HoldsChunks, IndexIsOld, Filled, Working
<1> QED
  BY <1>1, <1>2, ChunkFrame

\* A caller's step is of its own pc and call.
LEMMA Others ==
    ASSUME PagesInv, NEW c \in Callers, NEW label, NEW r,
           pc' = [pc EXCEPT ![c] = label], call' = [call EXCEPT ![c] = r]
    PROVE  /\ pc'[c] = label /\ call'[c] = r
           /\ \A d \in Callers \ {c} : pc'[d] = pc[d] /\ call'[d] = call[d]
BY OfCaller

\* A call that ends, reads or waits anew gives back its own locks or none.
LEMMA RefuseChunks ==
    ASSUME PagesInv, ChunksInv, NEW c \in Callers, Refuse(c)
    PROVE  ChunksInv'
<1>1. /\ pc' = [pc EXCEPT ![c] = "idle"] /\ call' = [call EXCEPT ![c] = NoCall]
      /\ UNCHANGED <<page, chunks, lastId>>
  BY DEF Refuse, Answer, database
<1>2. KnowsNothing(c)'
  BY <1>1, Others DEF KnowsNothing
<1> QED
  BY <1>1, <1>2, Others, ReleaseKeeps, QuietChunks DEF Refuse

LEMMA StartChunks ==
    ASSUME PagesInv, ChunksInv, NEW c \in Callers,
           \/ \E p \in Slugs : Read(c, p)
           \/ \E p \in Slugs, t \in Texts : StartWrite(c, p, t)
           \/ \E t \in Texts : StartUpdate(c, t)
           \/ StartDelete(c) \/ StartIndex(c)
    PROVE  ChunksInv'
<1>1. ASSUME NEW p \in Slugs, Read(c, p) PROVE ChunksInv'
  <2>1. /\ pc[c] = "idle" /\ UNCHANGED <<page, chunks, lastId, pc, call, chunkLock>>
    BY <1>1 DEF Read, database, locks
  <2>2. KnowsNothing(c)'
    BY <2>1 DEF KnowsNothing
  <2> QED
    BY <2>1, <2>2, QuietChunks
<1>2. ASSUME NEW label \in {"checking", "preparing"}, NEW r, Begin(c, label, r)
      PROVE  ChunksInv'
  <2> DEFINE q == [r EXCEPT !.attempt = 1]
  <2>1. /\ pc' = [pc EXCEPT ![c] = label] /\ call' = [call EXCEPT ![c] = q]
        /\ UNCHANGED <<page, chunks, lastId, chunkLock>>
    BY <1>2 DEF Begin, Goto, database, locks
  <2> HIDE DEF q
  <2>2. KnowsNothing(c)'
    BY <2>1, Others DEF KnowsNothing
  <2> QED
    BY <2>1, <2>2, Others, QuietChunks
<1> QED
  BY <1>1, <1>2 DEF StartWrite, StartUpdate, StartDelete, StartIndex

LEMMA PrepareChunks ==
    ASSUME PagesInv, ChunksInv, NEW c \in Callers,
           Check(c) \/ Prepare(c) \/ PrepareFails(c) \/ LockFirst(c) \/ Insert(c) \/ ChangeRow(c)
    PROVE  ChunksInv'
<1>1. CASE Refuse(c)
  BY <1>1, RefuseChunks
<1>2. ASSUME NEW label \in Labels, pc' = [pc EXCEPT ![c] = label],
             UNCHANGED <<database, call, chunkLock>>,
             \/ label = "preparing"
             \/ label \in {"changing", "selecting"} /\ call[c].op # "index"
             \/ label = "rewriting" /\ call[c].op = "delete"
             \/ call[c].op = "write"
      PROVE  ChunksInv'
  <2>1. /\ call' = [call EXCEPT ![c] = call[c]] /\ UNCHANGED <<page, chunks, lastId>>
    BY <1>2, OfCaller DEF database
  <2>2. KnowsNothing(c)'
    BY <1>2, <2>1, Others DEF KnowsNothing
  <2> QED
    BY <1>2, <2>1, <2>2, Others, QuietChunks
<1>3. ASSUME Check(c), ~Refuse(c) PROVE ChunksInv'
  BY <1>2, <1>3 DEF Check, Goto, locks, Labels
<1>4. ASSUME Prepare(c) \/ PrepareFails(c), ~Refuse(c) PROVE ChunksInv'
  BY <1>2, <1>4 DEF Prepare, PrepareFails, Prepared, Goto, locks, Labels
<1>5. ASSUME LockFirst(c) PROVE ChunksInv'
  <2>1. pc' = [pc EXCEPT ![c] = "changing"]
    BY <1>5, OfCaller DEF LockFirst
  <2> QED
    BY <1>2, <1>5, <2>1 DEF LockFirst, Labels
<1>6. ASSUME Insert(c), ~Refuse(c) PROVE ChunksInv'
  BY <1>2, <1>6 DEF Insert, Locked, Goto, Labels
<1>7. ASSUME ChangeRow(c), ~Refuse(c) PROVE ChunksInv'
  BY <1>2, <1>7 DEF ChangeRow, Locked, Goto, Labels
<1> QED
  BY <1>1, <1>3, <1>4, <1>5, <1>6, <1>7

LEMMA TryAgainChunks ==
    ASSUME PagesInv, ChunksInv, NEW c \in Callers, TryAgain(c)
    PROVE  ChunksInv'
<1>1. CASE Refuse(c)
  BY <1>1, RefuseChunks
<1>2. ASSUME Goto(c, "preparing"), Released(c), call' = [call EXCEPT ![c].attempt = @ + 1],
             UNCHANGED database
      PROVE  ChunksInv'
  <2> DEFINE r == [call[c] EXCEPT !.attempt = @ + 1]
  <2>1. /\ pc' = [pc EXCEPT ![c] = "preparing"] /\ call' = [call EXCEPT ![c] = r]
        /\ UNCHANGED <<page, chunks, lastId>>
    BY <1>2, OfCaller DEF Goto, database
  <2> HIDE DEF r
  <2>2. KnowsNothing(c)'
    BY <2>1, Others DEF KnowsNothing
  <2> QED
    BY <1>2, <2>1, <2>2, Others, ReleaseKeeps, QuietChunks
<1>3. ASSUME Goto(c, "changing"), Released(c), call[c].op # "index", UNCHANGED <<database, call>>
      PROVE  ChunksInv'
  <2>1. /\ pc' = [pc EXCEPT ![c] = "changing"] /\ call' = [call EXCEPT ![c] = call[c]]
        /\ UNCHANGED <<page, chunks, lastId>>
    BY <1>3, OfCaller DEF Goto, database
  <2>2. pc'[c] = "changing" /\ call'[c] = call[c]
    BY <2>1, OfCaller
  <2>3. KnowsNothing(c)'
    BY <1>3, <2>2 DEF KnowsNothing
  <2> QED
    BY <1>3, <2>1, <2>3, Others, ReleaseKeeps, QuietChunks
<1> QED
  BY <1>1, <1>2, <1>3 DEF TryAgain

\* A page tool finds or takes the chunk row of its page.
LEMMA RewriteChunks ==
    ASSUME PagesInv, ChunksInv, NEW c \in Callers,
           SelectChunks(c) \/ UpdateChunk(c) \/ ReplaceChunk(c) \/ DropPage(c) \/ BumpGeneration(c)
    PROVE  ChunksInv'
<1> USE AbsentIsNothing
<1> DEFINE p == call[c].slug
<1>1. CASE Refuse(c)
  BY <1>1, RefuseChunks
<1>2. /\ call[c] \in CallRecords /\ call[c].op \in {"write", "update", "delete"} /\ p \in Slugs
      /\ HoldsChunk(c)
  BY OfCaller DEF SelectChunks, UpdateChunk, ReplaceChunk, DropPage, BumpGeneration,
                  CallFits, CallRecords, ChunksInv
<1>3. ASSUME NEW n, NEW label \in {"rewriting", "bumping", "publishing"},
             pc' = [pc EXCEPT ![c] = label], call' = [call EXCEPT ![c].found = n],
             UNCHANGED database,
             \/ UNCHANGED chunkLock
             \/ ChunkHolders(c, p) = {} /\ LockChunk(c, p),
             \/ call[c].op = "write"
             \/ chunkLock'[p] = c
             \/ /\ call[c].op = "update" /\ label = "rewriting" /\ chunks[p].id = n
             \/ /\ call[c].op = "update" /\ label # "rewriting"
                /\ chunks[p].text = call[c].text \/ chunks[p].by = "index",
             label # "rewriting" \/ call[c].op # "update" \/ chunks[p].id = n
      PROVE  ChunksInv'
  <2> DEFINE r == [call[c] EXCEPT !.found = n]
  <2>1. /\ r.op = call[c].op /\ r.slug = p /\ r.text = call[c].text /\ r.found = n
        /\ call' = [call EXCEPT ![c] = r]
    BY <1>2, <1>3, OfCaller DEF CallRecords
  <2> HIDE DEF r
  <2>2. /\ pc'[c] = label /\ call'[c] = r
        /\ \A d \in Callers \ {c} : pc'[d] = pc[d] /\ call'[d] = call[d]
    BY <1>3, <2>1, Others
  <2>3. UNCHANGED <<page, chunks, lastId>>
    BY <1>3 DEF database
  <2>4. /\ \A q \in Slugs : chunkLock[q] \in Callers \ {c} => chunkLock'[q] = chunkLock[q]
        /\ \A q \in Slugs : chunkLock'[q] \in {c, Absent, chunkLock[q]}
    BY <1>2, <1>3, OfCaller DEF ChunkHolders, LockChunk
  <2>5. HoldsChunk(c)'
    BY <1>3, <2>1, <2>2, <2>3 DEF HoldsChunk
  <2>6. HoldsChunks(c)' /\ IndexIsOld(c)'
    BY <1>2, <2>1, <2>2 DEF HoldsChunks, IndexIsOld, Filled
  <2> QED
    BY <2>2, <2>3, <2>4, <2>5, <2>6, ChunkFrame
<1>4. call' = call => call' = [call EXCEPT ![c].found = call[c].found]
  BY OfCaller DEF CallRecords
<1>5. CASE SelectChunks(c)
  BY <1>3, <1>5, OfCaller DEF SelectChunks, Goto, locks, CallFits
<1>6. CASE UpdateChunk(c)
  <2>1. chunks[p].id = call[c].found \/ chunks[p].by = "index"
    BY <1>2, <1>6 DEF UpdateChunk, HoldsChunk
  <2>2. chunks[p].id = call[c].found => chunkLock'[p] = c
    BY <1>2, <1>6, OfCaller DEF UpdateChunk, LockChunk
  <2> QED
    BY <1>3, <1>4, <1>6, <2>1, <2>2 DEF UpdateChunk, Goto
<1>7. ASSUME ReplaceChunk(c), ~Refuse(c) PROVE ChunksInv'
  <2>1. chunkLock'[p] = c
    BY <1>2, <1>7, OfCaller DEF ReplaceChunk, LockChunk
  <2> QED
    BY <1>3, <1>7, <2>1 DEF ReplaceChunk, Goto
<1>8. CASE DropPage(c)
  <2>1. chunkLock'[p] = c
    BY <1>2, <1>8, OfCaller DEF DropPage, LockChunk
  <2> QED
    BY <1>3, <1>4, <1>8, <2>1 DEF DropPage, Goto
<1>9. CASE BumpGeneration(c)
  BY <1>2, <1>3, <1>4, <1>9 DEF BumpGeneration, Goto, HoldsChunk
<1> QED
  BY <1>1, <1>5, <1>6, <1>7, <1>8, <1>9

\* An index_domain goes on to another page with what it knows of those done.
LEMMA IndexChunks ==
    ASSUME PagesInv, ChunksInv, NEW c \in Callers, UNCHANGED <<page, chunks, lastId>>,
           \A d \in Callers \ {c} : pc'[d] = pc[d] /\ call'[d] = call[d],
           \A p \in Slugs : chunkLock[p] \in Callers \ {c} => chunkLock'[p] = chunkLock[p],
           \A p \in Slugs : chunkLock'[p] \in {c, Absent, chunkLock[p]},
           call'[c].op = "index", Working(c)', HoldsChunks(c)', IndexIsOld(c)'
    PROVE  ChunksInv'
<1>1. HoldsChunk(c)'
  BY DEF HoldsChunk
<1> QED
  BY <1>1, ChunkFrame

LEMMA PrepareIndexChunks ==
    ASSUME PagesInv, ChunksInv, NEW c \in Callers, PrepareIndex(c)
    PROVE  ChunksInv'
<1> USE AbsentIsNothing
<1> DEFINE r == [call[c] EXCEPT !.base = page]
           rest == {p \in Slugs : page[p] # Absent}
<1>1. /\ r.op = "index" /\ r.base = page /\ call[c] \in CallRecords
      /\ NextPage(c, r, rest) /\ UNCHANGED <<page, chunks, lastId, chunkLock>>
  BY OfCaller DEF PrepareIndex, CallRecords, database, locks
<1>2. ASSUME NEW label \in {"emptying", "publishing"}, NEW q, q.op = "index", q.base = page,
             pc' = [pc EXCEPT ![c] = label], call' = [call EXCEPT ![c] = q],
             \A p \in rest : label = "emptying" /\ q.slug <= p, label = "emptying" => q.slug \in Slugs
      PROVE  ChunksInv'
  <2>1. /\ pc'[c] = label /\ call'[c] = q
        /\ \A d \in Callers \ {c} : pc'[d] = pc[d] /\ call'[d] = call[d]
    BY <1>2, Others
  <2>2. IndexedPages(c)' = rest /\ Working(c)'
    BY <1>1, <1>2, <2>1 DEF IndexedPages, Working
  <2>3. \A p \in Slugs : ~Filled(c, p)'
    <3> SUFFICES ASSUME NEW p \in Slugs, Filled(c, p)' PROVE FALSE
      OBVIOUS
    <3>1. p \in rest /\ (label # "publishing" => p < q.slug)
      BY <2>1, <2>2 DEF Filled
    <3>2. label = "emptying" /\ q.slug <= p /\ q.slug \in Slugs
      BY <1>2, <3>1
    <3>3. p < q.slug /\ p \in Nat /\ q.slug \in Nat
      BY <3>1, <3>2
    <3> HIDE DEF rest
    <3> QED
      BY <3>2, <3>3
  <2>4. \A p \in rest : OwnPage(c, p)'
    BY <1>1, <1>2, <2>1 DEF OwnPage
  <2>5. HoldsChunks(c)'
    BY <2>2, <2>3, <2>4 DEF HoldsChunks
  <2>6. IndexIsOld(c)'
    <3>1. \A p \in rest : page[p].id <= lastId /\ page[p].revision \in Nat
      BY OfChunks DEF PageRecords
    <3> QED
      BY <1>1, <1>2, <2>1, <2>2, <3>1 DEF IndexIsOld
  <2> HIDE DEF rest
  <2> QED
    BY <1>1, <1>2, <2>1, <2>2, <2>5, <2>6, IndexChunks
<1>3. CASE rest = {} /\ Goto(c, "publishing") /\ call' = [call EXCEPT ![c] = r]
  BY <1>1, <1>2, <1>3 DEF Goto
<1>4. ASSUME NEW p \in rest, \A q \in rest : p <= q, Goto(c, "emptying"),
             call' = [call EXCEPT ![c] = [r EXCEPT !.slug = p, !.found = 0]]
      PROVE  ChunksInv'
  <2> DEFINE q == [r EXCEPT !.slug = p, !.found = 0]
  <2>1. q.op = "index" /\ q.base = page /\ q.slug = p /\ p \in Slugs
    BY <1>1 DEF CallRecords
  <2> HIDE DEF q
  <2> QED
    BY <1>2, <1>4, <2>1 DEF Goto, q
<1> QED
  BY <1>1, <1>3, <1>4 DEF NextPage

LEMMA EmptyChunks ==
    ASSUME PagesInv, ChunksInv, NEW c \in Callers, EmptyWaits(c) \/ Empty(c) \/ Fill(c)
    PROVE  ChunksInv'
<1> USE AbsentIsNothing
<1> DEFINE p == call[c].slug
<1>1. /\ call[c].op = "index" /\ p \in IndexedPages(c) /\ p \in Slugs
      /\ call[c] \in CallRecords /\ Working(c) /\ pc[c] \in {"emptying", "filling"}
  BY OfCaller DEF EmptyWaits, Empty, Fill, CallFits, Working, IndexedPages
<1>2. HoldsChunks(c) /\ IndexIsOld(c)
  BY DEF ChunksInv
<1>3. ASSUME NEW label \in {"emptying", "filling", "publishing"}, NEW q,
             q.op = "index", q.base = call[c].base,
             pc' = [pc EXCEPT ![c] = label], call' = [call EXCEPT ![c] = q],
             UNCHANGED database,
             \/ UNCHANGED chunkLock
             \/ ChunkHolders(c, p) = {} /\ OwnPage(c, p) /\ LockChunk(c, p),
             \A x \in Slugs : Filled(c, x)' => Filled(c, x) \/ (x = p /\ chunkLock[p] = c)
      PROVE  ChunksInv'
  <2>1. /\ pc'[c] = label /\ call'[c] = q
        /\ \A d \in Callers \ {c} : pc'[d] = pc[d] /\ call'[d] = call[d]
    BY <1>3, Others
  <2>2. UNCHANGED <<page, chunks, lastId>>
    BY <1>3 DEF database
  <2>3. /\ \A x \in Slugs : chunkLock[x] \in Callers \ {c} => chunkLock'[x] = chunkLock[x]
        /\ \A x \in Slugs : chunkLock'[x] \in {c, Absent, chunkLock[x]}
        /\ \A x \in Slugs : chunkLock[x] = c => chunkLock'[x] = c
        /\ \A x \in Slugs : chunkLock'[x] = c => chunkLock[x] = c \/ (x = p /\ OwnPage(c, x))
    BY <1>1, <1>3, OfCaller DEF ChunkHolders, LockChunk
  <2>4. IndexedPages(c)' = IndexedPages(c) /\ Working(c)'
    BY <1>3, <2>1 DEF IndexedPages, Working
  <2>5. \A x \in Slugs : OwnPage(c, x)' = OwnPage(c, x)
    BY <1>3, <2>1, <2>2 DEF OwnPage
  <2>6. \A x \in IndexedPages(c) : x \in Slugs
    BY DEF IndexedPages
  <2>7. HoldsChunks(c)'
    <3>1. ASSUME NEW x \in Slugs, Filled(c, x)' PROVE chunkLock'[x] = c
      BY <1>2, <1>3, <2>3, <3>1 DEF HoldsChunks
    <3>2. ASSUME NEW x \in IndexedPages(c), chunkLock'[x] = c PROVE OwnPage(c, x)'
      BY <1>1, <1>2, <2>3, <2>5, <2>6, <3>2 DEF HoldsChunks
    <3> QED
      BY <2>4, <3>1, <3>2 DEF HoldsChunks
  <2>8. IndexIsOld(c)'
    <3>1. /\ call'[c].base = call[c].base /\ page' = page /\ lastId' = lastId
      BY <1>3, <2>1, <2>2
    <3>2. \A x \in IndexedPages(c) :
             /\ call[c].base[x].id <= lastId
             /\ OwnPage(c, x) =>
                   /\ call[c].base[x].revision <= page[x].revision
                   /\ \/ call[c].base[x].revision # page[x].revision
                      \/ call[c].base[x].text = page[x].text
      BY <1>1, <1>2 DEF IndexIsOld
    <3> QED
      BY <2>4, <2>5, <2>6, <3>1, <3>2 DEF IndexIsOld
  <2> QED
    BY <1>3, <2>1, <2>2, <2>3, <2>4, <2>7, <2>8, IndexChunks
<1>4. CASE EmptyWaits(c)
  <2> DEFINE q == [call[c] EXCEPT !.found = chunks[p].id]
  <2>1. q.op = "index" /\ q.base = call[c].base /\ q.slug = p
    BY <1>1 DEF CallRecords
  <2>2. pc' = [pc EXCEPT ![c] = "emptying"] /\ call' = [call EXCEPT ![c] = q]
    BY <1>4, OfCaller DEF EmptyWaits
  <2> HIDE DEF q
  <2>3. pc'[c] = "emptying" /\ call'[c] = q
    BY <2>2, Others
  <2>4. \A x \in Slugs : Filled(c, x)' => Filled(c, x)
    BY <1>1, <1>4, <2>1, <2>3 DEF EmptyWaits, Filled, IndexedPages
  <2> QED
    BY <1>3, <1>4, <2>1, <2>2, <2>4 DEF EmptyWaits, locks
<1>5. CASE Empty(c)
  <2>1. pc' = [pc EXCEPT ![c] = "filling"] /\ call' = [call EXCEPT ![c] = call[c]] /\ call' = call
    BY <1>5, OfCaller DEF Empty, Goto
  <2>2. pc'[c] = "filling" /\ call'[c] = call[c]
    BY <2>1, OfCaller
  <2>3. \A x \in Slugs : Filled(c, x)' => Filled(c, x)
    BY <1>1, <1>5, <2>2 DEF Empty, Filled, IndexedPages
  <2>4. \/ UNCHANGED chunkLock
        \/ ChunkHolders(c, p) = {} /\ OwnPage(c, p) /\ LockChunk(c, p)
    BY <1>5 DEF Empty
  <2>5. UNCHANGED database
    BY <1>5 DEF Empty
  <2> QED
    BY <1>1, <1>3, <2>1, <2>3, <2>4, <2>5
<1>6. ASSUME Fill(c), ~Refuse(c) PROVE ChunksInv'
  <2> DEFINE rest == {q \in IndexedPages(c) : p < q}
  <2>1. /\ pc[c] = "filling" /\ chunkLock[p] = c /\ NextPage(c, call[c], rest)
        /\ UNCHANGED database /\ UNCHANGED chunkLock
    BY <1>6 DEF Fill, locks
  <2>2. CASE rest = {} /\ Goto(c, "publishing") /\ call' = [call EXCEPT ![c] = call[c]]
    <3>1. pc'[c] = "publishing" /\ call'[c] = call[c]
      BY <2>2, Others DEF Goto
    <3>2. ASSUME NEW x \in Slugs, Filled(c, x)'
          PROVE  Filled(c, x) \/ (x = p /\ chunkLock[p] = c)
      <4>1. x \in IndexedPages(c) /\ ~(p < x)
        BY <2>2, <3>1, <3>2 DEF Filled, IndexedPages
      <4>2. x < p \/ x = p
        <5>1. x \in Nat /\ p \in Nat
          BY <1>1, <3>2
        <5> QED
          BY <4>1, <5>1
      <4> QED
        BY <1>1, <2>1, <4>1, <4>2 DEF Filled
    <3> HIDE DEF rest
    <3> QED
      BY <1>1, <1>3, <2>1, <2>2, <3>2 DEF Goto
  <2>3. ASSUME NEW n \in rest, \A q \in rest : n <= q, Goto(c, "emptying"),
               call' = [call EXCEPT ![c] = [call[c] EXCEPT !.slug = n, !.found = 0]]
        PROVE  ChunksInv'
    <3> DEFINE q == [call[c] EXCEPT !.slug = n, !.found = 0]
    <3>1. q.op = "index" /\ q.base = call[c].base /\ q.slug = n /\ n \in Slugs
      BY <1>1 DEF CallRecords, IndexedPages
    <3> HIDE DEF q
    <3>2. pc' = [pc EXCEPT ![c] = "emptying"] /\ call' = [call EXCEPT ![c] = q]
      BY <2>3 DEF Goto, q
    <3>3. pc'[c] = "emptying" /\ call'[c] = q
      BY <3>2, OfCaller
    <3>4. ASSUME NEW x \in Slugs, Filled(c, x)'
          PROVE  Filled(c, x) \/ (x = p /\ chunkLock[p] = c)
      <4>1. x \in IndexedPages(c) /\ x < n
        BY <3>1, <3>3, <3>4 DEF Filled, IndexedPages
      <4>2. x \notin rest
        BY <2>3, <3>1, <4>1
      <4>3. x < p \/ x = p
        BY <1>1, <4>1, <4>2
      <4> QED
        BY <1>1, <2>1, <4>1, <4>3 DEF Filled
    <3> HIDE DEF rest
    <3> QED
      BY <1>3, <2>1, <3>1, <3>2, <3>4
  <2> QED
    BY <2>1, <2>2, <2>3 DEF NextPage
<1> QED
  BY <1>4, <1>5, <1>6, RefuseChunks

\* COMMIT of index_domain: the chunk of a page is that of the revision it read.
LEMMA ReindexedChunks ==
    ASSUME PagesInv, ChunksInv, NEW c \in Callers, pc[c] = "publishing", call[c].op = "index",
           NEW described, NEW stale, Reindexed(c, described, stale)
    PROVE  ChunksInv'
<1> USE AbsentIsNothing
<1> DEFINE base == call[c].base
<1>1. /\ UNCHANGED <<page, lastId>> /\ Answer(c) /\ Released(c)
      /\ \A p \in Slugs : chunks'[p] =
            IF p \in IndexedPages(c) THEN Chunk(chunks[p].id + 1, base[p].text, base[p].revision, "index")
            ELSE chunks[p]
  BY DEF Reindexed
<1>2. ASSUME NEW p \in IndexedPages(c)
      PROVE  /\ p \in Slugs /\ chunkLock[p] = c /\ OwnPage(c, p)
             /\ page[p] \in PageRecords /\ base[p] \in PageRecords
             /\ chunks'[p] \in ChunkRecords /\ chunks'[p].by = "index"
             /\ chunks'[p].revision = base[p].revision /\ chunks'[p].text = base[p].text
             /\ base[p].revision <= page[p].revision
             /\ base[p].revision # page[p].revision \/ base[p].text = page[p].text
  <2>1. p \in Slugs /\ chunkLock[p] = c /\ OwnPage(c, p) /\ base[p] \in PageRecords
    BY IndexedPagesHeld
  <2>2. page[p] # Absent /\ page[p] \in PageRecords /\ chunks[p] \in ChunkRecords
    BY <2>1, OfChunks DEF OwnPage
  <2>3. chunks'[p] = Chunk(chunks[p].id + 1, base[p].text, base[p].revision, "index")
    BY <1>1, <1>2, <2>1
  <2>4. /\ chunks'[p] \in ChunkRecords /\ chunks'[p].by = "index"
        /\ chunks'[p].revision = base[p].revision /\ chunks'[p].text = base[p].text
    BY <2>1, <2>2, <2>3 DEF Chunk, ChunkRecords, PageRecords
  <2>5. IndexIsOld(c) /\ Working(c)
    BY DEF ChunksInv, Working
  <2> QED
    BY <2>1, <2>2, <2>4, <2>5 DEF IndexIsOld
<1>3. ASSUME NEW d \in Callers PROVE HoldsChunk(d)' /\ HoldsChunks(d)' /\ IndexIsOld(d)'
  <2>1. CASE d = c
    <3>1. pc'[c] = "idle" /\ call'[c] = NoCall
      BY <1>1, OfCaller DEF Answer
    <3> QED
      BY <2>1, <3>1 DEF HoldsChunk, HoldsChunks, IndexIsOld, Filled, Working, NoCall
  <2>2. CASE d # c
    <3>1. pc'[d] = pc[d] /\ call'[d] = call[d]
      BY <1>1, <2>2, AnsweredFits
    <3>2. \A p \in Slugs : chunkLock'[p] = d <=> chunkLock[p] = d
      BY <1>1, <2>2 DEF Released
    <3>3. HoldsChunk(d) /\ HoldsChunks(d) /\ IndexIsOld(d) /\ CallFits(d)
      BY OfCaller DEF ChunksInv
    <3>4. HoldsChunk(d)'
      <4> DEFINE q == call[d].slug
      <4>1. call[d].op \in {"update", "delete"} =>
               q \in Slugs /\ (chunks'[q] = chunks[q] \/ chunks'[q].by = "index")
        BY <1>1, <1>2, <3>3 DEF CallFits
      <4> QED
        BY <3>1, <3>2, <3>3, <4>1 DEF HoldsChunk
    <3>5. \A p \in Slugs : Filled(d, p)' = Filled(d, p) /\ OwnPage(d, p)' = OwnPage(d, p)
      BY <1>1, <3>1 DEF Filled, OwnPage, IndexedPages
    <3>6. HoldsChunks(d)' /\ IndexIsOld(d)'
      BY <1>1, <3>1, <3>2, <3>3, <3>5 DEF HoldsChunks, IndexIsOld, Working, IndexedPages
    <3> QED
      BY <3>4, <3>6
  <2> QED
    BY <2>1, <2>2
<1>4. ASSUME NEW p \in Slugs
      PROVE  /\ chunks'[p] = Absent <=> page'[p] = Absent
             /\ page'[p] # Absent =>
                   /\ page'[p].id <= lastId' /\ chunks'[p].revision <= page'[p].revision
                   /\ chunks'[p].text # page'[p].text =>
                         chunks'[p].by = "index" /\ chunks'[p].revision < page'[p].revision
  <2>1. CASE p \in IndexedPages(c)
    <3>1. page[p].id <= lastId /\ page[p] # Absent
      BY <1>2, <2>1, OfChunks DEF OwnPage
    <3>2. base[p].revision \in Nat /\ page[p].revision \in Nat
      BY <1>2, <2>1 DEF PageRecords
    <3> QED
      BY <1>1, <1>2, <2>1, <3>1, <3>2
  <2>2. CASE p \notin IndexedPages(c)
    <3>1. chunks'[p] = chunks[p] /\ page'[p] = page[p] /\ lastId' = lastId
      BY <1>1, <2>2
    <3> QED
      BY <3>1, OfChunks
  <2> QED
    BY <2>1, <2>2
<1> QED
  BY <1>3, <1>4 DEF ChunksInv, PagesAreNumbered, ChunksAreKnown

\* COMMIT of a page tool: the chunk is of the new text, or an older one that an
\* index_domain has put there since it was selected.
LEMMA CommitChunks ==
    ASSUME PagesInv, ChunksInv, NEW c \in Callers, pc[c] = "publishing", call[c].op # "index",
           NEW described, NEW stale, Commit(c, described, stale)
    PROVE  ChunksInv'
<1> USE AbsentIsNothing
<1> DEFINE r == call[c]
           p == call[c].slug
<1>1. /\ page' = Changed(c) /\ chunks' = [chunks EXCEPT ![p] = NewChunk(c)]
      /\ lastId' = IF r.op = "write" THEN lastId + 1 ELSE lastId
      /\ Answer(c) /\ Released(c)
  BY DEF Commit
<1>2. /\ r.op \in {"write", "update", "delete"} /\ p \in Slugs /\ rowLock[p] = c
      /\ \A q \in Slugs \ {p} : page'[q] = page[q] /\ chunks'[q] = chunks[q]
      /\ chunks'[p] = NewChunk(c)
      /\ r.op = "write" => page[p] = Absent
      /\ r.op = "update" => /\ page[p] # Absent /\ page[p].revision = r.expected
                            /\ page[p] \in PageRecords /\ page'[p] # Absent
      /\ r.op = "delete" => page'[p] = Absent
      /\ page \in PageMaps /\ page' \in PageMaps
  BY <1>1, ChangedPage, OfCaller
<1>3. HoldsChunk(c) /\ lastId \in Nat /\ lastId' \in Nat /\ lastId <= lastId'
  BY <1>1 DEF ChunksInv, PagesInv, TypeOK
<1>4. r.op = "write" => /\ page'[p] = [id |-> lastId + 1, text |-> r.text, revision |-> 1]
                        /\ lastId' = lastId + 1
                        /\ chunks'[p] = Chunk(1, r.text, 1, "tool")
  <2> SUFFICES ASSUME r.op = "write"
               PROVE  /\ page'[p] = [id |-> lastId + 1, text |-> r.text, revision |-> 1]
                      /\ lastId' = lastId + 1
                      /\ chunks'[p] = Chunk(1, r.text, 1, "tool")
    OBVIOUS
  <2>1. /\ page' = [page EXCEPT ![p] = [id |-> lastId + 1, text |-> r.text, revision |-> 1]]
        /\ NewChunk(c) = Chunk(1, r.text, 1, "tool")
    BY <1>1 DEF Changed, NewChunk
  <2>2. page \in [Slugs -> PageRecords \cup {Absent}]
    BY OfCaller DEF PageMaps
  <2> QED
    BY <1>1, <1>2, <2>1, <2>2
<1>5. ASSUME r.op = "update"
      PROVE  /\ page[p] \in PageRecords /\ page'[p] # Absent /\ page'[p].id = page[p].id
             /\ page'[p].text = r.text /\ page'[p].revision = page[p].revision + 1
             /\ page'[p] \in PageRecords
  <2>1. page[p] \in PageRecords /\ page \in PageMaps
    BY <1>2, <1>5
  <2>2. page' = [page EXCEPT ![p].text = r.text, ![p].revision = @ + 1]
    BY <1>1, <1>5 DEF Changed
  <2>3. /\ page'[p].id = page[p].id /\ page'[p].text = r.text
        /\ page'[p].revision = page[p].revision + 1
    BY <1>2, <2>1, <2>2 DEF PageMaps, PageRecords
  <2>4. page'[p] # Absent /\ page'[p] \in PageRecords
    BY <1>2, <1>5 DEF PageMaps
  <2> QED
    BY <2>1, <2>3, <2>4
<1>6. ASSUME NEW d \in Callers PROVE HoldsChunk(d)' /\ HoldsChunks(d)' /\ IndexIsOld(d)'
  <2>1. CASE d = c
    <3>1. pc'[c] = "idle" /\ call'[c] = NoCall
      BY <1>1, OfCaller DEF Answer
    <3> QED
      BY <2>1, <3>1 DEF HoldsChunk, HoldsChunks, IndexIsOld, Filled, Working, NoCall
  <2>2. CASE d # c
    <3>1. pc'[d] = pc[d] /\ call'[d] = call[d]
      BY <1>1, <2>2, AnsweredFits
    <3>2. \A q \in Slugs : chunkLock'[q] = d <=> chunkLock[q] = d
      BY <1>1, <2>2 DEF Released
    <3>3. HoldsChunk(d) /\ HoldsChunks(d) /\ IndexIsOld(d) /\ CallFits(d) /\ HoldsRow(d)
      BY OfCaller DEF ChunksInv
    <3>4. HoldsChunk(d)'
      <4> DEFINE q == call[d].slug
      <4>1. call[d].op \in {"update", "delete"} => q \in Slugs
        BY <3>3 DEF CallFits
      <4>2. call[d].op \in {"update", "delete"} /\ pc[d] \in {"rewriting", "bumping", "publishing"}
               => chunks'[q] = chunks[q]
        <5> SUFFICES ASSUME call[d].op \in {"update", "delete"},
                            pc[d] \in {"rewriting", "bumping", "publishing"}
                     PROVE  chunks'[q] = chunks[q]
          OBVIOUS
        <5>1. rowLock[q] = d
          BY <3>3 DEF HoldsRow, HasRow
        <5> QED
          BY <1>2, <2>2, <4>1, <5>1
      <4> QED
        BY <3>1, <3>2, <3>3, <4>1, <4>2 DEF HoldsChunk
    <3>5. ASSUME NEW q \in Slugs, OwnPage(d, q), chunkLock[q] = d PROVE OwnPage(d, q)'
      <4>1. CASE q # p
        BY <1>2, <3>1, <3>5, <4>1 DEF OwnPage
      <4>2. CASE q = p
        <5>1. r.op # "write" /\ r.op # "delete"
          BY <1>2, <1>3, <2>2, <3>5, <4>2 DEF OwnPage, HoldsChunk
        <5> QED
          BY <1>2, <1>5, <3>1, <3>5, <4>2, <5>1 DEF OwnPage
      <4> QED
        BY <4>1, <4>2
    <3>6. HoldsChunks(d)'
      <4>1. \A q \in Slugs : Filled(d, q)' = Filled(d, q)
        BY <3>1 DEF Filled, IndexedPages
      <4> QED
        BY <3>1, <3>2, <3>3, <3>5, <4>1 DEF HoldsChunks, Working, IndexedPages
    <3>7. IndexIsOld(d)'
      <4> SUFFICES ASSUME call[d].op = "index", Working(d), NEW q \in IndexedPages(d)
                   PROVE  /\ call[d].base[q].id <= lastId'
                          /\ OwnPage(d, q)' =>
                                /\ call[d].base[q].revision <= page'[q].revision
                                /\ \/ call[d].base[q].revision # page'[q].revision
                                   \/ call[d].base[q].text = page'[q].text
        BY <3>1 DEF IndexIsOld, Working, IndexedPages
      <4>1. /\ call[d].base[q].id <= lastId
            /\ OwnPage(d, q) =>
                  /\ call[d].base[q].revision <= page[q].revision
                  /\ \/ call[d].base[q].revision # page[q].revision
                     \/ call[d].base[q].text = page[q].text
        BY <3>3 DEF IndexIsOld
      <4>2. q \in Slugs /\ call[d].base[q].id \in Nat /\ call[d].base[q].revision \in Nat
        BY <3>3 DEF IndexedPages, CallFits, PageMaps, PageRecords
      <4>3. CASE q # p
        <5>1. page'[q] = page[q] /\ call'[d].base[q] = call[d].base[q]
          BY <1>2, <3>1, <4>2, <4>3
        <5>2. OwnPage(d, q)' = OwnPage(d, q)
          BY <5>1 DEF OwnPage
        <5>3. call[d].base[q].id <= lastId'
          BY <1>3, <4>1, <4>2
        <5> QED
          BY <4>1, <5>1, <5>2, <5>3
      <4>4. CASE q = p /\ r.op = "write"
        <5>1. page'[q].id = lastId + 1
          BY <1>4, <4>4
        <5>2. ~OwnPage(d, q)'
          BY <1>3, <3>1, <4>1, <4>2, <5>1 DEF OwnPage
        <5> QED
          BY <1>3, <4>1, <4>2, <5>2
      <4>5. CASE q = p /\ r.op = "update"
        <5>1. OwnPage(d, q)' => OwnPage(d, q)
          BY <1>2, <1>5, <3>1, <4>5 DEF OwnPage
        <5>2. page[q].revision \in Nat /\ page'[q].revision = page[q].revision + 1
          BY <1>5, <4>5 DEF PageRecords
        <5> QED
          BY <1>3, <4>1, <4>2, <5>1, <5>2
      <4>6. CASE q = p /\ r.op = "delete"
        BY <1>2, <1>3, <4>1, <4>2, <4>6 DEF OwnPage
      <4> QED
        BY <1>2, <4>3, <4>4, <4>5, <4>6
    <3> QED
      BY <3>4, <3>6, <3>7
  <2> QED
    BY <2>1, <2>2
<1>7. ASSUME NEW q \in Slugs
      PROVE  /\ chunks'[q] = Absent <=> page'[q] = Absent
             /\ page'[q] # Absent =>
                   /\ page'[q].id <= lastId' /\ chunks'[q].revision <= page'[q].revision
                   /\ chunks'[q].text # page'[q].text =>
                         chunks'[q].by = "index" /\ chunks'[q].revision < page'[q].revision
  <2>1. CASE q # p
    <3>1. page'[q] = page[q] /\ chunks'[q] = chunks[q]
      BY <1>2, <2>1
    <3>2. page[q] # Absent => page[q].id \in Nat
      BY OfChunks DEF PageRecords
    <3>3. /\ chunks[q] = Absent <=> page[q] = Absent
          /\ page[q] # Absent =>
                /\ page[q].id <= lastId /\ chunks[q].revision <= page[q].revision
                /\ chunks[q].text # page[q].text =>
                      chunks[q].by = "index" /\ chunks[q].revision < page[q].revision
      BY OfChunks
    <3>4. page[q] # Absent => page[q].id <= lastId'
      BY <1>3, <3>2, <3>3
    <3> QED
      BY <3>1, <3>3, <3>4
  <2>2. CASE q = p /\ r.op = "write"
    <3>1. r.text \in Texts
      BY <2>2, OfCaller DEF CallFits
    <3>2. Chunk(1, r.text, 1, "tool") \in ChunkRecords
      BY <3>1 DEF Chunk, ChunkRecords
    <3>3. [id |-> lastId + 1, text |-> r.text, revision |-> 1] \in PageRecords
      BY <1>3, <3>1 DEF PageRecords
    <3> QED
      BY <1>3, <1>4, <2>2, <3>2, <3>3 DEF Chunk
  <2>3. CASE q = p /\ r.op = "update"
    <3>1. /\ page[p].id <= lastId /\ chunks[p] \in ChunkRecords
          /\ chunks[p].revision <= page[p].revision /\ page[p] # Absent
      BY <1>2, <2>3, OfChunks
    <3>2. page[p].revision \in Nat /\ chunks[p].revision \in Nat /\ page[p].id \in Nat
      BY <1>5, <2>3, <3>1 DEF PageRecords, ChunkRecords
    <3>3. lastId' = lastId
      BY <1>1, <2>3
    <3>4. CASE chunkLock[p] = c
      <4>1. chunks'[p] = Chunk(r.found, r.text, r.expected + 1, "tool")
        BY <1>2, <2>3, <3>4 DEF NewChunk
      <4>2. r.found \in Nat /\ r.text \in Texts /\ r.expected \in Nat
        BY <2>3, OfCaller DEF CallFits, CallRecords
      <4>3. chunks'[p] \in ChunkRecords /\ chunks'[p].text = r.text
            /\ chunks'[p].revision = r.expected + 1
        BY <4>1, <4>2 DEF Chunk, ChunkRecords
      <4> QED
        BY <1>2, <1>5, <2>3, <3>1, <3>2, <3>3, <4>3
    <3>5. CASE chunkLock[p] # c
      <4>1. chunks'[p] = chunks[p]
        BY <1>2, <2>3, <3>5 DEF NewChunk
      <4>2. chunks[p].text = r.text \/ chunks[p].by = "index"
        BY <1>3, <2>3, <3>5 DEF HoldsChunk
      <4> QED
        BY <1>5, <2>3, <3>1, <3>2, <3>3, <4>1, <4>2
    <3> QED
      BY <3>4, <3>5
  <2>4. CASE q = p /\ r.op = "delete"
    BY <1>2, <2>4 DEF NewChunk
  <2> QED
    BY <1>2, <2>1, <2>2, <2>3, <2>4
<1> QED
  BY <1>6, <1>7 DEF ChunksInv, PagesAreNumbered, ChunksAreKnown

LEMMA ChunksStep == PagesInv /\ ChunksInv /\ [Next]_vars => ChunksInv'
<1> SUFFICES ASSUME PagesInv, ChunksInv, [Next]_vars PROVE ChunksInv'
  OBVIOUS
<1>1. ASSUME NEW c \in Callers, Publish(c) \/ PublishFails(c) PROVE ChunksInv'
  BY <1>1, CommitChunks, TryAgainChunks, RefuseChunks DEF Publish, PublishFails
<1>2. ASSUME NEW c \in Callers, PublishIndex(c) \/ PublishIndexFails(c) PROVE ChunksInv'
  BY <1>2, ReindexedChunks, TryAgainChunks DEF PublishIndex, PublishIndexFails
<1>3. ASSUME NEW c \in Callers, CallStep(c) PROVE ChunksInv'
  BY <1>1, <1>2, <1>3, PrepareChunks, PrepareIndexChunks, RewriteChunks, EmptyChunks,
     RefuseChunks DEF CallStep, DeadlockVictim
<1>4. ASSUME NEW c \in Callers, ConnectionLost(c) PROVE ChunksInv'
  BY <1>4, RefuseChunks DEF ConnectionLost
<1>5. CASE UNCHANGED vars
  <2>1. UNCHANGED <<page, chunks, lastId, pc, call, chunkLock>>
    BY <1>5 DEF vars, database, locks
  <2>2. ASSUME NEW c \in Callers PROVE HoldsChunk(c)' /\ HoldsChunks(c)' /\ IndexIsOld(c)'
    BY <2>1 DEF ChunksInv, HoldsChunk, HoldsChunks, IndexIsOld, Filled, Working, OwnPage,
                IndexedPages
  <2>3. PagesAreNumbered' /\ ChunksAreKnown'
    BY <2>1 DEF ChunksInv, PagesAreNumbered, ChunksAreKnown
  <2> QED
    BY <2>2, <2>3 DEF ChunksInv
<1> QED
  BY <1>3, <1>4, <1>5, StartChunks DEF Next

-----------------------------------------------------------------------------
(* Results of the pages *)

\* The inductive invariant of the pages and their chunks holds.
THEOREM InvariantHolds == Spec => [](PagesInv /\ ChunksInv)
<1>1. Init => PagesInv /\ ChunksInv
  BY InitInv, InitChunks
<1>2. PagesInv /\ ChunksInv /\ [Next]_vars => (PagesInv /\ ChunksInv)'
  BY StepInv, ChunksStep
<1> QED
  BY <1>1, <1>2, PTL DEF Spec

\* Every variable stays in its type.
THEOREM TypeCorrect == Spec => []TypeOK
<1>1. PagesInv => TypeOK
  BY DEF PagesInv
<1> QED
  BY <1>1, InvariantHolds, PTL

\* In strict mode two concurrent writers cannot both declare one scenario.
THEOREM DeclaredOnce == Spec => []StrictDeclaresOnce
<1>1. PagesInv => StrictDeclaresOnce
  BY DEF PagesInv
<1> QED
  BY <1>1, InvariantHolds, PTL

\* The specification projection says what the pages say, or is known not to.
THEOREM ProjectionHonest == Spec => []ProjectionIsHonest
<1>1. PagesInv => ProjectionIsHonest
  <2> SUFFICES ASSUME PagesInv, projection.revision = SpecificationPages(page)
               PROVE  /\ projection.rows \subseteq ScenarioRows(page)
                      /\ \A row \in ScenarioRows(page) \ projection.rows : births[row[2]] > 1
    BY DEF PagesInv, ProjectionIsHonest, ReadyProjectionIsTrue
  <2>1. page \in PageMaps
    BY DEF PagesInv, TypeOK
  <2>2. ScenarioRows(page) = RowsOf(projection.revision)
    BY <2>1, ProjectionsFit
  <2>3. projection.rows \subseteq RowsOf(projection.revision)
    BY DEF PagesInv, RowsAreOfRevision
  <2>4. ASSUME NEW row \in RowsOf(projection.revision), row \notin projection.rows
        PROVE  births[row[2]] > 1
    <3>1. row \in Scenarios \X Slugs /\ DeclaredBy(page, row[1]) = {row[2]}
      BY <2>2, <2>4 DEF ScenarioRows
    <3>2. page[row[2]] # Absent
      BY <3>1 DEF DeclaredBy, TextOf, IsSpecification
    <3> QED
      BY <2>4, <3>2 DEF PagesInv, RowsAreOfRevision
  <2> QED
    BY <2>2, <2>3, <2>4
<1> QED
  BY <1>1, InvariantHolds, PTL

\* Every page has its chunk, and one of another text is an index_domain's, which
\* read the page before its latest change.
THEOREM ChunksKnown == Spec => []ChunksAreKnown
<1>1. ChunksInv => ChunksAreKnown
  BY DEF ChunksInv
<1> QED
  BY <1>1, InvariantHolds, PTL

\* Only a COMMIT changes a page.
LEMMA PagesChange ==
    ASSUME [Next]_vars, page' # page
    PROVE  \E c \in Callers : /\ pc[c] = "publishing" /\ call[c].op # "index"
                              /\ page' = Changed(c) /\ Answer(c)
<1> DEFINE Goal == \E c \in Callers : /\ pc[c] = "publishing" /\ call[c].op # "index"
                                     /\ page' = Changed(c) /\ Answer(c)
<1>1. ASSUME NEW c \in Callers, NEW described, NEW stale, Commit(c, described, stale),
             pc[c] = "publishing", call[c].op # "index"
      PROVE  Goal
  BY <1>1 DEF Commit
<1>2. ASSUME NEW c \in Callers, Refuse(c) PROVE FALSE
  BY <1>2 DEF Refuse, database
<1>3. ASSUME NEW c \in Callers, TryAgain(c) PROVE FALSE
  BY <1>2, <1>3 DEF TryAgain, database
<1>4. ASSUME NEW c \in Callers, Publish(c) \/ PublishFails(c) PROVE Goal
  BY <1>1, <1>2, <1>3, <1>4 DEF Publish, PublishFails
<1>a. ASSUME NEW c \in Callers, PublishIndex(c) \/ PublishIndexFails(c) PROVE FALSE
  BY <1>3, <1>a DEF PublishIndex, PublishIndexFails, Reindexed
<1>b. ASSUME NEW c \in Callers,
             \/ SelectChunks(c) \/ UpdateChunk(c) \/ ReplaceChunk(c) \/ DropPage(c)
             \/ EmptyWaits(c) \/ Empty(c) \/ Fill(c)
      PROVE  FALSE
  BY <1>2, <1>b DEF SelectChunks, UpdateChunk, ReplaceChunk, DropPage, EmptyWaits, Empty, Fill,
                    database
<1>5. ASSUME NEW c \in Callers, CallStep(c) PROVE Goal
  BY <1>2, <1>4, <1>5, <1>a, <1>b
     DEF CallStep, Check, Prepare, PrepareFails, Prepared, PrepareIndex, LockFirst, Insert,
         ChangeRow, Locked, BumpGeneration, DeadlockVictim, database
<1>6. ASSUME NEW c \in Callers, ConnectionLost(c) PROVE FALSE
  BY <1>2, <1>6 DEF ConnectionLost
<1>7. ASSUME NEW c \in Callers,
             \/ \E p \in Slugs : Read(c, p)
             \/ \E p \in Slugs, t \in Texts : StartWrite(c, p, t)
             \/ \E t \in Texts : StartUpdate(c, t)
             \/ StartDelete(c) \/ StartIndex(c)
      PROVE  FALSE
  BY <1>7 DEF Read, StartWrite, StartUpdate, StartDelete, StartIndex, Begin, database
<1>8. CASE UNCHANGED vars
  BY <1>8 DEF vars, database
<1> QED
  BY <1>5, <1>6, <1>7, <1>8 DEF Next

\* An update replaces the very text that it edited, of pages never created again.
THEOREM NoneLost == Spec => NoLostUpdate
<1> DEFINE Replaces(p, c) == /\ call[c].op = "update" /\ call[c].slug = p
                             /\ call[c].base = page[p] /\ call'[c] = NoCall
           Kept == \A p \in Slugs :
                      page[p] # Absent /\ page'[p] # Absent /\ page'[p] # page[p] /\ births[p] = 1
                          => \E c \in Callers : Replaces(p, c)
<1>1. PagesInv /\ [Next]_vars => [Kept]_vars
  <2> SUFFICES ASSUME PagesInv, [Next]_vars, NEW p \in Slugs, page[p] # Absent,
                      page'[p] # Absent, page'[p] # page[p], births[p] = 1
               PROVE  \E c \in Callers : Replaces(p, c)
    OBVIOUS
  <2>1. PICK c \in Callers : /\ pc[c] = "publishing" /\ call[c].op # "index"
                             /\ page' = Changed(c) /\ Answer(c)
    BY PagesChange
  <2>2. p = call[c].slug /\ call[c].op = "update" /\ page[p].revision = call[c].expected
    BY <2>1, ChangedPage
  <2>3. call[c].base = page[p]
    BY <2>2, OfCaller DEF CallIsOld
  <2>4. call'[c] = NoCall
    BY <2>1, OfCaller DEF Answer
  <2> QED
    BY <2>2, <2>3, <2>4
<1> QED
  BY <1>1, InvariantHolds, PTL DEF Spec, NoLostUpdate

-----------------------------------------------------------------------------
(* Background maintenance *)

\* Shutdown and the keys can be told apart from None, and threads counted.
LEMMA Constants ==
    /\ QueueSize \in Nat
    /\ Cardinality(Workers) \in Nat
    /\ None \notin Keys /\ Shutdown \notin Keys /\ Shutdown # None
<1>1. Cardinality(Workers) \in Nat
  BY MaintenanceAssumption, FS_CardinalityType
<1> QED
  BY <1>1, MaintenanceAssumption

\* What appending to a queue and taking its head do to its elements.
LEMMA AppendElements ==
    ASSUME NEW S, NEW q \in Seq(S), NEW e \in S
    PROVE  /\ Append(q, e) \in Seq(S)
           /\ Len(Append(q, e)) = Len(q) + 1
           /\ DOMAIN Append(q, e) = DOMAIN q \cup {Len(q) + 1}
           /\ Append(q, e)[Len(q) + 1] = e
           /\ \A i \in DOMAIN q : Append(q, e)[i] = q[i] /\ i # Len(q) + 1
OBVIOUS

LEMMA TailElements ==
    ASSUME NEW S, NEW q \in Seq(S), q # <<>>
    PROVE  /\ Tail(q) \in Seq(S)
           /\ Len(Tail(q)) = Len(q) - 1
           /\ 1 \in DOMAIN q
           /\ Head(q) = q[1] /\ Head(q) \in S
           /\ \A i \in DOMAIN Tail(q) : i + 1 \in DOMAIN q /\ Tail(q)[i] = q[i + 1]
           /\ \A i \in DOMAIN q : i = 1 \/ (i - 1 \in DOMAIN Tail(q) /\ Tail(q)[i - 1] = q[i])
OBVIOUS

-----------------------------------------------------------------------------
(* Types *)

LEMMA InitType == MaintenanceInit => RuntimeTypeOK
<1> SUFFICES ASSUME MaintenanceInit PROVE RuntimeTypeOK
  OBVIOUS
<1>1. queue \in Seq(Keys \cup {Shutdown}) /\ Len(queue) <= QueueSize
  BY Constants DEF MaintenanceInit
<1>2. owner \in [pc : {"starting", "draining", "sending", "joining", "stopped"},
                 key : Keys \cup {Shutdown, None}, waited : SUBSET Workers,
                 sent : 0..Cardinality(Workers)]
  BY Constants DEF MaintenanceInit
<1> QED
  BY <1>1, <1>2 DEF MaintenanceInit, RuntimeTypeOK, IdleSubmit

LEMMA TypeStep == RuntimeTypeOK /\ KeysInPlace /\ [MaintenanceNext]_runtimeVars => RuntimeTypeOK'
<1> SUFFICES ASSUME RuntimeTypeOK, KeysInPlace, [MaintenanceNext]_runtimeVars PROVE RuntimeTypeOK'
  OBVIOUS
<1> USE Constants
<1>1. ASSUME NEW t \in Submitters, NEW k \in Keys, SubmitCheck(t, k) PROVE RuntimeTypeOK'
  BY <1>1 DEF SubmitCheck, RuntimeTypeOK
<1>2. ASSUME NEW t \in Submitters, SubmitPut(t) PROVE RuntimeTypeOK'
  <2>1. submitter[t].key \in Keys
    BY <1>2 DEF SubmitPut, RuntimeTypeOK, KeysInPlace
  <2>2. queue' \in Seq(Keys \cup {Shutdown}) /\ Len(queue') <= QueueSize
    BY <1>2, <2>1 DEF SubmitPut, Room, RuntimeTypeOK
  <2> QED
    BY <1>2, <2>2 DEF SubmitPut, IdleSubmit, RuntimeTypeOK
<1>3. ASSUME NEW t \in Submitters, SubmitFull(t) PROVE RuntimeTypeOK'
  BY <1>3 DEF SubmitFull, RuntimeTypeOK
<1>4. ASSUME NEW t \in Submitters, SubmitDrop(t) PROVE RuntimeTypeOK'
  BY <1>4 DEF SubmitDrop, DropKey, IdleSubmit, RuntimeTypeOK
<1>5. ASSUME NEW w \in Workers, WorkerStop(w) PROVE RuntimeTypeOK'
  <2>1. queue' \in Seq(Keys \cup {Shutdown}) /\ Len(queue') <= QueueSize
    BY <1>5, TailElements DEF WorkerStop, RuntimeTypeOK
  <2> QED
    BY <1>5, <2>1 DEF WorkerStop, RuntimeTypeOK
<1>6. ASSUME NEW w \in Workers, WorkerGet(w) PROVE RuntimeTypeOK'
  <2>1. /\ queue' \in Seq(Keys \cup {Shutdown}) /\ Len(queue') <= QueueSize
        /\ Head(queue) \in Keys
    BY <1>6, TailElements DEF WorkerGet, RuntimeTypeOK
  <2> QED
    BY <1>6, <2>1 DEF WorkerGet, Taken, RuntimeTypeOK
<1>7. ASSUME NEW w \in Workers, WorkerRelease(w) PROVE RuntimeTypeOK'
  BY <1>7 DEF WorkerRelease, RuntimeTypeOK
<1>8. ASSUME NEW w \in Workers, StartWorker(w) PROVE RuntimeTypeOK'
  BY <1>8 DEF StartWorker, RuntimeTypeOK
<1> DEFINE Owners == [pc : {"starting", "draining", "sending", "joining", "stopped"},
                      key : Keys \cup {Shutdown, None}, waited : SUBSET Workers,
                      sent : 0..Cardinality(Workers)]
<1>o. owner \in Owners
  BY DEF RuntimeTypeOK
<1>9. CASE StopBegin \/ StopDiscard \/ StopDrained \/ StopClear \/ \E w \in Workers : StopJoin(w)
  <2>1. owner' \in Owners
    <3>1. CASE StopBegin \/ StopDrained \/ StopClear
      BY <1>o, <3>1 DEF StopBegin, StopDrained, StopClear
    <3>2. CASE StopDiscard
      BY <1>o, <3>2 DEF StopDiscard
    <3>3. ASSUME NEW w \in Workers, StopJoin(w) PROVE owner' \in Owners
      BY <1>o, <3>3 DEF StopJoin
    <3> QED
      BY <1>9, <3>1, <3>2, <3>3
  <2> QED
    BY <1>9, <2>1 DEF StopBegin, StopDiscard, StopDrained, StopClear, StopJoin, RuntimeTypeOK
<1>10. CASE StopTake
  <2>1. /\ queue' \in Seq(Keys \cup {Shutdown}) /\ Len(queue') <= QueueSize
        /\ Head(queue) \in Keys \cup {Shutdown}
    BY <1>10, TailElements DEF StopTake, RuntimeTypeOK
  <2>2. owner' \in Owners
    BY <1>o, <1>10, <2>1 DEF StopTake
  <2>3. UNCHANGED <<scheduled, stopping, submitter, worker>>
    BY <1>10 DEF StopTake
  <2> QED
    BY <2>1, <2>2, <2>3 DEF RuntimeTypeOK
<1>11. CASE StopSend
  <2>1. queue' \in Seq(Keys \cup {Shutdown}) /\ Len(queue') <= QueueSize
    <3>1. queue \in Seq(Keys \cup {Shutdown}) /\ Len(queue) \in Nat /\ Len(queue) <= QueueSize
      BY DEF RuntimeTypeOK
    <3>2. CASE queue' = Append(queue, Shutdown) /\ Len(queue) < QueueSize
      BY <3>1, <3>2
    <3>3. CASE queue' = queue
      BY <3>1, <3>3
    <3> QED
      BY <1>11, <3>2, <3>3 DEF StopSend, Room
  <2>2. owner' \in Owners
    BY <1>o, <1>11 DEF StopSend
  <2>3. UNCHANGED <<scheduled, stopping, submitter, worker>>
    BY <1>11 DEF StopSend
  <2> QED
    BY <2>1, <2>2, <2>3 DEF RuntimeTypeOK
<1>12. CASE UNCHANGED runtimeVars
  BY <1>12 DEF runtimeVars, RuntimeTypeOK
<1> QED
  BY <1>1, <1>2, <1>3, <1>4, <1>5, <1>6, <1>7, <1>8, <1>9, <1>10, <1>11, <1>12
     DEF MaintenanceNext, SubmitterStep, WorkerStep, StopStep

-----------------------------------------------------------------------------
(* Places *)

LEMMA KeysStep == RuntimeTypeOK /\ KeysInPlace /\ [MaintenanceNext]_runtimeVars => KeysInPlace'
<1> SUFFICES ASSUME RuntimeTypeOK, KeysInPlace, [MaintenanceNext]_runtimeVars PROVE KeysInPlace'
  OBVIOUS
<1> USE Constants
<1>1. ASSUME NEW t \in Submitters, NEW k \in Keys, SubmitCheck(t, k) PROVE KeysInPlace'
  BY <1>1 DEF SubmitCheck, RuntimeTypeOK, KeysInPlace
<1>2. ASSUME NEW t \in Submitters, SubmitterStep(t) PROVE KeysInPlace'
  BY <1>2 DEF SubmitterStep, SubmitPut, SubmitFull, SubmitDrop, IdleSubmit, RuntimeTypeOK, KeysInPlace
<1>3. ASSUME NEW w \in Workers, WorkerStop(w) \/ WorkerRelease(w) \/ StartWorker(w)
      PROVE  KeysInPlace'
  BY <1>3 DEF WorkerStop, WorkerRelease, StartWorker, RuntimeTypeOK, KeysInPlace
<1>4. ASSUME NEW w \in Workers, WorkerGet(w) PROVE KeysInPlace'
  <2>1. Head(queue) \in Keys
    BY <1>4, TailElements DEF WorkerGet, RuntimeTypeOK
  <2> QED
    BY <1>4, <2>1 DEF WorkerGet, RuntimeTypeOK, KeysInPlace
<1>5. CASE StopBegin \/ StopStep
  BY <1>5 DEF StopBegin, StopStep, StopTake, StopDiscard, StopDrained, StopSend, StopJoin,
              StopClear, RuntimeTypeOK, KeysInPlace
<1>6. CASE UNCHANGED runtimeVars
  BY <1>6 DEF runtimeVars, KeysInPlace
<1> QED
  BY <1>1, <1>2, <1>3, <1>4, <1>5, <1>6 DEF MaintenanceNext, WorkerStep

\* A step that moves no job.
LEMMA SamePlaces ==
    ASSUME OnePlace, EveryKeyIsHeld, scheduled \subseteq Keys,
           \A k \in Keys : /\ Running(k)' = Running(k)
                           /\ Queued(k)' = Queued(k)
                           /\ Submitting(k)' = Submitting(k),
           UNCHANGED <<scheduled, owner.key>>,
           owner.pc = "stopped" => owner'.pc = "stopped"
    PROVE  OnePlace' /\ EveryKeyIsHeld'
BY DEF OnePlace, EveryKeyIsHeld, Held

\* A request leaves with its job in the queue, or without it.
LEMMA SubmitPlaces ==
    ASSUME RuntimeTypeOK, KeysInPlace, OnePlace, EveryKeyIsHeld,
           NEW t \in Submitters, SubmitterStep(t)
    PROVE  OnePlace' /\ EveryKeyIsHeld'
<1> USE Constants
<1>1. CASE SubmitPut(t)
  <2> DEFINE e == submitter[t].key
             n == Len(queue) + 1
  <2>1. e \in Keys /\ t \in Submitting(e)
    BY <1>1 DEF SubmitPut, RuntimeTypeOK, KeysInPlace, Submitting
  <2>2. \A k \in Keys : Queued(k)' = Queued(k) \cup (IF k = e THEN {n} ELSE {})
    BY <1>1, <2>1, AppendElements DEF SubmitPut, RuntimeTypeOK, Queued
  <2>3. \A k \in Keys : Submitting(k)' = Submitting(k) \ {t}
    BY <1>1 DEF SubmitPut, IdleSubmit, RuntimeTypeOK, Submitting
  <2>4. \A k \in Keys : Running(k)' = Running(k)
    BY <1>1 DEF SubmitPut, Running
  <2>5. \A k \in Keys : t \in Submitting(k) => k = e
    BY DEF Submitting
  <2>6. UNCHANGED <<scheduled, owner>>
    BY <1>1 DEF SubmitPut
  <2> HIDE DEF e, n
  <2>7. OnePlace'
    BY <2>1, <2>2, <2>3, <2>4, <2>5, <2>6 DEF OnePlace, Held
  <2>8. EveryKeyIsHeld'
    <3> SUFFICES ASSUME NEW k \in scheduled PROVE Held(k)'
      BY <2>6 DEF EveryKeyIsHeld
    <3>1. k \in Keys /\ Held(k)
      BY DEF RuntimeTypeOK, EveryKeyIsHeld
    <3>2. CASE k = e
      <4>1. n \in Queued(k)'
        BY <2>2, <3>1, <3>2
      <4> QED
        BY <4>1 DEF Held
    <3>3. CASE k # e
      <4>1. /\ Submitting(k)' = Submitting(k) /\ Queued(k)' = Queued(k)
            /\ Running(k)' = Running(k)
        BY <2>2, <2>3, <2>4, <2>5, <3>1, <3>3
      <4> QED
        BY <2>6, <3>1, <4>1 DEF Held
    <3> QED
      BY <3>2, <3>3
  <2> QED
    BY <2>7, <2>8
<1>2. CASE SubmitFull(t)
  <2>1. \A k \in Keys : /\ Running(k)' = Running(k)
                        /\ Queued(k)' = Queued(k)
                        /\ Submitting(k)' = Submitting(k)
    BY <1>2 DEF SubmitFull, RuntimeTypeOK, Running, Queued, Submitting
  <2> QED
    BY <1>2, <2>1, SamePlaces DEF SubmitFull, RuntimeTypeOK
<1>3. CASE SubmitDrop(t)
  <2> DEFINE e == submitter[t].key
  <2>1. e \in Keys /\ t \in Submitting(e)
    BY <1>3 DEF SubmitDrop, RuntimeTypeOK, KeysInPlace, Submitting
  <2>2. \A k \in Keys : /\ Running(k)' = Running(k)
                        /\ Queued(k)' = Queued(k)
                        /\ Submitting(k)' = Submitting(k) \ {t}
    BY <1>3 DEF SubmitDrop, IdleSubmit, RuntimeTypeOK, Running, Queued, Submitting
  <2>3. \A k \in Keys : t \in Submitting(k) => k = e
    BY DEF Submitting
  <2>4. scheduled' = scheduled \ {e} /\ UNCHANGED owner
    BY <1>3 DEF SubmitDrop, DropKey
  <2> HIDE DEF e
  <2>5. OnePlace'
    BY <2>1, <2>2, <2>3, <2>4 DEF OnePlace, Held
  <2>6. EveryKeyIsHeld'
    BY SMTT(30), <2>1, <2>2, <2>3, <2>4 DEF EveryKeyIsHeld, Held, RuntimeTypeOK
  <2> QED
    BY <2>5, <2>6
<1> QED
  BY <1>1, <1>2, <1>3 DEF SubmitterStep

\* A request schedules its key only when no job of it has a place.
LEMMA CheckPlaces ==
    ASSUME RuntimeTypeOK, KeysInPlace, OnePlace, EveryKeyIsHeld,
           NEW t \in Submitters, NEW e \in Keys, SubmitCheck(t, e)
    PROVE  OnePlace' /\ EveryKeyIsHeld'
<1> USE Constants
<1>1. \A k \in Keys : /\ Running(k)' = Running(k)
                      /\ Queued(k)' = Queued(k)
                      /\ Submitting(k)' = Submitting(k) \cup (IF k = e THEN {t} ELSE {})
  BY DEF SubmitCheck, RuntimeTypeOK, KeysInPlace, Running, Queued, Submitting
<1>2. scheduled' = scheduled \cup {e} /\ UNCHANGED owner
  BY DEF SubmitCheck
<1>3. owner.pc # "stopped"
  BY DEF SubmitCheck, Accepts, KeysInPlace
<1>4. ~Held(e)
  BY <1>3 DEF SubmitCheck, OnePlace
<1>5. OnePlace'
  BY <1>1, <1>2, <1>4 DEF OnePlace, Held
<1>6. EveryKeyIsHeld'
  <2> SUFFICES ASSUME NEW k \in scheduled \cup {e} PROVE Held(k)'
    BY <1>2 DEF EveryKeyIsHeld
  <2>1. CASE k = e
    <3>1. t \in Submitting(k)'
      BY <1>1, <2>1
    <3> QED
      BY <3>1 DEF Held
  <2>2. CASE k # e
    BY <1>1, <1>2, <2>2 DEF EveryKeyIsHeld, Held, RuntimeTypeOK
  <2> QED
    BY <2>1, <2>2
<1> QED
  BY <1>5, <1>6

\* What the first entry's departure leaves of the places in the queue.
LEMMA QueueShift ==
    ASSUME RuntimeTypeOK, queue # <<>>, queue' = Tail(queue), NEW k \in Keys
    PROVE  /\ \A i \in Queued(k)' : i + 1 \in Queued(k)
           /\ Queued(k) \ {1} # {} => Queued(k)' # {}
           /\ 1 \in Queued(k) <=> Head(queue) = k
           /\ \A i \in Queued(k) : i \in Nat
           /\ \A i \in Queued(k)' : i \in Nat \ {0}
<1>1. queue \in Seq(Keys \cup {Shutdown})
  BY DEF RuntimeTypeOK
<1>2. \A i \in DOMAIN queue : i \in Nat \ {0}
  BY <1>1
<1>3. \A i \in DOMAIN Tail(queue) : i \in Nat \ {0}
  BY <1>1
<1> HIDE DEF RuntimeTypeOK
<1>4. \A i \in Queued(k)' : i + 1 \in Queued(k)
  BY <1>1, TailElements DEF Queued
<1>5. \A i \in Queued(k) : i = 1 \/ i - 1 \in Queued(k)'
  BY <1>1, TailElements DEF Queued
<1>6. 1 \in Queued(k) <=> Head(queue) = k
  BY <1>1, TailElements DEF Queued
<1> QED
  BY <1>2, <1>3, <1>4, <1>5, <1>6 DEF Queued

\* Entries of one key that left the queue uniquely filled leave it so.
LEMMA ShiftedOnce ==
    ASSUME RuntimeTypeOK, OnePlace, queue # <<>>, queue' = Tail(queue), NEW k \in Keys
    PROVE  /\ \A i, j \in Queued(k)' : i = j
           /\ Queued(k)' # {} => Queued(k) # {} /\ Head(queue) # k
           /\ Queued(k) # {} => Queued(k)' # {} \/ Head(queue) = k
<1>1. \A i, j \in Queued(k) : i = j
  BY DEF OnePlace
<1>2. \A i, j \in Queued(k)' : i = j
  <2> SUFFICES ASSUME NEW i \in Queued(k)', NEW j \in Queued(k)' PROVE i = j
    OBVIOUS
  <2>1. i \in Nat /\ j \in Nat /\ i + 1 = j + 1
    BY <1>1, QueueShift
  <2> QED
    BY <2>1
<1>3. Queued(k)' # {} => Queued(k) # {} /\ Head(queue) # k
  <2> SUFFICES ASSUME NEW i \in Queued(k)' PROVE Queued(k) # {} /\ Head(queue) # k
    OBVIOUS
  <2>1. i + 1 \in Queued(k) /\ i \in Nat \ {0}
    BY QueueShift
  <2>2. 1 \notin Queued(k)
    BY <1>1, <2>1
  <2> QED
    BY <2>1, <2>2, QueueShift
<1>4. Queued(k) # {} => Queued(k)' # {} \/ Head(queue) = k
  BY QueueShift
<1> QED
  BY <1>2, <1>3, <1>4

\* A worker takes a job out of the queue, and later lets its key go.
LEMMA WorkerPlaces ==
    ASSUME RuntimeTypeOK, KeysInPlace, OnePlace, EveryKeyIsHeld,
           NEW w \in Workers, WorkerStep(w) \/ StartWorker(w)
    PROVE  OnePlace' /\ EveryKeyIsHeld'
<1> USE Constants
<1>1. CASE WorkerStop(w)
  <2>1. \A k \in Keys : /\ Running(k)' = Running(k)
                        /\ Submitting(k)' = Submitting(k)
    BY <1>1 DEF WorkerStop, RuntimeTypeOK, Running, Submitting
  <2>2. \A k \in Keys : /\ \A i, j \in Queued(k)' : i = j
                        /\ Queued(k)' # {} <=> Queued(k) # {}
    <3> SUFFICES ASSUME NEW k \in Keys
                 PROVE  /\ \A i, j \in Queued(k)' : i = j
                        /\ Queued(k)' # {} <=> Queued(k) # {}
      OBVIOUS
    <3>1. queue # <<>> /\ queue' = Tail(queue) /\ Head(queue) # k
      BY <1>1 DEF WorkerStop
    <3> QED
      BY <3>1, ShiftedOnce
  <2>3. UNCHANGED <<scheduled, owner>>
    BY <1>1 DEF WorkerStop
  <2>4. OnePlace'
    BY <2>1, <2>2, <2>3 DEF OnePlace, Held
  <2>5. EveryKeyIsHeld'
    BY <2>1, <2>2, <2>3 DEF EveryKeyIsHeld, Held, RuntimeTypeOK
  <2> QED
    BY <2>4, <2>5
<1>2. CASE WorkerGet(w)
  <2> DEFINE e == Head(queue)
  <2>1. e \in Keys
    BY <1>2, TailElements DEF WorkerGet, RuntimeTypeOK
  <2>2. \A k \in Keys : /\ Running(k)' = Running(k) \cup (IF k = e THEN {w} ELSE {})
                        /\ Submitting(k)' = Submitting(k)
    BY <1>2, <2>1 DEF WorkerGet, RuntimeTypeOK, Running, Submitting
  <2>3. \A k \in Keys : /\ \A i, j \in Queued(k)' : i = j
                        /\ Queued(k)' # {} => Queued(k) # {} /\ k # e
                        /\ Queued(k) # {} => Queued(k)' # {} \/ k = e
    BY <1>2, ShiftedOnce DEF WorkerGet
  <2>4. Queued(e) # {}
    BY <1>2, <2>1, QueueShift DEF WorkerGet
  <2>5. UNCHANGED <<scheduled, owner>>
    BY <1>2 DEF WorkerGet, Taken
  <2> HIDE DEF e
  <2>6. OnePlace'
    BY <2>1, <2>2, <2>3, <2>4, <2>5 DEF OnePlace, Held
  <2>7. EveryKeyIsHeld'
    <3> SUFFICES ASSUME NEW k \in scheduled PROVE Held(k)'
      BY <2>5 DEF EveryKeyIsHeld
    <3>1. k \in Keys /\ Held(k)
      BY DEF RuntimeTypeOK, EveryKeyIsHeld
    <3>2. CASE k = e
      <4>1. w \in Running(k)'
        BY <2>2, <3>1, <3>2
      <4> QED
        BY <4>1 DEF Held
    <3>3. CASE k # e
      BY <2>2, <2>3, <2>5, <3>1, <3>3 DEF Held
    <3> QED
      BY <3>2, <3>3
  <2> QED
    BY <2>6, <2>7
<1>3. CASE WorkerRelease(w)
  <2> DEFINE e == worker[w].key
  <2>1. e \in Keys /\ w \in Running(e)
    BY <1>3 DEF WorkerRelease, RuntimeTypeOK, KeysInPlace, Running
  <2>2. \A k \in Keys : /\ Running(k)' = Running(k) \ {w}
                        /\ Queued(k)' = Queued(k)
                        /\ Submitting(k)' = Submitting(k)
    BY <1>3 DEF WorkerRelease, RuntimeTypeOK, Running, Queued, Submitting
  <2>3. \A k \in Keys : w \in Running(k) => k = e
    BY DEF Running
  <2>4. scheduled' = scheduled \ {e} /\ UNCHANGED owner
    BY <1>3 DEF WorkerRelease
  <2> HIDE DEF e
  <2>5. OnePlace'
    BY <2>1, <2>2, <2>3, <2>4 DEF OnePlace, Held
  <2>6. EveryKeyIsHeld'
    BY <2>1, <2>2, <2>3, <2>4 DEF EveryKeyIsHeld, Held, RuntimeTypeOK
  <2> QED
    BY <2>5, <2>6
<1>4. CASE StartWorker(w)
  <2>1. \A k \in Keys : /\ Running(k)' = Running(k)
                        /\ Queued(k)' = Queued(k)
                        /\ Submitting(k)' = Submitting(k)
    BY <1>4 DEF StartWorker, Unstarted, RuntimeTypeOK, Running, Queued, Submitting
  <2> QED
    BY <1>4, <2>1, SamePlaces DEF StartWorker, RuntimeTypeOK
<1> QED
  BY <1>1, <1>2, <1>3, <1>4 DEF WorkerStep

\* The drain lets keys go as it takes their jobs; sentinels are no jobs.
LEMMA StopPlaces ==
    ASSUME RuntimeTypeOK, KeysInPlace, OnePlace, EveryKeyIsHeld, StopBegin \/ StopStep
    PROVE  OnePlace' /\ EveryKeyIsHeld'
<1> USE Constants
<1>1. CASE StopTake
  <2> DEFINE e == Head(queue)
  <2>1. \A k \in Keys : /\ Running(k)' = Running(k)
                        /\ Submitting(k)' = Submitting(k)
                        /\ owner.key # k
    BY <1>1 DEF StopTake, Running, Submitting
  <2>2. \A k \in Keys : /\ \A i, j \in Queued(k)' : i = j
                        /\ Queued(k)' # {} => Queued(k) # {} /\ k # e
                        /\ Queued(k) # {} => Queued(k)' # {} \/ k = e
                        /\ k = e => Queued(k) # {}
    BY <1>1, ShiftedOnce, QueueShift DEF StopTake
  <2>3. owner'.key = e /\ owner'.pc = owner.pc /\ UNCHANGED scheduled
    BY <1>1 DEF StopTake, RuntimeTypeOK
  <2> HIDE DEF e
  <2>4. OnePlace'
    BY <2>1, <2>2, <2>3 DEF OnePlace, Held
  <2>5. EveryKeyIsHeld'
    BY <2>1, <2>2, <2>3 DEF EveryKeyIsHeld, Held, RuntimeTypeOK
  <2> QED
    BY <2>4, <2>5
<1>2. CASE StopDiscard
  <2>1. \A k \in Keys : /\ Running(k)' = Running(k)
                        /\ Queued(k)' = Queued(k)
                        /\ Submitting(k)' = Submitting(k)
    BY <1>2 DEF StopDiscard, Running, Queued, Submitting
  <2>2. /\ scheduled' = scheduled \ {owner.key}
        /\ owner'.key = None /\ owner'.pc = owner.pc
    BY <1>2 DEF StopDiscard, RuntimeTypeOK
  <2>3. OnePlace'
    BY <2>1, <2>2 DEF OnePlace, Held
  <2>4. EveryKeyIsHeld'
    BY <2>1, <2>2 DEF EveryKeyIsHeld, Held, RuntimeTypeOK
  <2> QED
    BY <2>3, <2>4
<1>3. CASE StopBegin \/ StopDrained \/ \E w \in Workers : StopJoin(w)
  <2>1. \A k \in Keys : /\ Running(k)' = Running(k)
                        /\ Queued(k)' = Queued(k)
                        /\ Submitting(k)' = Submitting(k)
    BY <1>3 DEF StopBegin, StopDrained, StopJoin, Running, Queued, Submitting
  <2>2. UNCHANGED <<scheduled, owner.key>> /\ owner.pc # "stopped"
    BY <1>3 DEF StopBegin, StopDrained, StopJoin, RuntimeTypeOK
  <2> QED
    BY <2>1, <2>2, SamePlaces DEF RuntimeTypeOK
<1>4. CASE StopSend
  <2>1. \A k \in Keys : Queued(k)' = Queued(k)
    <3>1. CASE queue' = Append(queue, Shutdown)
      BY <3>1, AppendElements DEF RuntimeTypeOK, Queued
    <3>2. CASE queue' = queue
      BY <3>2 DEF Queued
    <3> QED
      BY <1>4, <3>1, <3>2 DEF StopSend
  <2>2. \A k \in Keys : Running(k)' = Running(k) /\ Submitting(k)' = Submitting(k)
    BY <1>4 DEF StopSend, Running, Submitting
  <2>3. UNCHANGED <<scheduled, owner.key>> /\ owner.pc # "stopped"
    BY <1>4 DEF StopSend, RuntimeTypeOK
  <2> QED
    BY <2>1, <2>2, <2>3, SamePlaces DEF RuntimeTypeOK
<1>5. CASE StopClear
  <2>1. \A k \in Keys : /\ Running(k)' = Running(k)
                        /\ Queued(k)' = Queued(k)
                        /\ Submitting(k)' = Submitting(k)
    BY <1>5 DEF StopClear, Running, Queued, Submitting
  <2>2. scheduled' = {} /\ owner'.key = owner.key /\ owner'.pc = "stopped"
    BY <1>5 DEF StopClear, RuntimeTypeOK
  <2> QED
    BY <2>1, <2>2 DEF OnePlace, EveryKeyIsHeld, Held
<1> QED
  BY <1>1, <1>2, <1>3, <1>4, <1>5 DEF StopStep

-----------------------------------------------------------------------------
(* Results *)

LEMMA RuntimeInitInv == MaintenanceInit => MaintenanceInv
<1> SUFFICES ASSUME MaintenanceInit PROVE MaintenanceInv
  OBVIOUS
<1>1. KeysInPlace
  BY DEF MaintenanceInit, IdleSubmit, KeysInPlace
<1>2. \A k \in Keys : Running(k) \cup Queued(k) \cup Submitting(k) = {}
  BY Constants DEF MaintenanceInit, IdleSubmit, Running, Queued, Submitting
<1>3. owner.key = None /\ scheduled = {}
  BY DEF MaintenanceInit
<1> QED
  BY <1>1, <1>2, <1>3, InitType, Constants
     DEF MaintenanceInv, OnePlace, EveryKeyIsHeld, Held

LEMMA RuntimeStepInv == MaintenanceInv /\ [MaintenanceNext]_runtimeVars => MaintenanceInv'
<1> SUFFICES ASSUME RuntimeTypeOK, KeysInPlace, OnePlace, EveryKeyIsHeld, [MaintenanceNext]_runtimeVars
             PROVE  OnePlace' /\ EveryKeyIsHeld'
  BY TypeStep, KeysStep DEF MaintenanceInv
<1>1. ASSUME NEW t \in Submitters, NEW k \in Keys, SubmitCheck(t, k)
      PROVE  OnePlace' /\ EveryKeyIsHeld'
  BY <1>1, CheckPlaces
<1>2. CASE UNCHANGED runtimeVars
  <2>1. \A k \in Keys : /\ Running(k)' = Running(k)
                        /\ Queued(k)' = Queued(k)
                        /\ Submitting(k)' = Submitting(k)
    BY <1>2 DEF runtimeVars, Running, Queued, Submitting
  <2>2. /\ UNCHANGED <<scheduled, owner.key>> /\ scheduled \subseteq Keys
        /\ owner.pc = "stopped" => owner'.pc = "stopped"
    BY <1>2 DEF runtimeVars, RuntimeTypeOK
  <2> QED
    BY <2>1, <2>2, SamePlaces
<1> QED
  BY <1>1, <1>2, SubmitPlaces, WorkerPlaces, StopPlaces DEF MaintenanceNext

\* The inductive invariant of the runtime holds.
THEOREM MaintenanceHolds == MaintenanceSpec => []MaintenanceInv
BY RuntimeInitInv, RuntimeStepInv, PTL DEF MaintenanceSpec

\* Type correctness: the queue never holds more than queue_size entries.
THEOREM RuntimeTypeCorrect == MaintenanceSpec => []RuntimeTypeOK
<1>1. MaintenanceInv => RuntimeTypeOK
  BY DEF MaintenanceInv
<1> QED
  BY <1>1, MaintenanceHolds, PTL

LEMMA AtMostOne ==
    ASSUME NEW S, \A x, y \in S : x = y
    PROVE  /\ Cardinality(S) \in {0, 1}
           /\ S = {} <=> Cardinality(S) = 0
<1>1. CASE S = {}
  BY <1>1, FS_EmptySet
<1>2. ASSUME NEW x \in S PROVE Cardinality(S) = 1
  <2>1. S = {x}
    OBVIOUS
  <2> QED
    BY <2>1, FS_Singleton
<1> QED
  BY <1>1, <1>2

\* One domain never has two jobs, whatever the interleaving of requests,
\* workers and a shutdown whose joins time out.
THEOREM OneJob == MaintenanceSpec => []OneJobPerKey
<1>1. MaintenanceInv => OneJobPerKey
  <2> SUFFICES ASSUME MaintenanceInv, NEW k \in Keys
               PROVE  Cardinality(Running(k)) + Cardinality(Queued(k))
                          + Cardinality(Submitting(k)) <= 1
    BY DEF OneJobPerKey
  <2>1. /\ Cardinality(Running(k)) \in {0, 1}
        /\ Cardinality(Queued(k)) \in {0, 1}
        /\ Cardinality(Submitting(k)) \in {0, 1}
        /\ Running(k) = {} <=> Cardinality(Running(k)) = 0
        /\ Queued(k) = {} <=> Cardinality(Queued(k)) = 0
        /\ Submitting(k) = {} <=> Cardinality(Submitting(k)) = 0
    BY AtMostOne DEF MaintenanceInv, OnePlace
  <2>2. \/ Running(k) = {} /\ Queued(k) = {}
        \/ Running(k) = {} /\ Submitting(k) = {}
        \/ Queued(k) = {} /\ Submitting(k) = {}
    BY DEF MaintenanceInv, OnePlace
  <2> QED
    BY <2>1, <2>2
<1> QED
  BY <1>1, MaintenanceHolds, PTL

\* No scheduled key is stranded: some thread or the queue has its job.
THEOREM NoneStranded == MaintenanceSpec => []EveryKeyIsHeld
<1>1. MaintenanceInv => EveryKeyIsHeld
  BY DEF MaintenanceInv
<1> QED
  BY <1>1, MaintenanceHolds, PTL
==============================================================================
