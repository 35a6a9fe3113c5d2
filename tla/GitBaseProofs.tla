---------------------------- MODULE GitBaseProofs ----------------------------
(***************************************************************************)
(* What GitSync promises of the Git-backed base, and WikiGraph of the link *)
(* graph that its servers share, at every moment: for any number of        *)
(* clones, domains, changes and attempts, and for any threads, pages,      *)
(* edits, crashes and failures of the store.                               *)
(***************************************************************************)
EXTENDS GitSync, WikiGraph, SequenceTheorems, TLAPS

-----------------------------------------------------------------------------
(* Histories *)

\* A change is in a history when it is in one of its commits.
LEMMA InHistory ==
    ASSUME NEW s \in Histories, NEW n
    PROVE  n \in ChangesOf(s) <=> \E i \in 1..Len(s) : n \in s[i]
BY LenProperties DEF ChangesOf, Range, Histories

\* A commit of a history is a non-empty set of changes.
LEMMA CommitsOf ==
    ASSUME NEW s \in Histories
    PROVE  /\ Len(s) \in Nat /\ DOMAIN s = 1..Len(s)
           /\ \A i \in 1..Len(s) : s[i] # {} /\ s[i] \subseteq Changes
           /\ ChangesOf(s) \subseteq Changes
<1>1. Len(s) \in Nat /\ DOMAIN s = 1..Len(s)
  BY LenProperties DEF Histories
<1>2. \A i \in 1..Len(s) : s[i] \in (SUBSET Changes) \ {{}}
  BY ElementOfSeq DEF Histories
<1>3. QED
  BY <1>1, <1>2, InHistory

\* A part of a history is a history, with the commits in their places.
LEMMA PartOf ==
    ASSUME NEW s \in Histories, NEW m \in Nat \ {0}, NEW n \in Nat, n <= Len(s)
    PROVE  /\ SubSeq(s, m, n) \in Histories
           /\ Len(SubSeq(s, m, n)) = IF m <= n THEN n - m + 1 ELSE 0
           /\ \A i \in 1..(n - m + 1) : SubSeq(s, m, n)[i] = s[m + i - 1]
<1>1. Len(s) \in Nat
  BY CommitsOf
<1>2. \A i \in m..n : s[i] \in (SUBSET Changes) \ {{}}
  BY <1>1, CommitsOf
<1>3. QED
  BY <1>2, SubSeqProperties DEF Histories

\* A commit brings its changes.
LEMMA AppendHas ==
    ASSUME NEW s \in Histories, NEW e \in (SUBSET Changes) \ {{}}, NEW n
    PROVE  n \in ChangesOf(Append(s, e)) <=> n \in ChangesOf(s) \/ n \in e
<1> DEFINE a == Append(s, e)
<1>1. /\ a \in Histories /\ Len(a) = Len(s) + 1 /\ a[Len(s) + 1] = e
      /\ \A i \in 1..Len(s) : a[i] = s[i]
  BY AppendProperties DEF Histories
<1>2. Len(s) \in Nat
  BY CommitsOf
<1> HIDE DEF a
<1>3. ASSUME n \in ChangesOf(a)
      PROVE  n \in ChangesOf(s) \/ n \in e
  <2>1. PICK i \in 1..Len(a) : n \in a[i]
    BY <1>1, <1>3, InHistory
  <2>2. i \in 1..Len(s) \/ i = Len(s) + 1
    BY <1>1, <1>2
  <2>3. QED
    BY <1>1, <2>1, <2>2, InHistory
<1>4. ASSUME n \in ChangesOf(s)
      PROVE  n \in ChangesOf(a)
  <2>1. PICK i \in 1..Len(s) : n \in s[i]
    BY <1>4, InHistory
  <2>2. i \in 1..Len(a) /\ n \in a[i]
    BY <1>1, <1>2, <2>1
  <2>3. QED
    BY <1>1, <2>2, InHistory
<1>5. ASSUME n \in e
      PROVE  n \in ChangesOf(a)
  <2>1. Len(s) + 1 \in 1..Len(a) /\ n \in a[Len(s) + 1]
    BY <1>1, <1>2, <1>5
  <2>2. QED
    BY <1>1, <2>1, InHistory
<1>6. QED
  BY <1>3, <1>4, <1>5 DEF a

\* A prefix has the first commits of the whole.
LEMMA PrefixMeans ==
    ASSUME NEW s \in Histories, NEW t \in Histories
    PROVE  IsPrefix(s, t) <=> Len(s) <= Len(t) /\ \A i \in 1..Len(s) : s[i] = t[i]
<1>1. Len(s) \in Nat /\ Len(t) \in Nat
  BY CommitsOf
<1>2. SubSeq(s, 1, Len(s)) = s
  BY SubSeqFull DEF Histories
<1>3. ASSUME Len(s) <= Len(t)
      PROVE  s = SubSeq(t, 1, Len(s)) <=> \A i \in 1..Len(s) : s[i] = t[i]
  <2>1. /\ SubSeq(t, 1, Len(s)) \in Histories
        /\ Len(SubSeq(t, 1, Len(s))) = Len(s)
        /\ \A i \in 1..Len(s) : SubSeq(t, 1, Len(s))[i] = t[i]
    BY <1>1, <1>3, PartOf
  <2>2. (\A i \in 1..Len(s) : s[i] = t[i]) => s = SubSeq(t, 1, Len(s))
    BY <2>1, SeqEqual DEF Histories
  <2>3. QED
    BY <2>1, <2>2
<1>4. QED
  BY <1>2, <1>3 DEF IsPrefix

\* No change twice, and no commit empty.
LEMMA DistinctMeans ==
    ASSUME NEW s \in Histories
    PROVE  Shared!Distinct(s) <=>
               \A i, j \in 1..Len(s) : i # j => s[i] \cap s[j] = {}
BY CommitsOf DEF Shared!Distinct, Shared!Range

\* Where the branch leaves the remote, as BranchFits says.
ForksAt(c, k) ==
    /\ k \in 0..Len(branch[c]) /\ k <= Len(remote)
    /\ \A i \in 1..k : branch[c][i] = remote[i]
    /\ \A i \in (k + 1)..Len(branch[c]) :
          \A n \in branch[c][i] : author[n] = c /\ n \notin ChangesOf(remote)

\* The remote and every branch are histories.
LEMMA HistoriesTyped ==
    ASSUME TypeOK, NEW c \in Clones
    PROVE  remote \in Histories /\ branch[c] \in Histories
BY DEF TypeOK

\* The longest common prefix ends there.
LEMMA ForkFits ==
    ASSUME TypeOK, NEW c \in Clones, NEW k, ForksAt(c, k)
    PROVE  Len(Fork(c)) = k
<1> DEFINE b == branch[c]
           P == CommonPrefixes({b, remote})
           x == SubSeq(b, 1, k)
<1>1. b \in Histories /\ remote \in Histories /\ Len(b) \in Nat /\ Len(remote) \in Nat
  BY HistoriesTyped, CommitsOf
<1>2. k \in Nat /\ k <= Len(b) /\ k <= Len(remote)
  BY <1>1 DEF ForksAt
<1>3. x \in Histories /\ Len(x) = k /\ \A i \in 1..k : x[i] = b[i] /\ x[i] = remote[i]
  BY <1>1, <1>2, PartOf DEF ForksAt
<1>4. x \in P
  <2>1. x \in Prefixes(b)
    BY <1>1, <1>2 DEF Prefixes
  <2>2. IsPrefix(x, b) /\ IsPrefix(x, remote)
    BY <1>1, <1>2, <1>3, PrefixMeans
  <2>3. QED
    BY <2>1, <2>2 DEF CommonPrefixes
<1>5. ASSUME NEW y \in P
      PROVE  Len(y) \in Nat /\ Len(y) <= k
  <2>1. y \in Histories
    <3>1. y \in Prefixes(b) \cup Prefixes(remote)
      BY <1>5 DEF CommonPrefixes
    <3>2. CASE y \in Prefixes(b)
      <4>1. PICK l \in 0..Len(b) : y = SubSeq(b, 1, l)
        BY <3>2 DEF Prefixes
      <4>2. QED
        BY <1>1, <4>1, PartOf
    <3>3. CASE y \in Prefixes(remote)
      <4>1. PICK l \in 0..Len(remote) : y = SubSeq(remote, 1, l)
        BY <3>3 DEF Prefixes
      <4>2. QED
        BY <1>1, <4>1, PartOf
    <3>4. QED
      BY <3>1, <3>2, <3>3
  <2>2. IsPrefix(y, b) /\ IsPrefix(y, remote)
    BY <1>5 DEF CommonPrefixes
  <2>3. /\ Len(y) \in Nat /\ Len(y) <= Len(b) /\ Len(y) <= Len(remote)
        /\ \A i \in 1..Len(y) : b[i] = remote[i]
    BY <1>1, <2>1, <2>2, PrefixMeans, CommitsOf
  <2>4. ASSUME Len(y) > k
        PROVE  FALSE
    <3>1. k + 1 \in 1..Len(y) /\ k + 1 \in 1..Len(b) /\ k + 1 \in 1..Len(remote)
      BY <1>2, <2>3, <2>4
    <3>2. b[k + 1] = remote[k + 1] /\ b[k + 1] # {}
      BY <1>1, <2>3, <3>1, CommitsOf
    <3>3. PICK n : n \in b[k + 1]
      BY <3>2
    <3>4. n \in ChangesOf(remote)
      BY <1>1, <3>1, <3>2, <3>3, InHistory
    <3>5. n \notin ChangesOf(remote)
      BY <1>1, <1>2, <3>1, <3>3 DEF ForksAt
    <3>6. QED
      BY <3>4, <3>5
  <2>5. QED
    BY <1>2, <2>3, <2>4
<1>6. Fork(c) \in P /\ \A y \in P : Len(y) <= Len(Fork(c))
  <2>1. \E l \in P : \A y \in P : Len(y) <= Len(l)
    BY <1>3, <1>4, <1>5
  <2>2. Fork(c) = CHOOSE l \in P : \A y \in P : Len(y) <= Len(l)
    BY DEF Fork, LongestCommonPrefix
  <2>3. QED
    BY <2>1, <2>2
<1>7. Len(Fork(c)) \in Nat /\ Len(Fork(c)) <= k
  BY <1>5, <1>6
<1>8. k <= Len(Fork(c))
  BY <1>3, <1>4, <1>6
<1>9. QED
  BY <1>2, <1>7, <1>8

\* A rebase puts the local commits after those of the remote.
LEMMA RebasedIs ==
    ASSUME TypeOK, NEW c \in Clones, NEW k, ForksAt(c, k)
    PROVE  /\ Rebased(c) \in Histories
           /\ Len(Rebased(c)) = Len(remote) + (Len(branch[c]) - k)
           /\ \A i \in 1..Len(remote) : Rebased(c)[i] = remote[i]
           /\ \A i \in (Len(remote) + 1)..Len(Rebased(c)) :
                 Rebased(c)[i] = branch[c][i - Len(remote) + k]
<1> DEFINE b == branch[c]
           l == Local(c)
<1>1. b \in Histories /\ remote \in Histories /\ Len(b) \in Nat /\ Len(remote) \in Nat
  BY HistoriesTyped, CommitsOf
<1>2. k \in Nat /\ k <= Len(b)
  BY <1>1 DEF ForksAt
<1>3. l = SubSeq(b, k + 1, Len(b))
  BY ForkFits DEF Local
<1>4. l \in Histories /\ Len(l) = Len(b) - k /\ \A i \in 1..Len(l) : l[i] = b[k + i]
  <2> HIDE DEF b, l
  <2>1. /\ l \in Histories
        /\ Len(l) = IF k + 1 <= Len(b) THEN Len(b) - (k + 1) + 1 ELSE 0
        /\ \A i \in 1..(Len(b) - (k + 1) + 1) : l[i] = b[(k + 1) + i - 1]
    BY <1>1, <1>2, <1>3, PartOf
  <2>2. Len(l) = Len(b) - k
    BY <1>1, <1>2, <2>1
  <2>3. QED
    BY <1>1, <1>2, <2>1, <2>2
<1>5. /\ remote \o l \in Histories
      /\ Len(remote \o l) = Len(remote) + Len(l)
      /\ \A i \in 1..(Len(remote) + Len(l)) :
            (remote \o l)[i] = IF i <= Len(remote) THEN remote[i] ELSE l[i - Len(remote)]
  BY <1>1, <1>4, ConcatProperties DEF Histories
<1>6. Rebased(c) = remote \o l
  BY DEF Rebased
<1> HIDE DEF l
<1>7. /\ Len(Rebased(c)) = Len(remote) + (Len(branch[c]) - k)
      /\ \A i \in 1..Len(remote) : Rebased(c)[i] = remote[i]
  BY <1>1, <1>2, <1>4, <1>5, <1>6
<1>8. ASSUME NEW i \in (Len(remote) + 1)..Len(Rebased(c))
      PROVE  Rebased(c)[i] = branch[c][i - Len(remote) + k]
  <2>1. i - Len(remote) \in 1..Len(l) /\ i \in 1..(Len(remote) + Len(l)) /\ ~(i <= Len(remote))
    BY <1>1, <1>2, <1>4, <1>7, <1>8
  <2>2. Rebased(c)[i] = l[i - Len(remote)] /\ l[i - Len(remote)] = b[k + (i - Len(remote))]
    BY <1>4, <1>5, <1>6, <2>1
  <2>3. k + (i - Len(remote)) = i - Len(remote) + k
    BY <1>1, <1>2
  <2>4. QED
    BY <2>2, <2>3
<1>9. QED
  BY <1>5, <1>6, <1>7, <1>8

\* It loses no change, has none twice, and what comes after the remote's commits
\* stays its clone's own.
LEMMA RebasedFits ==
    ASSUME TypeOK, ChangesAreOnce, NEW c \in Clones, NEW k, ForksAt(c, k)
    PROVE  /\ ChangesOf(Rebased(c)) = ChangesOf(remote) \cup ChangesOf(branch[c])
           /\ Shared!Distinct(Rebased(c))
           /\ \A i \in (Len(remote) + 1)..Len(Rebased(c)) :
                 \A n \in Rebased(c)[i] : author[n] = c /\ n \notin ChangesOf(remote)
<1> DEFINE b == branch[c]
           r == Rebased(c)
           m == Len(remote)
<1>1. b \in Histories /\ remote \in Histories /\ Len(b) \in Nat /\ m \in Nat
  BY HistoriesTyped, CommitsOf
<1>2. k \in Nat /\ k <= Len(b) /\ k <= m /\ \A i \in 1..k : b[i] = remote[i]
  BY <1>1 DEF ForksAt
<1>3. /\ r \in Histories /\ Len(r) = m + (Len(b) - k)
      /\ \A i \in 1..m : r[i] = remote[i]
      /\ \A i \in (m + 1)..Len(r) : r[i] = b[i - m + k]
  BY RebasedIs
<1> HIDE DEF b, r, m
<1>4. \A i \in (m + 1)..Len(r) : i - m + k \in (k + 1)..Len(b)
  BY <1>1, <1>2, <1>3
<1>5. \A i \in (k + 1)..Len(b) :
         \A n \in b[i] : author[n] = c /\ n \notin ChangesOf(remote)
  BY DEF ForksAt, b
<1>6. \A i \in (m + 1)..Len(r) : \A n \in r[i] : author[n] = c /\ n \notin ChangesOf(remote)
  BY <1>3, <1>4, <1>5
<1>7. ChangesOf(r) = ChangesOf(remote) \cup ChangesOf(b)
  <2>1. ASSUME NEW n, n \in ChangesOf(r)
        PROVE  n \in ChangesOf(remote) \cup ChangesOf(b)
    <3>1. PICK i \in 1..Len(r) : n \in r[i]
      BY <1>3, <2>1, InHistory
    <3>2. CASE i <= m
      <4>1. i \in 1..m /\ n \in remote[i]
        BY <1>1, <1>3, <3>1, <3>2
      <4>2. QED
        BY <1>1, <4>1, InHistory DEF m
    <3>3. CASE i > m
      <4>1. i - m + k \in 1..Len(b) /\ n \in b[i - m + k]
        BY <1>1, <1>2, <1>3, <1>4, <3>1, <3>3
      <4>2. QED
        BY <1>1, <4>1, InHistory
    <3>4. QED
      BY <1>1, <3>1, <3>2, <3>3
  <2>2. ASSUME NEW n, n \in ChangesOf(remote)
        PROVE  n \in ChangesOf(r)
    <3>1. PICK i \in 1..m : n \in remote[i]
      BY <1>1, <2>2, InHistory DEF m
    <3>2. i \in 1..Len(r) /\ n \in r[i]
      BY <1>1, <1>2, <1>3, <3>1
    <3>3. QED
      BY <1>3, <3>2, InHistory
  <2>3. ASSUME NEW n, n \in ChangesOf(b)
        PROVE  n \in ChangesOf(r)
    <3>1. PICK i \in 1..Len(b) : n \in b[i]
      BY <1>1, <2>3, InHistory
    <3>2. CASE i <= k
      <4>1. i \in 1..m /\ n \in remote[i]
        BY <1>1, <1>2, <3>1, <3>2
      <4>2. QED
        BY <1>1, <2>2, <4>1, InHistory DEF m
    <3>3. CASE i > k
      <4>1. i - k + m \in (m + 1)..Len(r)
        BY <1>1, <1>2, <1>3, <3>1, <3>3
      <4>2. r[i - k + m] = b[i] /\ i - k + m \in 1..Len(r)
        BY <1>1, <1>2, <1>3, <3>1, <4>1
      <4>3. QED
        BY <1>3, <3>1, <4>2, InHistory
    <3>4. QED
      BY <1>1, <1>2, <3>1, <3>2, <3>3
  <2>4. QED
    BY <2>1, <2>2, <2>3
<1>8. Shared!Distinct(r)
  <2>1. \A i, j \in 1..m : i # j => remote[i] \cap remote[j] = {}
    BY <1>1, DistinctMeans DEF ChangesAreOnce, m
  <2>2. \A i, j \in 1..Len(b) : i # j => b[i] \cap b[j] = {}
    BY <1>1, DistinctMeans DEF ChangesAreOnce, b
  <2>3. ASSUME NEW i \in 1..Len(r), NEW j \in 1..Len(r), i # j, i <= m, j <= m
        PROVE  r[i] \cap r[j] = {}
    <3>1. i \in 1..m /\ j \in 1..m
      BY <1>1, <2>3
    <3>2. QED
      BY <1>3, <2>1, <2>3, <3>1
  <2>4. ASSUME NEW i \in 1..Len(r), NEW j \in 1..Len(r), i <= m, j > m
        PROVE  r[i] \cap r[j] = {}
    <3>1. i \in 1..m /\ j \in (m + 1)..Len(r)
      BY <1>1, <1>3, <2>4
    <3>2. \A n \in r[i] : n \in ChangesOf(remote)
      BY <1>1, <1>3, <3>1, InHistory DEF m
    <3>3. QED
      BY <1>6, <3>1, <3>2
  <2>5. ASSUME NEW i \in 1..Len(r), NEW j \in 1..Len(r), i # j, i > m, j > m
        PROVE  r[i] \cap r[j] = {}
    <3>1. /\ i - m + k \in 1..Len(b) /\ j - m + k \in 1..Len(b) /\ i - m + k # j - m + k
          /\ r[i] = b[i - m + k] /\ r[j] = b[j - m + k]
      <4>1. i \in (m + 1)..Len(r) /\ j \in (m + 1)..Len(r)
        BY <1>1, <1>3, <2>5
      <4>2. i - m + k \in (k + 1)..Len(b) /\ j - m + k \in (k + 1)..Len(b)
        BY <1>4, <4>1
      <4>3. QED
        BY <1>1, <1>2, <1>3, <2>5, <4>1, <4>2
    <3>2. QED
      BY <2>2, <3>1
  <2>6. \A i, j \in 1..Len(r) : i # j => r[i] \cap r[j] = {}
    <3>1. Len(r) \in Nat
      BY <1>3, CommitsOf
    <3>2. QED
      BY <1>1, <2>3, <2>4, <2>5, <3>1
  <2>7. QED
    BY <1>3, <2>6, DistinctMeans
<1>9. QED
  BY <1>6, <1>7, <1>8 DEF b, r, m

-----------------------------------------------------------------------------
(* How histories change *)

\* Pull, and the Resolve of a hand.
Rebases(c) ==
    /\ dirty[c] = {} /\ branch' = [branch EXCEPT ![c] = Rebased(c)]
    /\ UNCHANGED <<remote, author>>

\* Push, and the one whose answer is lost.
Pushes(c) == IsFastForward(c) /\ remote' = branch[c] /\ UNCHANGED <<branch, author>>

\* Each step leaves the histories alone or is one of four on one clone.
LEMMA HistoryCases ==
    ASSUME TypeOK, [Next]_vars
    PROVE  \/ UNCHANGED <<remote, branch>>
           \/ \E c \in Clones : \/ FastForward(c) \/ Rebases(c) \/ Pushes(c)
                                \/ pc[c] = "committing" /\ CommitLands(c)
<1>1. \A c \in Clones : [branch EXCEPT ![c] = branch[c]] = branch
  BY DEF TypeOK
<1>2. CASE UNCHANGED vars
  BY <1>2 DEF vars, repository
<1>3. CASE Calm
  BY <1>3 DEF Calm, repository
<1>4. ASSUME NEW c \in Clones, NEW d \in Domains, StartWrite(c, d)
      PROVE  UNCHANGED <<remote, branch>>
  BY <1>4 DEF StartWrite, repository
<1>5. ASSUME NEW c \in Clones, StartSync(c) \/ Crash(c)
      PROVE  UNCHANGED <<remote, branch>>
  BY <1>5 DEF StartSync, Crash, repository
<1>6. ASSUME NEW c \in Clones, Resolve(c) \/ Pull(c)
      PROVE  Rebases(c)
  BY <1>6 DEF Resolve, Pull, Rebases, changes
<1>7. ASSUME NEW c \in Clones, Commit(c) \/ CommitFails(c)
      PROVE  UNCHANGED <<remote, branch>> \/ (pc[c] = "committing" /\ CommitLands(c))
  BY <1>7 DEF Commit, CommitFails, repository
<1>8. ASSUME NEW c \in Clones, Push(c) \/ PushTimesOut(c)
      PROVE  UNCHANGED <<remote, branch>> \/ Pushes(c)
  BY <1>8 DEF Push, PushTimesOut, Pushes, repository, changes
<1>9. ASSUME NEW c \in Clones, Abort(c)
      PROVE  UNCHANGED <<remote, branch>>
  BY <1>1, <1>9 DEF Abort, OriginalBranch
<1>10. ASSUME NEW c \in Clones,
              \/ RefuseDiverged(c) \/ GoOn(c) \/ WritePage(c) \/ RejectInput(c)
              \/ WriteFails(c) \/ PullConflict(c) \/ PullTimesOut(c) \/ PullFails(c)
              \/ AbortFails(c) \/ PushFails(c)
       PROVE  UNCHANGED <<remote, branch>>
  BY <1>10 DEF RefuseDiverged, GoOn, WritePage, RejectInput, WriteFails, PullConflict,
               PullTimesOut, PullFails, AbortFails, PushFails, RebaseStops, repository
<1>11. QED
  BY <1>2, <1>3, <1>4, <1>5, <1>6, <1>7, <1>8, <1>9, <1>10 DEF Next, ToolStep

\* What a step does to histories: no change leaves one; the remote takes what some
\* clone has, and a branch what the remote has or its own working tree loses.
HistoriesGrow ==
    /\ remote' \in Histories /\ branch' \in [Clones -> Histories]
    /\ ChangesOf(remote) \subseteq ChangesOf(remote')
    /\ \A n \in ChangesOf(remote') :
          n \in ChangesOf(remote) \/ \E c \in Clones : n \in ChangesOf(branch[c])
    /\ \A c \in Clones :
          /\ ChangesOf(branch[c]) \subseteq ChangesOf(branch'[c])
          /\ \A n \in ChangesOf(branch'[c]) :
                \/ n \in ChangesOf(branch[c])
                \/ n \in ChangesOf(remote) /\ dirty[c] = {}
                \/ pc[c] = "committing" /\ n \in dirty[c] \ dirty'[c]

\* Every change in a history has begun.
LEMMA HistoriesBegun ==
    ASSUME TypeOK, UnbegunAreNowhere
    PROVE  /\ \A n \in ChangesOf(remote) : n \in Changes /\ n <= begun
           /\ \A c \in Clones : \A n \in ChangesOf(branch[c]) : n \in Changes /\ n <= begun
<1>1. begun \in Nat /\ \A n \in Changes : n \in Nat
  BY SyncAssumption DEF TypeOK, Changes
<1>2. ChangesOf(remote) \subseteq Changes
  BY CommitsOf DEF TypeOK
<1>3. \A c \in Clones : ChangesOf(branch[c]) \subseteq Changes
  BY CommitsOf DEF TypeOK
<1>4. QED
  BY <1>1, <1>2, <1>3 DEF UnbegunAreNowhere

\* A branch has the remote's changes, and its clone's own.
LEMMA BranchHas ==
    ASSUME TypeOK, NEW c \in Clones, BranchFits(c), NEW n \in ChangesOf(branch[c])
    PROVE  n \in ChangesOf(remote) \/ author[n] = c
<1>1. PICK k : ForksAt(c, k)
  BY DEF BranchFits, ForksAt
<1>2. branch[c] \in Histories /\ remote \in Histories
  BY HistoriesTyped
<1>3. PICK i \in 1..Len(branch[c]) : n \in branch[c][i]
  BY <1>2, InHistory
<1>4. Len(branch[c]) \in Nat /\ Len(remote) \in Nat /\ k \in Nat
  BY <1>1, <1>2, CommitsOf DEF ForksAt
<1>5. CASE i <= k
  <2>1. i \in 1..Len(remote) /\ n \in remote[i]
    BY <1>1, <1>3, <1>4, <1>5 DEF ForksAt
  <2>2. QED
    BY <1>2, <2>1, InHistory
<1>6. CASE i > k
  BY <1>1, <1>3, <1>4, <1>6 DEF ForksAt
<1>7. QED
  BY <1>3, <1>4, <1>5, <1>6

\* Branches that fit, and stay as they are, fit after a step that tells only new
\* changes apart and leaves the remote alone.
LEMMA FitsUntouched ==
    ASSUME TypeOK, UnbegunAreNowhere, NEW c \in Clones, BranchFits(c),
           branch'[c] = branch[c], remote' = remote,
           \A n \in Changes : n <= begun => author'[n] = author[n]
    PROVE  BranchFits(c)'
<1>1. PICK k : ForksAt(c, k)
  BY DEF BranchFits, ForksAt
<1>2. \A i \in 1..Len(branch[c]) : \A n \in branch[c][i] : n \in Changes /\ n <= begun
  BY HistoriesTyped, InHistory, HistoriesBegun
<1>3. Len(branch[c]) \in Nat /\ k \in Nat
  BY <1>1, HistoriesTyped, CommitsOf DEF ForksAt
<1>4. \A i \in (k + 1)..Len(branch[c]) : i \in 1..Len(branch[c])
  BY <1>3
<1>5. \A i \in (k + 1)..Len(branch[c]) : \A n \in branch[c][i] : author'[n] = c
  BY <1>1, <1>2, <1>4 DEF ForksAt
<1>6. ForksAt(c, k)'
  BY <1>1, <1>5 DEF ForksAt, ChangesOf, Range
<1>7. QED
  BY <1>6 DEF BranchFits, ForksAt

\* One branch takes another history that has all the old one had.
LEMMA BranchReplaced ==
    ASSUME TypeOK, UnbegunAreNowhere, ChangesAreOnce, \A d \in Clones : BranchFits(d),
           NEW c \in Clones, NEW b \in Histories,
           branch' = [branch EXCEPT ![c] = b], UNCHANGED <<remote, author>>,
           Shared!Distinct(b), ChangesOf(branch[c]) \subseteq ChangesOf(b),
           \A n \in ChangesOf(b) :
              \/ n \in ChangesOf(branch[c])
              \/ n \in ChangesOf(remote) /\ dirty[c] = {}
              \/ pc[c] = "committing" /\ n \in dirty[c] \ dirty'[c],
           NEW k \in 0..Len(b), k <= Len(remote), \A i \in 1..k : b[i] = remote[i],
           \A i \in (k + 1)..Len(b) :
              \A n \in b[i] : author[n] = c /\ n \notin ChangesOf(remote)
    PROVE  HistoriesGrow /\ ChangesAreOnce' /\ \A d \in Clones : BranchFits(d)'
<1>1. branch'[c] = b /\ \A d \in Clones : d # c => branch'[d] = branch[d]
  BY DEF TypeOK
<1>2. HistoriesGrow
  BY <1>1 DEF HistoriesGrow, TypeOK
<1>3. ChangesAreOnce'
  BY <1>1 DEF ChangesAreOnce, Shared!Distinct, Shared!Range
<1>4. BranchFits(c)'
  <2>1. ForksAt(c, k)'
    BY <1>1 DEF ForksAt, ChangesOf, Range
  <2>2. QED
    BY <2>1 DEF BranchFits, ForksAt
<1>5. \A d \in Clones : d # c => BranchFits(d)'
  BY <1>1, FitsUntouched
<1>6. QED
  BY <1>2, <1>3, <1>4, <1>5

\* A fast-forward makes the branch what the remote is.
LEMMA FastForwardGrows ==
    ASSUME BaseInv, NEW c \in Clones, FastForward(c)
    PROVE  HistoriesGrow /\ ChangesAreOnce' /\ \A d \in Clones : BranchFits(d)'
<1>1. /\ branch' = [branch EXCEPT ![c] = remote] /\ UNCHANGED <<remote, author>>
      /\ dirty[c] = {} /\ IsPrefix(branch[c], remote)
  BY DEF FastForward, CanFastForward, Ahead, changes
<1>2. branch[c] \in Histories /\ remote \in Histories /\ Len(remote) \in Nat /\ TypeOK
  BY HistoriesTyped, CommitsOf DEF BaseInv
<1>3. ChangesOf(branch[c]) \subseteq ChangesOf(remote)
  <2>1. \A i \in 1..Len(branch[c]) : i \in 1..Len(remote) /\ branch[c][i] = remote[i]
    BY <1>1, <1>2, PrefixMeans, CommitsOf
  <2>2. QED
    BY <1>2, <2>1, InHistory
<1>4. Shared!Distinct(remote)
  BY DEF BaseInv, ChangesAreOnce
<1>5. /\ Len(remote) \in 0..Len(remote) /\ Len(remote) <= Len(remote)
      /\ \A i \in (Len(remote) + 1)..Len(remote) :
            \A n \in remote[i] : author[n] = c /\ n \notin ChangesOf(remote)
  BY <1>2
<1>6. UnbegunAreNowhere /\ ChangesAreOnce /\ \A d \in Clones : BranchFits(d)
  BY DEF BaseInv
<1> DEFINE b == remote
<1>7. \A n \in ChangesOf(b) : n \in ChangesOf(remote) /\ dirty[c] = {}
  BY <1>1
<1>8. QED
  BY <1>1, <1>2, <1>3, <1>4, <1>5, <1>6, <1>7, BranchReplaced

\* A rebase keeps what the branch had, and follows all of the remote.
LEMMA RebaseGrows ==
    ASSUME BaseInv, NEW c \in Clones, Rebases(c)
    PROVE  HistoriesGrow /\ ChangesAreOnce' /\ \A d \in Clones : BranchFits(d)'
<1>1. TypeOK /\ ChangesAreOnce /\ UnbegunAreNowhere /\ \A d \in Clones : BranchFits(d)
  BY DEF BaseInv
<1>2. PICK k : ForksAt(c, k)
  BY <1>1 DEF BranchFits, ForksAt
<1>3. remote \in Histories /\ Len(remote) \in Nat /\ Len(branch[c]) \in Nat
  BY <1>1, HistoriesTyped, CommitsOf
<1>4. /\ Rebased(c) \in Histories
      /\ Len(remote) \in 0..Len(Rebased(c)) /\ Len(remote) <= Len(remote)
      /\ \A i \in 1..Len(remote) : Rebased(c)[i] = remote[i]
  BY <1>1, <1>2, <1>3, RebasedIs DEF ForksAt
<1>5. /\ ChangesOf(Rebased(c)) = ChangesOf(remote) \cup ChangesOf(branch[c])
      /\ Shared!Distinct(Rebased(c))
      /\ \A i \in (Len(remote) + 1)..Len(Rebased(c)) :
            \A n \in Rebased(c)[i] : author[n] = c /\ n \notin ChangesOf(remote)
  BY <1>1, <1>2, RebasedFits
<1>6. dirty[c] = {} /\ branch' = [branch EXCEPT ![c] = Rebased(c)] /\ UNCHANGED <<remote, author>>
  BY DEF Rebases
<1>7. QED
  BY <1>1, <1>4, <1>5, <1>6, BranchReplaced

\* A commit adds what no history had, to the branch or to the detached HEAD.
LEMMA CommitGrows ==
    ASSUME BaseInv, NEW c \in Clones, pc[c] = "committing", CommitLands(c)
    PROVE  HistoriesGrow /\ ChangesAreOnce' /\ \A d \in Clones : BranchFits(d)'
<1>1. TypeOK /\ ChangesAreOnce /\ UnbegunAreNowhere /\ \A d \in Clones : BranchFits(d)
  BY DEF BaseInv
<1>2. UNCHANGED <<remote, author>>
  BY DEF CommitLands, changes
<1>3. CASE stuck[c]
  <2>1. branch' = branch
    BY <1>3 DEF CommitLands
  <2>2. HistoriesGrow
    BY <1>1, <1>2, <2>1 DEF HistoriesGrow, TypeOK
  <2>3. QED
    BY <1>1, <1>2, <2>1, <2>2, FitsUntouched DEF ChangesAreOnce, Shared!Distinct, Shared!Range
<1>4. CASE ~stuck[c]
  <2> DEFINE b == branch[c]
             e == Staged(c)
  <2>1. branch' = [branch EXCEPT ![c] = Append(b, e)] /\ dirty'[c] = dirty[c] \ e
    BY <1>1, <1>4 DEF CommitLands, TypeOK
  <2>2. e # {} /\ e \subseteq dirty[c] /\ dirty[c] \subseteq Changes
    BY <1>1 DEF Staged, BaseInv, ToolKnows, TypeOK
  <2>3. \A n \in e : /\ author[n] = c
                     /\ n \notin ChangesOf(b) /\ n \notin ChangesOf(remote)
    BY <2>2 DEF BaseInv, TreeKnows
  <2>4. b \in Histories /\ Len(b) \in Nat /\ e \in (SUBSET Changes) \ {{}} /\ Len(remote) \in Nat
    BY <1>1, <2>2, HistoriesTyped, CommitsOf
  <2>5. PICK k : ForksAt(c, k)
    BY <1>1 DEF BranchFits, ForksAt
  <2>6. /\ k \in 0..Len(b) /\ k <= Len(remote) /\ \A i \in 1..k : b[i] = remote[i]
        /\ \A i \in (k + 1)..Len(b) :
              \A n \in b[i] : author[n] = c /\ n \notin ChangesOf(remote)
    BY <2>5 DEF ForksAt
  <2> DEFINE a == Append(b, e)
  <2> HIDE DEF b, e
  <2>7. /\ a \in Histories /\ Len(a) = Len(b) + 1 /\ a[Len(b) + 1] = e
        /\ \A i \in 1..Len(b) : a[i] = b[i]
    BY <2>4, AppendProperties DEF Histories
  <2> HIDE DEF a
  <2>8. \A n : n \in ChangesOf(a) <=> n \in ChangesOf(b) \/ n \in e
    BY <2>4, AppendHas DEF a
  <2>9. Shared!Distinct(a)
    <3>1. \A i, j \in 1..Len(b) : i # j => b[i] \cap b[j] = {}
      BY <1>1, <2>4, DistinctMeans DEF ChangesAreOnce, b
    <3>2. \A i \in 1..Len(b) : b[i] \cap e = {}
      BY <2>3, <2>4, InHistory
    <3>3. \A i \in 1..Len(a) : i \in 1..Len(b) \/ i = Len(b) + 1
      BY <2>4, <2>7
    <3>4. \A i, j \in 1..Len(a) : i # j => a[i] \cap a[j] = {}
      BY <2>7, <3>1, <3>2, <3>3
    <3>5. QED
      BY <2>7, <3>4, DistinctMeans
  <2>10. /\ k \in 0..Len(a) /\ \A i \in 1..k : a[i] = remote[i]
         /\ \A i \in (k + 1)..Len(a) :
               \A n \in a[i] : author[n] = c /\ n \notin ChangesOf(remote)
    <3>1. /\ k \in 0..Len(a) /\ \A i \in 1..k : i \in 1..Len(b)
          /\ \A i \in (k + 1)..Len(a) : i \in (k + 1)..Len(b) \/ i = Len(b) + 1
          /\ \A i \in (k + 1)..Len(b) : i \in 1..Len(b)
      BY <2>4, <2>6, <2>7
    <3>2. \A i \in 1..k : a[i] = remote[i]
      BY <2>6, <2>7, <3>1
    <3>3. QED
      BY <2>3, <2>6, <2>7, <3>1, <3>2
  <2>11. branch' = [branch EXCEPT ![c] = a]
    BY <2>1 DEF a
  <2>12. /\ ChangesOf(branch[c]) \subseteq ChangesOf(a)
         /\ \A n \in ChangesOf(a) : n \in ChangesOf(branch[c]) \/ n \in dirty[c] \ dirty'[c]
    BY <2>1, <2>2, <2>8 DEF b
  <2>13. QED
    BY <1>1, <1>2, <2>6, <2>7, <2>9, <2>10, <2>11, <2>12, BranchReplaced
<1>5. QED
  BY <1>3, <1>4

\* A push gives the remote what one branch has more; of the other branches it has
\* no local commit, because those are of other clones.
LEMMA PushGrows ==
    ASSUME BaseInv, NEW c \in Clones, Pushes(c)
    PROVE  HistoriesGrow /\ ChangesAreOnce' /\ \A d \in Clones : BranchFits(d)'
<1>1. TypeOK /\ ChangesAreOnce /\ UnbegunAreNowhere /\ \A d \in Clones : BranchFits(d)
  BY DEF BaseInv
<1>2. /\ IsPrefix(remote, branch[c]) /\ remote' = branch[c]
      /\ UNCHANGED <<branch, author>>
  BY DEF Pushes, IsFastForward
<1>3. branch[c] \in Histories /\ remote \in Histories /\ Len(remote) \in Nat /\ Len(branch[c]) \in Nat
  BY <1>1, HistoriesTyped, CommitsOf
<1>4. \A i \in 1..Len(remote) : i \in 1..Len(branch[c]) /\ branch[c][i] = remote[i]
  BY <1>2, <1>3, PrefixMeans
<1>5. Len(remote) <= Len(branch[c])
  BY <1>2, <1>3, PrefixMeans
<1>6. ChangesOf(remote) \subseteq ChangesOf(branch[c])
  BY <1>3, <1>4, InHistory
<1>7. HistoriesGrow
  BY <1>1, <1>2, <1>3, <1>6 DEF HistoriesGrow, TypeOK
<1>8. ChangesAreOnce'
  BY <1>1, <1>2 DEF ChangesAreOnce, Shared!Distinct, Shared!Range
<1>9. ASSUME NEW d \in Clones
      PROVE  BranchFits(d)'
  <2>1. branch[d] \in Histories /\ Len(branch[d]) \in Nat
    BY <1>1, HistoriesTyped, CommitsOf
  <2>2. CASE d = c
    <3>1. ForksAt(c, Len(branch[c]))'
      BY <1>2, <1>3 DEF ForksAt
    <3>2. QED
      BY <2>2, <3>1 DEF BranchFits, ForksAt
  <2>3. CASE d # c
    <3>1. PICK k : ForksAt(d, k)
      BY <1>1 DEF BranchFits, ForksAt
    <3>2. \A n \in ChangesOf(branch[c]) : n \in ChangesOf(remote) \/ author[n] # d
      BY <1>1, <2>3, BranchHas
    <3>3. \A i \in (k + 1)..Len(branch[d]) :
             \A n \in branch[d][i] : author[n] = d /\ n \notin ChangesOf(branch[c])
      BY <3>1, <3>2 DEF ForksAt
    <3>4. k \in 0..Len(branch[d]) /\ k <= Len(branch[c])
      BY <1>3, <1>5, <2>1, <3>1 DEF ForksAt
    <3>5. \A i \in 1..k : branch[d][i] = branch[c][i]
      <4>1. \A i \in 1..k : i \in 1..Len(remote)
        BY <1>3, <2>1, <3>1 DEF ForksAt
      <4>2. QED
        BY <1>4, <3>1, <4>1 DEF ForksAt
    <3>6. ForksAt(d, k)'
      BY <1>2, <3>3, <3>4, <3>5 DEF ForksAt, ChangesOf, Range
    <3>7. QED
      BY <3>6 DEF BranchFits, ForksAt
  <2>4. QED
    BY <2>2, <2>3
<1>10. QED
  BY <1>7, <1>8, <1>9

\* Who made what has begun does not change.
LEMMA AuthorsStand ==
    ASSUME TypeOK, [Next]_vars
    PROVE  /\ begun <= begun'
           /\ \A n \in Changes : n <= begun => author'[n] = author[n]
<1>1. begun \in Nat /\ Changes \subseteq Nat /\ author \in [Changes -> Clones]
  BY SyncAssumption DEF TypeOK, Changes
<1>2. CASE UNCHANGED changes
  BY <1>1, <1>2 DEF changes
<1>3. ASSUME NEW c \in Clones, NEW d \in Domains, StartWrite(c, d)
      PROVE  /\ begun <= begun'
             /\ \A n \in Changes : n <= begun => author'[n] = author[n]
  BY <1>1, <1>3 DEF StartWrite
<1>4. UNCHANGED changes \/ \E c \in Clones, d \in Domains : StartWrite(c, d)
  BY DEF Next, vars, ToolStep, Calm, StartSync, RefuseDiverged, FastForward, GoOn, WritePage,
         RejectInput, WriteFails, Commit, CommitFails, CommitLands, Pull, PullConflict,
         PullTimesOut, RebaseStops, PullFails, Abort, AbortFails, Push, PushFails,
         PushTimesOut, Crash, Resolve
<1>5. QED
  BY <1>2, <1>3, <1>4

\* All of it together.
LEMMA HistoriesKept ==
    ASSUME BaseInv, [Next]_vars
    PROVE  HistoriesGrow /\ ChangesAreOnce' /\ \A d \in Clones : BranchFits(d)'
<1>1. TypeOK /\ ChangesAreOnce /\ UnbegunAreNowhere /\ \A d \in Clones : BranchFits(d)
  BY DEF BaseInv
<1>2. CASE UNCHANGED <<remote, branch>>
  <2>1. HistoriesGrow
    BY <1>1, <1>2 DEF HistoriesGrow, TypeOK
  <2>2. ChangesAreOnce'
    BY <1>1, <1>2 DEF ChangesAreOnce, Shared!Distinct, Shared!Range
  <2>3. QED
    BY <1>1, <1>2, <2>1, <2>2, AuthorsStand, FitsUntouched
<1>3. QED
  BY <1>1, <1>2, HistoryCases, FastForwardGrows, RebaseGrows, PushGrows, CommitGrows

\* A change that no history of its own clone has, nor the remote, comes into one only
\* from its clone's working tree.
LEMMA NotYetCommitted ==
    ASSUME BaseInv, HistoriesGrow, NEW c \in Clones, NEW n, author[n] = c,
           n \notin ChangesOf(branch[c]), n \notin ChangesOf(remote)
    PROVE  /\ n \notin ChangesOf(remote')
           /\ pc[c] # "committing" \/ n \notin dirty[c] \ dirty'[c] =>
                 n \notin ChangesOf(branch'[c])
<1>1. \A d \in Clones : n \notin ChangesOf(branch[d])
  BY BranchHas DEF BaseInv
<1>2. QED
  BY <1>1 DEF HistoriesGrow

-----------------------------------------------------------------------------
(* The tools *)

Acts(c) ==
    \/ \E d \in Domains : StartWrite(c, d)
    \/ StartSync(c) \/ ToolStep(c) \/ Crash(c) \/ Resolve(c)

Quiet == UNCHANGED <<remote, repository, tool, changes, told, adrift>> /\ calm' \in {calm, TRUE}

\* A step is one clone's, or the outages end.
LEMMA StepCases ==
    ASSUME [Next]_vars
    PROVE  Quiet \/ \E c \in Clones : Acts(c)
BY DEF Next, vars, Calm, Acts, Quiet

\* A clone's step touches no other clone's tool or working tree, and tells only
\* the caller of its own change.
LEMMA OthersStand ==
    ASSUME TypeOK, NEW c \in Clones, Acts(c)
    PROVE  /\ \A d \in Clones : d # c =>
                 /\ pc'[d] = pc[d] /\ job'[d] = job[d] /\ dirty'[d] = dirty[d]
                 /\ stuck'[d] = stuck[d]
           /\ adrift \subseteq adrift'
           /\ \A n \in Changes : n # job[c] => told'[n] = told[n]
<1>1. /\ DOMAIN told = Changes /\ DOMAIN pc = Clones /\ DOMAIN job = Clones
      /\ DOMAIN dirty = Clones /\ DOMAIN stuck = Clones
  BY DEF TypeOK
<1>2. CASE \/ \E d \in Domains : StartWrite(c, d)
           \/ StartSync(c) \/ Crash(c) \/ Resolve(c)
  BY <1>1, <1>2 DEF StartWrite, StartSync, Crash, Resolve, repository, tool
<1>3. CASE RefuseDiverged(c) \/ FastForward(c) \/ GoOn(c) \/ WritePage(c)
           \/ RejectInput(c) \/ WriteFails(c)
  BY <1>1, <1>3 DEF RefuseDiverged, FastForward, GoOn, WritePage, RejectInput, WriteFails,
                    Tell, Goto, repository, tool
<1>4. CASE Commit(c) \/ CommitFails(c)
  BY <1>1, <1>4 DEF Commit, CommitFails, CommitLands, SayUncommitted, Tell, repository
<1>5. CASE Pull(c) \/ PullConflict(c) \/ PullTimesOut(c) \/ PullFails(c)
  BY <1>1, <1>5 DEF Pull, PullConflict, PullTimesOut, PullFails, RebaseStops, Retry, GiveUp,
                    Goto, Tell, repository
<1>6. CASE Abort(c) \/ AbortFails(c)
  BY <1>1, <1>6 DEF Abort, AbortFails, GiveUp, Tell, repository
<1>7. CASE Push(c) \/ PushFails(c) \/ PushTimesOut(c)
  BY <1>1, <1>7 DEF Push, PushFails, PushTimesOut, Retry, GiveUp, Tell, repository
<1>8. QED
  BY <1>2, <1>3, <1>4, <1>5, <1>6, <1>7 DEF Acts, ToolStep

\* What a clone's step says of its own change: pushed only as it pushes, committed
\* only once it pulls, and uncommitted of what it was committing; and then it is idle.
LEMMA AnswerCases ==
    ASSUME TypeOK, NEW c \in Clones, Acts(c)
    PROVE  \/ told' = told
           \/ /\ pc'[c] = "idle" /\ job'[c] = 0
              /\ \/ pc[c] \in {"checking", "writing"} /\ told'[job[c]] \in {"refused", "failed"}
                                                     /\ dirty' = dirty
                 \/ pc[c] = "committing" /\ told'[job[c]] = "uncommitted"
                 \/ /\ pc[c] \in {"pulling", "aborting", "pushing"}
                    /\ told'[job[c]] = "committed"
                 \/ pc[c] = "pushing" /\ told'[job[c]] = "pushed" /\ remote' = branch[c]
<1>1. /\ DOMAIN told = Changes /\ DOMAIN pc = Clones /\ DOMAIN job = Clones
      /\ job[c] # 0 => job[c] \in Changes
  BY SyncAssumption DEF TypeOK, Changes
<1>2. CASE \/ \E d \in Domains : StartWrite(c, d)
           \/ StartSync(c) \/ Crash(c) \/ Resolve(c)
  BY <1>1, <1>2 DEF StartWrite, StartSync, Crash, Resolve, repository, tool
<1>3. CASE RefuseDiverged(c) \/ FastForward(c) \/ GoOn(c) \/ WritePage(c)
           \/ RejectInput(c) \/ WriteFails(c)
  BY <1>1, <1>3 DEF RefuseDiverged, FastForward, GoOn, WritePage, RejectInput, WriteFails,
                    Tell, Goto, repository, tool
<1>4. CASE Commit(c) \/ CommitFails(c)
  BY <1>1, <1>4 DEF Commit, CommitFails, CommitLands, SayUncommitted, Tell, repository
<1>5. CASE Pull(c) \/ PullConflict(c) \/ PullTimesOut(c) \/ PullFails(c)
  BY <1>1, <1>5 DEF Pull, PullConflict, PullTimesOut, PullFails, RebaseStops, Retry, GiveUp,
                    Goto, Tell, repository
<1>6. CASE Abort(c) \/ AbortFails(c)
  BY <1>1, <1>6 DEF Abort, AbortFails, GiveUp, Tell, repository
<1>7. CASE Push(c) \/ PushFails(c) \/ PushTimesOut(c)
  BY <1>1, <1>7 DEF Push, PushFails, PushTimesOut, Retry, GiveUp, Tell, repository
<1>8. QED
  BY <1>2, <1>3, <1>4, <1>5, <1>6, <1>7 DEF Acts, ToolStep

\* What is in a clone's working tree was there before, or is what it writes.
LEMMA DirtyGrows ==
    ASSUME TypeOK, NEW c \in Clones, Acts(c)
    PROVE  \/ dirty'[c] \subseteq dirty[c]
           \/ /\ pc[c] = "writing" /\ dirty'[c] = dirty[c] \cup {job[c]}
              /\ pc'[c] = "committing" /\ told' = told /\ UNCHANGED <<remote, branch>>
<1>1. DOMAIN pc = Clones /\ DOMAIN dirty = Clones
  BY DEF TypeOK
<1>2. CASE \/ \E d \in Domains : StartWrite(c, d)
           \/ StartSync(c) \/ Crash(c) \/ Resolve(c)
  BY <1>1, <1>2 DEF StartWrite, StartSync, Crash, Resolve, repository
<1>3. CASE RefuseDiverged(c) \/ FastForward(c) \/ GoOn(c) \/ WritePage(c)
           \/ RejectInput(c) \/ WriteFails(c)
  BY <1>1, <1>3 DEF RefuseDiverged, FastForward, GoOn, WritePage, RejectInput, WriteFails,
                    Goto, repository
<1>4. CASE Commit(c) \/ CommitFails(c)
  BY <1>1, <1>4 DEF Commit, CommitFails, CommitLands, repository
<1>5. CASE Pull(c) \/ PullConflict(c) \/ PullTimesOut(c) \/ PullFails(c)
  BY <1>1, <1>5 DEF Pull, PullConflict, PullTimesOut, PullFails, RebaseStops, repository
<1>6. CASE Abort(c) \/ AbortFails(c)
  BY <1>1, <1>6 DEF Abort, AbortFails, repository
<1>7. CASE Push(c) \/ PushFails(c) \/ PushTimesOut(c)
  BY <1>1, <1>7 DEF Push, PushFails, PushTimesOut, repository
<1>8. QED
  BY <1>2, <1>3, <1>4, <1>5, <1>6, <1>7 DEF Acts, ToolStep

\* A tool that goes on: how its label, its change and its tree move.
LEMMA ToolCases ==
    ASSUME TypeOK, NEW c \in Clones, Acts(c), pc'[c] # "idle"
    PROVE  \/ /\ pc'[c] = "checking" /\ job'[c] = begun + 1 /\ begun < MaxWrites
              /\ author'[begun + 1] = c /\ begun' = begun + 1
              /\ UNCHANGED <<remote, repository, told>>
           \/ pc'[c] = "pulling" /\ job'[c] = job[c] /\ pc[c] = "idle"
           \/ /\ pc[c] = "checking" /\ pc'[c] = "writing" /\ job'[c] = job[c]
              /\ UNCHANGED <<remote, dirty, told, changes>>
           \/ /\ pc[c] = "writing" /\ pc'[c] = "committing" /\ job'[c] = job[c]
              /\ dirty'[c] = dirty[c] \cup {job[c]} /\ UNCHANGED <<told, changes>>
           \/ /\ pc[c] = "committing" /\ pc'[c] = "pulling" /\ job'[c] = job[c]
              /\ CommitLands(c) /\ UNCHANGED told
           \/ /\ pc[c] \in {"pulling", "pushing"} /\ job'[c] = job[c]
              /\ pc'[c] \in {"pulling", "aborting", "pushing"}
              /\ pc'[c] = "pushing" => ~stuck[c]
              /\ stuck[c] => stuck'[c]
              /\ UNCHANGED <<dirty, told, changes>>
<1>1. DOMAIN pc = Clones /\ DOMAIN job = Clones /\ DOMAIN stuck = Clones
      /\ DOMAIN author = Changes /\ DOMAIN dirty = Clones
  BY DEF TypeOK
<1>2. CASE Resolve(c) \/ Crash(c) \/ RefuseDiverged(c) \/ RejectInput(c) \/ WriteFails(c)
           \/ CommitFails(c) \/ PullTimesOut(c) \/ Abort(c) \/ AbortFails(c) \/ Push(c)
           \/ PushTimesOut(c)
  BY <1>1, <1>2 DEF Resolve, Crash, RefuseDiverged, RejectInput, WriteFails, CommitFails,
       SayUncommitted, PullTimesOut, Abort, AbortFails, Push, PushTimesOut, GiveUp, Tell, tool
<1>3. CASE \E d \in Domains : StartWrite(c, d)
  <2>1. begun + 1 \in Changes \/ ~(begun < MaxWrites)
    BY SyncAssumption DEF TypeOK, Changes
  <2>2. QED
    BY <1>1, <1>3, <2>1 DEF StartWrite
<1>4. CASE StartSync(c)
  BY <1>1, <1>4 DEF StartSync
<1>5. CASE FastForward(c) \/ GoOn(c)
  BY <1>1, <1>5 DEF FastForward, GoOn, Goto, repository
<1>6. CASE WritePage(c)
  BY <1>1, <1>6 DEF WritePage, Goto
<1>7. CASE Commit(c)
  BY <1>1, <1>7 DEF Commit
<1>8. CASE Pull(c) \/ PullConflict(c)
  BY <1>1, <1>8 DEF Pull, PullConflict, RebaseStops, Goto
<1>9. CASE PullFails(c) \/ PushFails(c)
  BY <1>1, <1>9 DEF PullFails, PushFails, Retry, GiveUp, Tell, Goto, repository
<1>10. QED
  BY <1>2, <1>3, <1>4, <1>5, <1>6, <1>7, <1>8, <1>9 DEF Acts, ToolStep

\* The number of changes begun stays a number.
LEMMA BegunIsNat ==
    ASSUME TypeOK, NEW c \in Clones, Acts(c)
    PROVE  begun' \in Nat
BY SyncAssumption DEF Acts, StartWrite, StartSync, ToolStep, Crash, Resolve, RefuseDiverged,
   FastForward, GoOn, WritePage, RejectInput, WriteFails, Commit, CommitFails, CommitLands,
   Pull, PullConflict, PullTimesOut, RebaseStops, PullFails, Abort, AbortFails, Push,
   PushFails, PushTimesOut, changes, TypeOK

\* What is being committed is in what the commit takes.
LEMMA CommitTakes ==
    ASSUME BaseInv, NEW c \in Clones, pc[c] = "committing", CommitLands(c)
    PROVE  /\ job[c] \in Staged(c) /\ job[c] \notin dirty'[c] /\ stuck'[c] = stuck[c]
           /\ stuck[c] => job[c] \in adrift'
           /\ ~stuck[c] => job[c] \in ChangesOf(branch'[c])
<1>1. job[c] \in dirty[c] /\ job[c] # 0
  BY DEF BaseInv, ToolKnows
<1>2. job[c] \in Staged(c)
  BY <1>1 DEF Staged
<1>3. dirty'[c] = dirty[c] \ Staged(c) /\ stuck' = stuck
  BY DEF CommitLands, BaseInv, TypeOK
<1>4. stuck[c] => job[c] \in adrift'
  BY <1>2 DEF CommitLands
<1>5. ASSUME ~stuck[c]
      PROVE  job[c] \in ChangesOf(branch'[c])
  <2>1. branch'[c] = Append(branch[c], Staged(c)) /\ branch[c] \in Histories
    BY <1>5 DEF CommitLands, BaseInv, TypeOK
  <2>2. Staged(c) \in (SUBSET Changes) \ {{}}
    BY <1>2 DEF Staged, BaseInv, TypeOK
  <2>3. QED
    BY <1>2, <2>1, <2>2, AppendHas
<1>6. QED
  BY <1>2, <1>3, <1>4, <1>5

\* What the other clones' tools know, stays so.
LEMMA OtherToolsKept ==
    ASSUME BaseInv, [Next]_vars, HistoriesGrow, NEW c \in Clones, Acts(c),
           NEW d \in Clones, d # c
    PROVE  ToolKnows(d)'
<1>1. TypeOK /\ ToolKnows(d) /\ ToolKnows(c)
  BY DEF BaseInv
<1>2. /\ pc'[d] = pc[d] /\ job'[d] = job[d] /\ dirty'[d] = dirty[d] /\ stuck'[d] = stuck[d]
      /\ adrift \subseteq adrift'
      /\ \A n \in Changes : n # job[c] => told'[n] = told[n]
  BY <1>1, OthersStand
<1>3. CASE job[d] = 0
  BY <1>1, <1>2, <1>3 DEF ToolKnows
<1>4. CASE job[d] # 0
  <2>1. job[d] \in Changes /\ job[d] <= begun /\ author[job[d]] = d /\ told[job[d]] = "nothing"
    BY <1>1, <1>4, SyncAssumption DEF ToolKnows, TypeOK, Changes
  <2>2. job[d] # job[c]
    BY <1>1, <1>4, <2>1 DEF ToolKnows
  <2>3. author'[job[d]] = d /\ told'[job[d]] = "nothing" /\ job[d] <= begun'
    <3>1. begun \in Nat /\ begun <= begun' /\ author'[job[d]] = d
      BY <1>1, <2>1, AuthorsStand DEF TypeOK
    <3>2. begun' \in Nat
      BY <1>1, BegunIsNat
    <3>3. job[d] \in Nat
      BY <1>1 DEF TypeOK
    <3>4. QED
      BY <1>2, <2>1, <2>2, <3>1, <3>2, <3>3
  <2>4. pc[d] \in {"checking", "writing"} =>
           job[d] \notin ChangesOf(branch'[d]) \cup ChangesOf(remote')
    BY <1>1, <1>2, <1>4, <2>1, NotYetCommitted DEF ToolKnows
  <2>5. ChangesOf(branch[d]) \subseteq ChangesOf(branch'[d])
    BY DEF HistoriesGrow
  <2>6. QED
    BY <1>1, <1>2, <1>4, <2>3, <2>4, <2>5 DEF ToolKnows, ChangesOf, Range
<1>5. QED
  BY <1>3, <1>4

\* A tool that has answered, or died, has no change any more.
LEMMA IdleHasNoJob ==
    ASSUME TypeOK, NEW c \in Clones, ToolKnows(c), Acts(c), pc'[c] = "idle"
    PROVE  job'[c] = 0
<1>1. DOMAIN pc = Clones /\ DOMAIN job = Clones
  BY DEF TypeOK
<1>2. CASE Resolve(c)
  BY <1>2 DEF Resolve, tool, ToolKnows
<1>3. CASE \/ \E d \in Domains : StartWrite(c, d)
           \/ StartSync(c) \/ FastForward(c) \/ GoOn(c) \/ WritePage(c) \/ Commit(c)
           \/ Pull(c) \/ PullConflict(c)
  BY <1>1, <1>3 DEF StartWrite, StartSync, FastForward, GoOn, WritePage, Commit, Pull,
                    PullConflict, Goto
<1>4. CASE \/ Crash(c) \/ RefuseDiverged(c) \/ RejectInput(c) \/ WriteFails(c)
           \/ CommitFails(c) \/ PullTimesOut(c) \/ Abort(c) \/ AbortFails(c) \/ Push(c)
           \/ PushTimesOut(c)
  BY <1>1, <1>4 DEF Crash, RefuseDiverged, RejectInput, WriteFails, CommitFails,
       SayUncommitted, PullTimesOut, Abort, AbortFails, Push, PushTimesOut, GiveUp, Tell
<1>5. CASE PullFails(c) \/ PushFails(c)
  BY <1>1, <1>5 DEF PullFails, PushFails, Retry, GiveUp, Tell, Goto
<1>6. QED
  BY <1>2, <1>3, <1>4, <1>5 DEF Acts, ToolStep

\* What the tool that moves knows.
LEMMA ToolKept ==
    ASSUME BaseInv, [Next]_vars, HistoriesGrow, NEW c \in Clones, Acts(c)
    PROVE  ToolKnows(c)'
<1> DEFINE j == job[c]
<1>1. TypeOK /\ ToolKnows(c) /\ TreeKnows(c) /\ UnbegunAreNowhere
  BY DEF BaseInv
<1>2. CASE pc'[c] = "idle"
  <2>1. job'[c] = 0
    BY <1>1, <1>2, IdleHasNoJob
  <2>2. QED
    BY <1>2, <2>1 DEF ToolKnows
<1>3. CASE pc'[c] # "idle"
  <2>1. ChangesOf(branch[c]) \subseteq ChangesOf(branch'[c]) /\ adrift \subseteq adrift'
    BY <1>1, OthersStand DEF HistoriesGrow
  <2>2. CASE /\ pc'[c] = "checking" /\ job'[c] = begun + 1 /\ begun < MaxWrites
             /\ author'[begun + 1] = c /\ begun' = begun + 1
             /\ UNCHANGED <<remote, repository, told>>
    <3>1. begun \in Nat /\ begun + 1 \in Changes /\ begun + 1 > begun
      BY <1>1, <2>2, SyncAssumption DEF TypeOK, Changes
    <3>2. /\ told[begun + 1] = "nothing" /\ begun + 1 \notin ChangesOf(remote)
          /\ begun + 1 \notin ChangesOf(branch[c])
      BY <1>1, <3>1 DEF UnbegunAreNowhere
    <3>3. begun + 1 \notin dirty[c]
      BY <1>1, <3>1 DEF TreeKnows
    <3>4. QED
      BY <2>2, <3>1, <3>2, <3>3 DEF ToolKnows, repository, ChangesOf, Range
  <2>3. CASE pc'[c] = "pulling" /\ job'[c] = j /\ pc[c] = "idle"
    BY <1>1, <2>3 DEF ToolKnows
  <2>4. CASE /\ pc[c] = "checking" /\ pc'[c] = "writing" /\ job'[c] = j
             /\ UNCHANGED <<remote, dirty, told, changes>>
    <3>1. j # 0 /\ author[j] = c /\ j \notin ChangesOf(branch[c]) \cup ChangesOf(remote)
      BY <1>1, <2>4 DEF ToolKnows
    <3>2. j \notin ChangesOf(branch'[c]) \cup ChangesOf(remote')
      BY <2>4, <3>1, NotYetCommitted
    <3>3. QED
      BY <1>1, <2>4, <3>1, <3>2 DEF ToolKnows, changes, ChangesOf, Range
  <2>5. CASE /\ pc[c] = "writing" /\ pc'[c] = "committing" /\ job'[c] = j
             /\ dirty'[c] = dirty[c] \cup {j} /\ UNCHANGED <<told, changes>>
    BY <1>1, <2>5 DEF ToolKnows, changes
  <2>6. CASE /\ pc[c] = "committing" /\ pc'[c] = "pulling" /\ job'[c] = j
             /\ CommitLands(c) /\ UNCHANGED told
    BY <1>1, <2>6, CommitTakes DEF ToolKnows, CommitLands, changes, ChangesOf, Range
  <2>7. CASE /\ pc[c] \in {"pulling", "pushing"} /\ job'[c] = j
             /\ pc'[c] \in {"pulling", "aborting", "pushing"}
             /\ pc'[c] = "pushing" => ~stuck[c]
             /\ stuck[c] => stuck'[c]
             /\ UNCHANGED <<dirty, told, changes>>
    BY <1>1, <2>1, <2>7 DEF ToolKnows, changes, ChangesOf, Range
  <2>8. QED
    BY <1>1, <1>3, <2>2, <2>3, <2>4, <2>5, <2>6, <2>7, ToolCases
<1>4. QED
  BY <1>2, <1>3

\* What is left in the working trees, of the clone that moves and of the others.
LEMMA TreesKept ==
    ASSUME BaseInv, [Next]_vars, HistoriesGrow, NEW c \in Clones, Acts(c),
           NEW d \in Clones
    PROVE  TreeKnows(d)'
<1>1. /\ TypeOK /\ ToolKnows(c) /\ ToolKnows(d) /\ TreeKnows(d)
      /\ begun \in Nat /\ Changes \subseteq Nat /\ dirty[d] \subseteq Changes
  <2>1. TypeOK /\ ToolKnows(c) /\ ToolKnows(d) /\ TreeKnows(d)
    BY DEF BaseInv
  <2>2. begun \in Nat /\ dirty[d] \subseteq Changes
    BY <2>1, SyncAssumption DEF TypeOK
  <2>3. QED
    BY <2>1, <2>2, SyncAssumption DEF Changes
<1>2. begun <= begun' /\ begun' \in Nat
  BY <1>1, BegunIsNat, AuthorsStand
<1>3. ASSUME NEW n \in dirty[d], n \in dirty'[d]
      PROVE  /\ n <= begun' /\ author'[n] = d /\ told'[n] \in {"uncommitted", "nothing"}
             /\ n \notin ChangesOf(branch'[d]) \cup ChangesOf(remote')
  <2>1. /\ n \in Changes /\ n \in Nat /\ n <= begun /\ author[n] = d
        /\ told[n] \in {"uncommitted", "nothing"}
        /\ n \notin ChangesOf(branch[d]) \cup ChangesOf(remote)
    BY <1>1, <1>3 DEF TreeKnows
  <2>2. n <= begun' /\ author'[n] = d
    BY <1>1, <1>2, <2>1, AuthorsStand
  <2>3. n \notin ChangesOf(branch'[d]) \cup ChangesOf(remote')
    BY <1>3, <2>1, NotYetCommitted
  <2>4. CASE n # job[c]
    BY <1>1, <2>1, <2>2, <2>3, <2>4, OthersStand
  <2>5. CASE n = job[c] /\ n # 0
    <3>1. d = c /\ pc[c] = "committing"
      BY <1>1, <1>3, <2>1, <2>5 DEF ToolKnows
    <3>2. told'[n] = told[n] \/ told'[n] = "uncommitted"
      BY <1>1, <2>5, <3>1, AnswerCases
    <3>3. QED
      BY <2>1, <2>2, <2>3, <3>2
  <2>6. n # 0
    BY <2>1 DEF Changes
  <2>7. QED
    BY <2>4, <2>5, <2>6
<1>4. ASSUME NEW n \in dirty'[d], n \notin dirty[d]
      PROVE  /\ n <= begun' /\ author'[n] = d /\ told'[n] \in {"uncommitted", "nothing"}
             /\ n \notin ChangesOf(branch'[d]) \cup ChangesOf(remote')
  <2>1. d = c
    BY <1>1, <1>4, OthersStand
  <2>2. /\ pc[c] = "writing" /\ n = job[c] /\ told' = told
        /\ UNCHANGED <<remote, branch>>
    BY <1>1, <1>4, <2>1, DirtyGrows
  <2>3. /\ n # 0 /\ n \in Nat /\ n \in Changes /\ n <= begun /\ author[n] = c
        /\ told[n] = "nothing"
        /\ n \notin ChangesOf(branch[c]) \cup ChangesOf(remote)
    BY <1>1, <2>2, SyncAssumption DEF ToolKnows, TypeOK, Changes
  <2>4. n <= begun' /\ author'[n] = c
    BY <1>1, <1>2, <2>3, AuthorsStand
  <2>5. QED
    BY <2>1, <2>2, <2>3, <2>4
<1>5. QED
  BY <1>3, <1>4 DEF TreeKnows, ChangesOf, Range

\* What has not begun stays nowhere.
LEMMA UnbegunKept ==
    ASSUME BaseInv, [Next]_vars, HistoriesGrow, NEW c \in Clones, Acts(c)
    PROVE  UnbegunAreNowhere'
<1>1. /\ TypeOK /\ ToolKnows(c) /\ \A d \in Clones : TreeKnows(d)
      /\ begun \in Nat /\ Changes \subseteq Nat
  BY SyncAssumption DEF BaseInv, TypeOK, Changes
<1>2. begun <= begun' /\ begun' \in Nat
  BY <1>1, BegunIsNat, AuthorsStand
<1>3. ASSUME NEW n \in Changes, n > begun'
      PROVE  /\ told'[n] = "nothing" /\ n \notin ChangesOf(remote')
             /\ \A d \in Clones : n \notin ChangesOf(branch'[d])
  <2>1. n > begun /\ n \in Nat
    BY <1>1, <1>2, <1>3
  <2>2. /\ told[n] = "nothing" /\ n \notin ChangesOf(remote)
        /\ \A d \in Clones : n \notin ChangesOf(branch[d])
    BY <2>1 DEF BaseInv, UnbegunAreNowhere
  <2>3. \A d \in Clones : n \notin dirty[d]
    BY <1>1, <2>1 DEF TreeKnows
  <2>4. n # job[c]
    BY <1>1, <2>1 DEF ToolKnows
  <2>5. told'[n] = "nothing"
    BY <1>1, <2>2, <2>4, OthersStand
  <2>6. QED
    BY <2>2, <2>3, <2>5 DEF HistoriesGrow
<1>4. QED
  BY <1>3 DEF UnbegunAreNowhere, ChangesOf, Range

\* A change that is said to be committed is on its clone's branch, or was committed
\* while HEAD was detached.
LEMMA CommitsStand ==
    ASSUME BaseInv, [Next]_vars, HistoriesGrow, NEW c \in Clones, Acts(c)
    PROVE  CommitOnBranchStands'
<1>1. TypeOK /\ ToolKnows(c) /\ UnbegunAreNowhere /\ CommitOnBranchStands
  BY DEF BaseInv
<1>2. ASSUME NEW n \in Changes, told'[n] \in {"committed", "pushed"}, n \notin adrift'
      PROVE  n \in ChangesOf(branch'[author'[n]])
  <2>1. n \notin adrift
    BY <1>1, <1>2, OthersStand
  <2>2. CASE told'[n] = told[n]
    <3>1. n <= begun
      BY <1>1, <1>2, <2>2, SyncAssumption DEF UnbegunAreNowhere, TypeOK, Changes
    <3>2. author'[n] = author[n] /\ author[n] \in Clones
      BY <1>1, <3>1, AuthorsStand DEF TypeOK
    <3>3. n \in ChangesOf(branch[author[n]])
      BY <1>1, <1>2, <2>1, <2>2 DEF CommitOnBranchStands
    <3>4. QED
      BY <3>2, <3>3 DEF HistoriesGrow
  <2>3. CASE told'[n] # told[n]
    <3>1. n = job[c]
      BY <1>1, <2>3, OthersStand
    <3>2. pc[c] \in {"pulling", "aborting", "pushing"}
      BY <1>1, <1>2, <2>3, <3>1, AnswerCases
    <3>3. n # 0 /\ n <= begun /\ author[n] = c /\ n \in ChangesOf(branch[c])
      BY <1>1, <2>1, <3>1, <3>2 DEF ToolKnows, Changes
    <3>4. author'[n] = c
      BY <1>1, <3>3, AuthorsStand
    <3>5. QED
      BY <3>3, <3>4 DEF HistoriesGrow
  <2>4. QED
    BY <2>2, <2>3
<1>3. QED
  BY <1>2 DEF CommitOnBranchStands, ChangesOf, Range

\* A change that is said to be pushed is in the remote.
LEMMA PushesStand ==
    ASSUME BaseInv, [Next]_vars, HistoriesGrow, NEW c \in Clones, Acts(c)
    PROVE  PushedIsShared'
<1>1. TypeOK /\ ToolKnows(c) /\ PushedIsShared
  BY DEF BaseInv
<1>2. ASSUME NEW n \in Changes, told'[n] = "pushed"
      PROVE  n \in ChangesOf(remote')
  <2>1. CASE told'[n] = told[n]
    BY <1>1, <1>2, <2>1 DEF PushedIsShared, HistoriesGrow
  <2>2. CASE told'[n] # told[n]
    <3>1. n = job[c]
      BY <1>1, <2>2, OthersStand
    <3>2. pc[c] = "pushing" /\ remote' = branch[c]
      BY <1>1, <1>2, <2>2, <3>1, AnswerCases
    <3>3. n \in ChangesOf(branch[c])
      BY <1>1, <3>1, <3>2 DEF ToolKnows, Changes
    <3>4. QED
      BY <3>2, <3>3
  <2>3. QED
    BY <2>1, <2>2
<1>3. QED
  BY <1>2 DEF PushedIsShared, ChangesOf, Range

-----------------------------------------------------------------------------
(* Types *)

\* The commits of a rebase that has stopped.
LEMMA StoppedIsHistory ==
    ASSUME BaseInv, NEW c \in Clones, NEW k \in 0..(Len(Local(c)) - 1)
    PROVE  remote \o SubSeq(Local(c), 1, k) \in Histories
<1>1. TypeOK /\ BranchFits(c)
  BY DEF BaseInv
<1>2. PICK f : ForksAt(c, f)
  BY <1>1 DEF BranchFits, ForksAt
<1>3. branch[c] \in Histories /\ remote \in Histories /\ Len(branch[c]) \in Nat /\ f \in Nat
  BY <1>1, <1>2, HistoriesTyped, CommitsOf DEF ForksAt
<1>4. Local(c) \in Histories
  <2>1. Local(c) = SubSeq(branch[c], f + 1, Len(branch[c]))
    BY <1>1, <1>2, ForkFits DEF Local
  <2>2. QED
    BY <1>3, <2>1, PartOf
<1>5. k \in Nat /\ k <= Len(Local(c))
  BY <1>4, CommitsOf
<1>6. SubSeq(Local(c), 1, k) \in Histories
  BY <1>4, <1>5, PartOf
<1>7. QED
  BY <1>3, <1>6, ConcatProperties DEF Histories

\* A detached HEAD is a history too, wherever a rebase has stopped.
LEMMA DetachedTyped ==
    ASSUME BaseInv, NEW c \in Clones, Acts(c)
    PROVE  detached' \in [Clones -> Histories] /\ stuck' \in [Clones -> BOOLEAN]
<1>1. /\ TypeOK /\ detached \in [Clones -> Histories] /\ stuck \in [Clones -> BOOLEAN]
  BY DEF BaseInv, TypeOK
<1>2. CASE Commit(c) \/ CommitFails(c)
  <2>1. pc[c] = "committing"
    BY <1>2 DEF Commit, CommitFails
  <2>2. CASE UNCHANGED <<detached, stuck>>
    BY <1>1, <2>2
  <2>3. CASE CommitLands(c)
    <3>1. Staged(c) \in (SUBSET Changes) \ {{}}
      BY <1>1, <2>1, <2>3, CommitTakes DEF Staged, TypeOK
    <3>2. Append(detached[c], Staged(c)) \in Histories
      BY <1>1, <3>1, AppendProperties DEF Histories
    <3>3. QED
      BY <1>1, <2>3, <3>2 DEF CommitLands
  <2>4. QED
    BY <1>2, <2>2, <2>3 DEF Commit, CommitFails, repository
<1>3. CASE PullConflict(c) \/ PullTimesOut(c)
  <2>1. RebaseStops(c)
    BY <1>3 DEF PullConflict, PullTimesOut
  <2>2. QED
    BY <1>1, <2>1, StoppedIsHistory DEF RebaseStops
<1>4. CASE Abort(c)
  <2>1. <<>> \in Histories
    BY EmptySeq DEF Histories
  <2>2. QED
    BY <1>1, <1>4, <2>1 DEF Abort
<1>5. CASE \/ \E d \in Domains : StartWrite(c, d)
           \/ StartSync(c) \/ Crash(c) \/ Resolve(c)
           \/ RefuseDiverged(c) \/ FastForward(c) \/ GoOn(c) \/ WritePage(c)
           \/ RejectInput(c) \/ WriteFails(c) \/ Pull(c) \/ PullFails(c)
           \/ AbortFails(c) \/ Push(c) \/ PushFails(c) \/ PushTimesOut(c)
  BY <1>1, <1>5 DEF StartWrite, StartSync, Crash, Resolve, RefuseDiverged, FastForward, GoOn,
     WritePage, RejectInput, WriteFails, Pull, PullFails, AbortFails, Push, PushFails,
     PushTimesOut, repository
<1>6. QED
  BY <1>2, <1>3, <1>4, <1>5 DEF Acts, ToolStep

ToolOK ==
    /\ pc \in [Clones -> {"idle", "checking", "writing", "committing", "pulling",
                          "aborting", "pushing"}]
    /\ job \in [Clones -> 0..MaxWrites] /\ attempt \in [Clones -> 0..Attempts]
    /\ told \in [Changes -> {"nothing", "refused", "failed", "uncommitted",
                             "committed", "pushed"}]

ChangesOK ==
    /\ begun \in 0..MaxWrites
    /\ author \in [Changes -> Clones] /\ place \in [Changes -> Domains]

\* An answer keeps the types,
LEMMA TellTyped ==
    ASSUME TypeOK, NEW c \in Clones,
           NEW a \in {"refused", "failed", "uncommitted", "committed", "pushed"}, Tell(c, a)
    PROVE  ToolOK'
<1> DEFINE Answers == {"nothing", "refused", "failed", "uncommitted", "committed", "pushed"}
           Labels == {"idle", "checking", "writing", "committing", "pulling",
                      "aborting", "pushing"}
<1>1. /\ told \in [Changes -> Answers] /\ pc \in [Clones -> Labels]
      /\ job \in [Clones -> 0..MaxWrites] /\ attempt \in [Clones -> 0..Attempts]
      /\ 0 \in 0..MaxWrites /\ 0 \in 0..Attempts /\ a \in Answers /\ "idle" \in Labels
  BY SyncAssumption DEF TypeOK
<1> HIDE DEF Answers, Labels
<1>2. told' \in [Changes -> Answers]
  BY <1>1 DEF Tell
<1>3. pc' \in [Clones -> Labels] /\ job' \in [Clones -> 0..MaxWrites]
      /\ attempt' \in [Clones -> 0..Attempts]
  BY <1>1 DEF Tell
<1>4. QED
  BY <1>2, <1>3 DEF ToolOK, Answers, Labels

\* so does a retry,
LEMMA RetryTyped ==
    ASSUME TypeOK, NEW c \in Clones, Retry(c)
    PROVE  ToolOK'
BY SyncAssumption DEF TypeOK, ToolOK, Retry

\* and a tool that goes on.
LEMMA GotoTyped ==
    ASSUME TypeOK, NEW c \in Clones, UNCHANGED told,
           NEW l \in {"writing", "committing", "aborting", "pushing"}, Goto(c, l)
    PROVE  ToolOK'
BY DEF TypeOK, ToolOK, Goto

\* The tools and the changes keep their types,
LEMMA ToolTyped ==
    ASSUME TypeOK, NEW c \in Clones, Acts(c)
    PROVE  ToolOK' /\ ChangesOK'
<1>1. CASE \E d \in Domains : StartWrite(c, d)
  BY <1>1, SyncAssumption DEF TypeOK, ToolOK, ChangesOK, StartWrite, Changes
<1>2. CASE StartSync(c) \/ Crash(c) \/ Resolve(c)
  BY <1>2, SyncAssumption DEF TypeOK, ToolOK, ChangesOK, StartSync, Crash, Resolve, changes, tool
<1>3. CASE ToolStep(c)
  <2>1. ChangesOK'
    BY <1>3 DEF TypeOK, ChangesOK, ToolStep, changes, RefuseDiverged, FastForward, GoOn,
       WritePage, RejectInput, WriteFails, Commit, CommitFails, CommitLands, Pull,
       PullConflict, PullTimesOut, RebaseStops, PullFails, Abort, AbortFails, Push,
       PushFails, PushTimesOut
  <2>2. CASE Commit(c)
    <3>1. 1 \in 0..Attempts
      BY SyncAssumption
    <3>2. /\ pc' = [pc EXCEPT ![c] = "pulling"] /\ attempt' = [attempt EXCEPT ![c] = 1]
          /\ job' = job /\ told' = told
      BY <2>2 DEF Commit
    <3>3. QED
      BY <2>1, <3>1, <3>2 DEF TypeOK, ToolOK
  <2>3. CASE \/ RefuseDiverged(c) \/ RejectInput(c) \/ WriteFails(c) \/ CommitFails(c)
             \/ PullTimesOut(c) \/ Abort(c) \/ AbortFails(c) \/ Push(c) \/ PushTimesOut(c)
    <3>1. \E a \in {"refused", "failed", "uncommitted", "committed", "pushed"} : Tell(c, a)
      BY <2>3 DEF RefuseDiverged, RejectInput, WriteFails, CommitFails, SayUncommitted,
         PullTimesOut, Abort, AbortFails, Push, PushTimesOut, GiveUp
    <3>2. QED
      BY <2>1, <3>1, TellTyped
  <2>4. CASE FastForward(c) \/ GoOn(c) \/ WritePage(c) \/ Pull(c) \/ PullConflict(c)
    <3>1. UNCHANGED told /\ \E l \in {"writing", "committing", "aborting", "pushing"} : Goto(c, l)
      BY <2>4 DEF FastForward, GoOn, WritePage, Pull, PullConflict
    <3>2. QED
      BY <2>1, <3>1, GotoTyped
  <2>5. CASE PullFails(c) \/ PushFails(c)
    <3>1. \/ Tell(c, "committed") \/ Retry(c)
          \/ UNCHANGED told /\ Goto(c, "aborting")
      BY <2>5 DEF PullFails, PushFails, GiveUp
    <3>2. QED
      BY <2>1, <3>1, TellTyped, GotoTyped, RetryTyped
  <2>6. QED
    BY <1>3, <2>1, <2>2, <2>3, <2>4, <2>5 DEF ToolStep
<1>4. QED
  BY <1>1, <1>2, <1>3 DEF Acts

\* and the working trees.
LEMMA TreesTyped ==
    ASSUME BaseInv, NEW c \in Clones, Acts(c)
    PROVE  /\ dirty' \in [Clones -> SUBSET Changes]
           /\ adrift' \subseteq Changes /\ calm' \in BOOLEAN
<1>a. /\ dirty \in [Clones -> SUBSET Changes] /\ adrift \subseteq Changes
      /\ calm \in BOOLEAN /\ TypeOK
  BY DEF BaseInv, TypeOK
<1>1. CASE \/ \E d \in Domains : StartWrite(c, d)
           \/ StartSync(c) \/ Crash(c) \/ Resolve(c)
  BY <1>a, <1>1 DEF StartWrite, StartSync, Crash, Resolve, repository
<1>2. CASE RefuseDiverged(c) \/ FastForward(c) \/ GoOn(c) \/ RejectInput(c) \/ WriteFails(c)
  BY <1>a, <1>2 DEF RefuseDiverged, FastForward, GoOn, RejectInput, WriteFails, repository
<1>3. CASE WritePage(c)
  <2>1. job[c] \in Changes
    BY <1>3, SyncAssumption DEF BaseInv, ToolKnows, TypeOK, WritePage, Changes
  <2>2. QED
    BY <1>a, <1>3, <2>1 DEF WritePage
<1>4. CASE Commit(c) \/ CommitFails(c)
  <2>1. Staged(c) \subseteq Changes
    BY <1>a DEF Staged
  <2>2. CASE UNCHANGED <<dirty, adrift, calm>>
    BY <1>a, <2>2
  <2>3. CASE CommitLands(c)
    <3>1. dirty' \in [Clones -> SUBSET Changes]
      BY <1>a, <2>3 DEF CommitLands
    <3>2. adrift' \subseteq Changes /\ calm' \in BOOLEAN
      BY <1>a, <2>1, <2>3 DEF CommitLands
    <3>3. QED
      BY <3>1, <3>2
  <2>4. QED
    BY <1>4, <2>2, <2>3 DEF Commit, CommitFails, repository
<1>5. CASE Pull(c) \/ PullConflict(c) \/ PullTimesOut(c) \/ PullFails(c)
  BY <1>a, <1>5 DEF Pull, PullConflict, PullTimesOut, PullFails, RebaseStops, repository
<1>6. CASE Abort(c) \/ AbortFails(c)
  <2>1. CASE Abort(c)
    <3>1. PICK kept \in SUBSET dirty[c] : dirty' = [dirty EXCEPT ![c] = kept]
      BY <2>1 DEF Abort
    <3>2. kept \subseteq Changes
      BY <1>a
    <3>3. QED
      BY <1>a, <2>1, <3>1, <3>2 DEF Abort
  <2>2. QED
    BY <1>a, <1>6, <2>1 DEF AbortFails, repository
<1>7. CASE Push(c) \/ PushFails(c) \/ PushTimesOut(c)
  BY <1>a, <1>7 DEF Push, PushFails, PushTimesOut, repository
<1>8. QED
  BY <1>1, <1>2, <1>3, <1>4, <1>5, <1>6, <1>7 DEF Acts, ToolStep

-----------------------------------------------------------------------------
(* Theorems *)

\* The invariant holds when one clone has pushed and another has not.
LEMMA Initially ==
    ASSUME Init
    PROVE  BaseInv
<1>1. 1 \in Changes /\ 2 \in Changes /\ begun = 2
  BY SyncAssumption DEF Init, Changes
<1>2. PICK a \in Clones, b \in Clones, d \in Domains :
         /\ b # a
         /\ author = [n \in Changes |-> IF n = 2 THEN b ELSE a]
         /\ place = [n \in Changes |-> IF n = 2 THEN d ELSE CHOOSE e \in Domains : TRUE]
  BY DEF Init
<1>3. remote = <<{1}>> /\ \A c \in Clones : branch[c] = IF c = b THEN <<{2}>> ELSE <<{1}>>
  BY <1>1, <1>2 DEF Init
<1>4. /\ <<{1}>> \in Histories /\ <<{2}>> \in Histories
      /\ Len(<<{1}>>) = 1 /\ Len(<<{2}>>) = 1 /\ <<{1}>>[1] = {1} /\ <<{2}>>[1] = {2}
  BY <1>1 DEF Histories
<1>5. /\ \A n : n \in ChangesOf(<<{1}>>) <=> n = 1
      /\ \A n : n \in ChangesOf(<<{2}>>) <=> n = 2
  BY <1>4, InHistory
<1>6. TypeOK
  <2>1. branch \in [Clones -> Histories]
    BY <1>2, <1>3, <1>4 DEF Init
  <2>2. detached \in [Clones -> Histories]
    BY EmptySeq DEF Init, Histories
  <2>3. place \in [Changes -> Domains]
    BY <1>2
  <2>4. QED
    BY <1>1, <1>2, <1>3, <1>4, <2>1, <2>2, <2>3, SyncAssumption DEF Init, TypeOK
<1>7. UnbegunAreNowhere
  BY <1>1, <1>3, <1>5, SyncAssumption DEF Init, UnbegunAreNowhere, Changes
<1>8. ChangesAreOnce
  BY <1>3, <1>4, DistinctMeans DEF ChangesAreOnce
<1>9. ASSUME NEW c \in Clones
      PROVE  ToolKnows(c) /\ TreeKnows(c) /\ BranchFits(c)
  <2>1. ToolKnows(c) /\ TreeKnows(c)
    BY <1>9 DEF Init, ToolKnows, TreeKnows
  <2>2. CASE c = b
    <3>1. author[2] = c
      BY <1>1, <1>2, <2>2
    <3>2. ForksAt(c, 0)
      BY <1>3, <1>4, <1>5, <2>2, <3>1 DEF ForksAt
    <3>3. QED
      BY <2>1, <3>2 DEF BranchFits, ForksAt
  <2>3. CASE c # b
    <3>1. ForksAt(c, 1)
      BY <1>3, <1>4, <2>3 DEF ForksAt
    <3>2. QED
      BY <2>1, <3>1 DEF BranchFits, ForksAt
  <2>4. QED
    BY <2>2, <2>3
<1>10. CommitOnBranchStands
  BY <1>1, <1>2, <1>3, <1>5 DEF Init, CommitOnBranchStands
<1>11. PushedIsShared
  BY <1>1, <1>3, <1>5 DEF Init, PushedIsShared
<1>12. QED
  BY <1>6, <1>7, <1>8, <1>9, <1>10, <1>11 DEF BaseInv

\* Each step keeps it.
LEMMA InvariantKept ==
    ASSUME BaseInv, [Next]_vars
    PROVE  BaseInv'
<1>1. HistoriesGrow /\ ChangesAreOnce' /\ \A d \in Clones : BranchFits(d)'
  BY HistoriesKept
<1>2. CASE Quiet
  <2>1. TypeOK'
    <3>1. calm' \in BOOLEAN
      BY <1>2 DEF BaseInv, TypeOK, Quiet
    <3>2. QED
      BY <1>2, <3>1 DEF BaseInv, TypeOK, Quiet, repository, tool, changes
  <2>2. UnbegunAreNowhere' /\ CommitOnBranchStands' /\ PushedIsShared'
    BY <1>2 DEF BaseInv, UnbegunAreNowhere, CommitOnBranchStands, PushedIsShared, Quiet,
                repository, tool, changes
  <2>3. \A c \in Clones : ToolKnows(c)' /\ TreeKnows(c)'
    BY <1>2 DEF BaseInv, ToolKnows, TreeKnows, Quiet, repository, tool, changes
  <2>4. QED
    BY <1>1, <2>1, <2>2, <2>3 DEF BaseInv
<1>3. ASSUME NEW c \in Clones, Acts(c)
      PROVE  BaseInv'
  <2>1. TypeOK'
    BY <1>1, <1>3, DetachedTyped, ToolTyped, TreesTyped
       DEF BaseInv, TypeOK, ToolOK, ChangesOK, HistoriesGrow
  <2>2. \A d \in Clones : ToolKnows(d)' /\ TreeKnows(d)'
    BY <1>1, <1>3, ToolKept, OtherToolsKept, TreesKept
  <2>3. UnbegunAreNowhere' /\ CommitOnBranchStands' /\ PushedIsShared'
    BY <1>1, <1>3, UnbegunKept, CommitsStand, PushesStand
  <2>4. QED
    BY <1>1, <2>1, <2>2, <2>3 DEF BaseInv
<1>4. QED
  BY <1>2, <1>3, StepCases

\* The invariant that the theorems rest on.
THEOREM InvariantHolds == Spec => []BaseInv
<1>1. Init => BaseInv
  BY Initially
<1>2. BaseInv /\ [Next]_vars => BaseInv'
  BY InvariantKept
<1>3. QED
  BY <1>1, <1>2, PTL DEF Spec

\* What a caller was told is committed is on its clone's branch, if HEAD was not
\* detached: neither sync's pull --rebase, nor its abort, interruption or retry, nor
\* ensure_fresh's fast-forward takes it away.
THEOREM CommitsStay == Spec => []CommitOnBranchStands
<1>1. BaseInv => CommitOnBranchStands
  BY DEF BaseInv
<1>2. QED
  BY <1>1, InvariantHolds, PTL

\* What a caller was told is pushed is on the remote, whoever pushes after it, and
\* no working tree keeps a change that its caller believes committed.
THEOREM AnswersTrue == Spec => []AnswersAreTrue
<1>1. BaseInv => AnswersAreTrue
  BY DEF BaseInv, TreeKnows, AnswersAreTrue, LeftoversAreKnown
<1>2. QED
  BY <1>1, InvariantHolds, PTL

\* A push that changes the remote publishes whole commits at the end of its log.
LEMMA RemoteGrows ==
    ASSUME BaseInv, BaseInv', [Next]_vars
    PROVE  [Shared!Publish]_remote
<1>1. CASE remote' = remote
  BY <1>1
<1>2. CASE remote' # remote
  <2>1. PICK c \in Clones : Pushes(c)
    BY <1>2, HistoryCases DEF BaseInv, FastForward, Rebases, CommitLands
  <2>2. IsPrefix(remote, remote')
    BY <2>1 DEF Pushes, IsFastForward
  <2>3. Shared!IsStrictPrefix(remote, remote')
    BY <1>2, <2>2 DEF Shared!IsStrictPrefix, Shared!IsPrefix, IsPrefix
  <2>4. Shared!Distinct(remote')
    BY DEF BaseInv, ChangesAreOnce, Shared!Distinct, Shared!Range
  <2>5. remote' \in Histories
    BY DEF BaseInv, TypeOK, Histories
  <2>6. UNION Shared!Range(remote') \subseteq Changes
    BY <2>5, CommitsOf DEF Shared!Range
  <2>7. QED
    BY <2>3, <2>4, <2>6 DEF Shared!Publish
<1>3. QED
  BY <1>1, <1>2

\* sync, auto_commit and ensure_fresh, between any number of clones, make of the
\* remote one growing log without a change twice.
THEOREM RemoteIsLog == Spec => RemoteIsSharedLog
<1>1. Init => Shared!Init
  BY Initially DEF BaseInv, ChangesAreOnce, Shared!Init
<1>2. BaseInv /\ BaseInv' /\ [Next]_vars => [Shared!Publish]_remote
  BY RemoteGrows
<1>3. QED
  BY <1>1, <1>2, InvariantHolds, PTL DEF Spec, RemoteIsSharedLog, Shared!Spec

-----------------------------------------------------------------------------
(* WikiGraph: types *)

RowsKept == \A d \in WikiDomains : graph'[d].rows = graph[d].rows
                                  /\ graph'[d].doubted = graph[d].doubted

LEMMA PagesArePairs == \A f \in Pages : f[1] \in WikiDomains
BY WikiAssumption DEF Pages

LEMMA PlacesArePages == \A i \in Places : PageOrder[i] \in Pages
BY WikiAssumption DEF Pages, Places

LEMMA NoPagesAreRows == NoPages \in Rows
<1>1. NoPages \in [{} -> Nat] /\ {} \in SUBSET Pages
  BY DEF NoPages
<1> QED
  BY <1>1 DEF Rows

LEMMA MarkdownIsRows ==
  ASSUME md \in [Pages -> Nat], NEW d
  PROVE  Markdown(d) \in Rows
<1>1. Present(d) \in SUBSET Pages /\ Markdown(d) \in [Present(d) -> Nat]
  BY DEF Present, Markdown
<1> QED
  BY <1>1 DEF Rows

LEMMA FilesAreRows ==
  ASSUME md \in [Pages -> Nat], NEW q, q.pages \subseteq Pages
  PROVE  Files(q) \in Rows
<1> DEFINE S == {g \in q.pages : md[g] # 0}
<1>1. S \in SUBSET Pages /\ Files(q) \in [S -> Nat]
  BY DEF Files
<1> HIDE DEF S
<1> QED
  BY <1>1 DEF Rows

LEMMA PrintIsPrint ==
  ASSUME md \in [Pages -> Nat], NEW d
  PROVE  markdown_fingerprint(d) \in FilePrints /\ markdown_fingerprint(d) \in Prints
<1>1. Present(d) \in SUBSET Pages
  BY DEF Present
<1>2. markdown_fingerprint(d) \in [Present(d) -> Nat \X BOOLEAN]
  BY <1>1 DEF markdown_fingerprint
<1> QED
  BY <1>1, <1>2 DEF Prints, FilePrints

LEMMA PrintContents ==
  ASSUME md \in [Pages -> Nat], NEW d
  PROVE  Contents(markdown_fingerprint(d)) = Markdown(d)
<1>1. DOMAIN markdown_fingerprint(d) = Present(d)
  BY DEF markdown_fingerprint
<1>2. \A f \in Present(d) : markdown_fingerprint(d)[f][1] = md[f]
  BY DEF markdown_fingerprint
<1> QED
  BY <1>1, <1>2 DEF Contents, Markdown

LEMMA RefreshedIsRows ==
  ASSUME graph \in [WikiDomains -> Graphs], NEW d \in WikiDomains, NEW q, q.snap \in Rows
  PROVE  Refreshed(d, q) \in Rows
<1> DEFINE S == (DOMAIN graph[d].rows \ q.pages) \cup {f \in DOMAIN q.snap : f[1] = d}
<1>1. graph[d].rows \in Rows
  BY DEF Graphs
<1>2. S \in SUBSET Pages
  BY <1>1 DEF Rows
<1>3. Refreshed(d, q) \in [S -> Nat]
  BY <1>1 DEF Refreshed, Rows
<1> HIDE DEF S
<1> QED
  BY <1>2, <1>3 DEF Rows

LEMMA TextsAreNat ==
  ASSUME md \in [Pages -> Nat]
  PROVE  Texts \in [Places -> Nat]
BY PlacesArePages DEF Texts, Places

LEMMA IdleIsCall == Idle \in Calls
<1>1. <<>> \in Seq(Nat) /\ None \in Prints
  BY DEF Prints
<1>2. "idle" \in Pcs
  BY DEF Pcs
<1> QED
  BY <1>1, <1>2, NoPagesAreRows, ZenonT(20) DEF Idle, Calls

LEMMA CallMoves ==
  ASSUME NEW q \in Calls, NEW point \in Pcs, NEW todo \in SUBSET WikiDomains, NEW print \in Prints, 
         NEW rows \in Rows, NEW pages \in SUBSET Pages, NEW at \in WikiDomains \cup {None},
         NEW seen \in SUBSET [Places -> Nat], NEW seq \in Seq(Nat), NEW checked \in Nat, NEW back \in BOOLEAN,
         NEW prints \in [WikiDomains -> Prints], NEW scope \in SUBSET WikiDomains, NEW now \in [WikiDomains -> Prints]
  PROVE  /\ [q EXCEPT !.pc = point] \in Calls
         /\ [q EXCEPT !.pc = point, !.todo = todo] \in Calls
         /\ [q EXCEPT !.todo = todo, !.pc = point] \in Calls
         /\ [q EXCEPT !.pc = point, !.at = at, !.print = print] \in Calls
         /\ [q EXCEPT !.pc = point, !.snap = rows] \in Calls
         /\ [q EXCEPT !.todo = todo, !.at = None, !.snap = NoPages, !.print = None, !.back = FALSE, !.pc = point] \in Calls
         /\ [q EXCEPT !.pc = point, !.got = seq, !.back = back] \in Calls
         /\ [q EXCEPT !.pc = point, !.again = seq, !.back = back] \in Calls
         /\ [q EXCEPT !.got = seq, !.seen = seen, !.pc = point] \in Calls
         /\ [q EXCEPT !.checked = checked] \in Calls
         /\ [q EXCEPT !.pc = point, !.scope = scope, !.todo = todo] \in Calls
         /\ [q EXCEPT !.pc = point, !.pages = pages, !.before = rows] \in Calls
         /\ [q EXCEPT !.pc = point, !.before = NoPages] \in Calls
         /\ [q EXCEPT !.pc = point, !.now = now, !.snap = rows, !.prints = prints] \in Calls
         /\ [q EXCEPT !.pc = point, !.snap = rows, !.now = now] \in Calls
         /\ [q EXCEPT !.pc = point, !.snap = NoPages, !.pages = {}] \in Calls
         /\ [q EXCEPT !.pc = point, !.now = now] \in Calls
         /\ [q EXCEPT !.pc = point, !.print = print] \in Calls
         /\ [q EXCEPT !.seen = seen, !.back = back] \in Calls
<1>1. None \in Prints /\ {} \in SUBSET Pages
  BY DEF Prints
<1> QED
  BY <1>1, NoPagesAreRows, ZenonT(60) DEF Calls

LEMMA DoneIsCall ==
  ASSUME NEW q \in Calls
  PROVE  /\ Done(q) \in Calls
         /\ Goal(q) \in {"walk", "commit", "inspect", "restage", "write", "fetch"}
<1>1. q.phase \in {"walk", "fetch", "prepare", "sync"} /\ q.on \in SUBSET WikiDomains
  BY DEF Calls
<1>2. Goal(q) \in {"walk", "commit", "inspect", "restage", "write", "fetch"}
  BY <1>1 DEF Goal
<1>3. Goal(q) \in Pcs
  BY <1>2, Zenon DEF Pcs, Looks
<1> DEFINE point == Goal(q)
           on == q.on
           phase == IF q.phase = "fetch" THEN "prepare" ELSE q.phase
<1>4. phase \in {"walk", "fetch", "prepare", "sync"}
  BY <1>1
<1>5. None \in Prints /\ {} \in SUBSET WikiDomains
  BY DEF Prints
<1>6. [q EXCEPT !.todo = {}, !.at = None, !.snap = NoPages, !.print = None, !.pc = point,
                !.back = FALSE, !.scope = on, !.phase = phase] \in Calls
  <2> HIDE DEF point, on, phase
  <2>1. point \in Pcs /\ on \in SUBSET WikiDomains
    BY <1>1, <1>3 DEF point, on
  <2> QED
    BY <1>4, <1>5, <2>1, NoPagesAreRows, ZenonT(20) DEF Calls
<1> QED
  BY <1>2, <1>6 DEF Done

LEMMA DoneFields ==
  ASSUME NEW q \in Calls
  PROVE  /\ Done(q).op = q.op /\ Done(q).on = q.on /\ Done(q).scope = q.on
         /\ Done(q).pc = Goal(q)
         /\ Done(q).phase = IF q.phase = "fetch" THEN "prepare" ELSE q.phase
         /\ Done(q).pages = q.pages /\ Done(q).before = q.before
         /\ Done(q).prints = q.prints /\ Done(q).now = q.now
         /\ Done(q).got = q.got /\ Done(q).again = q.again /\ Done(q).checked = q.checked
         /\ Done(q).seen = q.seen /\ Done(q).back = FALSE /\ Done(q).tries = q.tries
BY DEF Done, Calls

LEMMA ProvidedIsCall ==
  ASSUME md \in [Pages -> Nat], NEW q \in Calls
  PROVE  Provided(q) \in Calls
<1> DEFINE prints == [d \in WikiDomains |-> IF d \in q.scope
                                            THEN markdown_fingerprint(d) ELSE None]
           r == Done(q)
<1>1. prints \in [WikiDomains -> Prints]
  BY PrintIsPrint DEF Prints
<1>2. r \in Calls
  BY DoneIsCall
<1> HIDE DEF prints, r
<1>3. [r EXCEPT !.prints = prints] \in Calls
  BY <1>1, <1>2, ZenonT(20) DEF Calls
<1> QED
  BY <1>3 DEF Provided, prints, r

LEMMA ProvidedFields ==
  ASSUME NEW q \in Calls
  PROVE  /\ Provided(q).op = q.op /\ Provided(q).on = q.on /\ Provided(q).scope = q.on
         /\ Provided(q).pc = Goal(q)
         /\ Provided(q).phase = IF q.phase = "fetch" THEN "prepare" ELSE q.phase
         /\ Provided(q).pages = q.pages /\ Provided(q).before = q.before
         /\ Provided(q).got = q.got /\ Provided(q).again = q.again
         /\ Provided(q).checked = q.checked /\ Provided(q).seen = q.seen
<1>1. Done(q) \in Calls
  BY DoneIsCall
<1> QED
  BY <1>1, DoneFields DEF Provided, Calls

LEMMA WithoutFields ==
  ASSUME NEW q \in Calls
  PROVE  /\ Without(q) \in Calls
         /\ Without(q).op = q.op /\ Without(q).on = q.on /\ Without(q).scope = q.on
         /\ Without(q).pc \in {"collect", "failed", "commit", "inspect", "write", "fetch"}
         /\ q.phase = "walk" => Without(q).pc = "collect"
         /\ q.phase = "fetch" => Without(q).pc \in {"commit", "inspect"}
         /\ q.phase = "prepare" => Without(q).pc \in {"failed", "write"}
         /\ q.phase = "sync" => Without(q).pc = "fetch"
         /\ Without(q).pc \in {"failed", "commit"} => q.op = "index"
         /\ Without(q).phase = IF q.phase = "fetch" THEN "prepare" ELSE q.phase
         /\ Without(q).pages = q.pages /\ Without(q).before = q.before
         /\ Without(q).got = q.got /\ Without(q).again = q.again
         /\ Without(q).checked = q.checked /\ Without(q).seen = q.seen
<1> DEFINE r == Done(q)
           point == CASE q.phase = "walk" -> "collect"
                   [] q.phase = "prepare" /\ q.op = "index" -> "failed"
                   [] OTHER -> r.pc
<1>1. r \in Calls /\ r.pc = Goal(q)
  BY DoneIsCall, DoneFields
<1>2. q.phase \in {"walk", "fetch", "prepare", "sync"}
  BY DEF Calls
<1>3. /\ point \in {"collect", "failed", "commit", "inspect", "write", "fetch"}
      /\ q.phase = "walk" => point = "collect"
      /\ q.phase = "fetch" => point \in {"commit", "inspect"}
      /\ q.phase = "prepare" => point \in {"failed", "write"}
      /\ q.phase = "sync" => point = "fetch"
      /\ point \in {"failed", "commit"} => q.op = "index"
  BY <1>1, <1>2 DEF Goal
<1>4. point \in Pcs
  <2> HIDE DEF point
  <2> QED
    BY <1>3, Zenon DEF Pcs, Looks
<1>5. Without(q) = [r EXCEPT !.pc = point]
  BY DEF Without
<1> HIDE DEF point
<1>6. Without(q) \in Calls
  <2> HIDE DEF r
  <2> QED
    BY <1>1, <1>4, <1>5, ZenonT(20) DEF Calls
<1>7. /\ Without(q).pc = point
      /\ Without(q).op = r.op /\ Without(q).on = r.on /\ Without(q).scope = r.scope
      /\ Without(q).phase = r.phase /\ Without(q).pages = r.pages
      /\ Without(q).before = r.before /\ Without(q).got = r.got
      /\ Without(q).again = r.again /\ Without(q).checked = r.checked
      /\ Without(q).seen = r.seen
  <2> HIDE DEF r
  <2> QED
    BY <1>1, <1>5 DEF Calls
<1> QED
  BY <1>3, <1>6, <1>7, DoneFields

LEMMA RestartsFields ==
  ASSUME NEW q \in Calls
  PROVE  /\ Restarts(q) \in Calls
         /\ Restarts(q).op = q.op /\ Restarts(q).on = q.on /\ Restarts(q).scope = q.on
         /\ Restarts(q).pc = Without(q).pc
         /\ Restarts(q).phase = IF q.phase = "fetch" THEN "prepare" ELSE q.phase
         /\ Restarts(q).got = <<>> /\ Restarts(q).seen = {} /\ Restarts(q).checked = 0
<1> DEFINE r == Without(q)
           prints == Idle.prints
<1>1. r \in Calls
  BY WithoutFields
<1>2. prints \in [WikiDomains -> Prints]
  BY IdleIsCall DEF Calls
<1>3. <<>> \in Seq(Nat) /\ 0 \in Nat /\ {} \in SUBSET [Places -> Nat] /\ FALSE \in BOOLEAN
  OBVIOUS
<1>4. Restarts(q) = [r EXCEPT !.got = <<>>, !.again = <<>>, !.checked = 0, !.seen = {},
                              !.back = FALSE, !.prints = prints]
  BY DEF Restarts
<1> HIDE DEF r, prints
<1>5. Restarts(q) \in Calls
  <2> DEFINE half == [r EXCEPT !.got = <<>>, !.again = <<>>, !.checked = 0]
  <2>1. half \in Calls
    BY <1>1, <1>3, ZenonT(30) DEF Calls
  <2>2. Restarts(q) = [half EXCEPT !.seen = {}, !.back = FALSE, !.prints = prints]
    BY <1>1, <1>4 DEF Calls
  <2> HIDE DEF half
  <2> QED
    BY <1>2, <1>3, <2>1, <2>2, ZenonT(30) DEF Calls
<1>6. /\ Restarts(q).op = r.op /\ Restarts(q).on = r.on /\ Restarts(q).scope = r.scope
      /\ Restarts(q).pc = r.pc /\ Restarts(q).phase = r.phase
      /\ Restarts(q).got = <<>> /\ Restarts(q).seen = {} /\ Restarts(q).checked = 0
  BY <1>1, <1>4 DEF Calls
<1> QED
  BY <1>5, <1>6, WithoutFields DEF r

LEMMA SynchronisesFields ==
  /\ Synchronises \in Calls
  /\ Synchronises.op = "sync" /\ Synchronises.pc = "fetch" /\ Synchronises.phase = "sync"
  /\ Synchronises.got = <<>> /\ Synchronises.seen = {} /\ Synchronises.checked = 0
<1> DEFINE r == Idle
<1>1. r \in Calls /\ r.got = <<>> /\ r.seen = {} /\ r.checked = 0
  BY IdleIsCall DEF Idle
<1>2. Synchronises = [r EXCEPT !.op = "sync", !.pc = "fetch", !.phase = "sync"]
  BY DEF Synchronises
<1>3. "fetch" \in Pcs
  BY DEF Pcs
<1> HIDE DEF r
<1>4. Synchronises \in Calls
  <2> DEFINE half == [r EXCEPT !.pc = "fetch"]
  <2>1. half \in Calls
    BY <1>1, <1>3, ZenonT(30) DEF Calls
  <2>2. Synchronises = [half EXCEPT !.op = "sync", !.phase = "sync"]
    BY <1>1, <1>2 DEF Calls
  <2> HIDE DEF half
  <2> QED
    BY <2>1, <2>2, ZenonT(30) DEF Calls
<1>5. /\ Synchronises.op = "sync" /\ Synchronises.pc = "fetch" /\ Synchronises.phase = "sync"
      /\ Synchronises.got = r.got /\ Synchronises.seen = r.seen
      /\ Synchronises.checked = r.checked
  BY <1>1, <1>2 DEF Calls
<1> QED
  BY <1>1, <1>4, <1>5

LEMMA WitnessSees ==
  ASSUME md \in [Pages -> Nat], md' \in [Pages -> Nat], NEW q \in Calls
  PROVE  LET r == Witness(q) IN
         /\ r \in Calls
         /\ r.op = q.op /\ r.pc = q.pc /\ r.phase = q.phase /\ r.on = q.on
         /\ r.scope = q.scope /\ r.pages = q.pages /\ r.before = q.before
         /\ r.prints = q.prints /\ r.now = q.now /\ r.print = q.print /\ r.todo = q.todo
         /\ r.at = q.at /\ r.snap = q.snap /\ r.got = q.got /\ r.again = q.again
         /\ r.checked = q.checked
         /\ r.seen = IF q.seen = {} THEN {} ELSE q.seen \cup {Texts'}
         /\ r.back = (\/ q.back
                      \/ CameBack(q)
                      \/ q.pc = "put" /\ Undone(q)
                      \/ InTheGap(q) /\ SlippedIn(q))
<1> DEFINE seen == IF q.seen = {} THEN {} ELSE q.seen \cup {Texts'}
           back == \/ q.back
                   \/ CameBack(q)
                   \/ q.pc = "put" /\ Undone(q)
                   \/ InTheGap(q) /\ SlippedIn(q)
<1>1. Texts' \in [Places -> Nat]
  BY PlacesArePages DEF Texts, Places
<1>2. q.seen \in SUBSET [Places -> Nat]
  BY DEF Calls
<1>3. seen \in SUBSET [Places -> Nat]
  BY <1>1, <1>2
<1>4. back \in BOOLEAN
  <2>1. q.back \in BOOLEAN
    BY DEF Calls
  <2>2. (q.back \/ CameBack(q)) \in BOOLEAN
    BY <2>1
  <2>3. CASE back
    BY <2>3
  <2>4. CASE ~back
    BY <2>4
  <2> QED
    BY <2>3, <2>4
<1>5. Witness(q) = [q EXCEPT !.seen = seen, !.back = back]
  BY DEF Witness
<1> HIDE DEF seen, back
<1>6. Witness(q) \in Calls
  BY <1>3, <1>4, <1>5, ZenonT(20) DEF Calls
<1>7. Witness(q).seen = seen /\ Witness(q).back = back
  BY <1>5 DEF Calls
<1> QED
  BY <1>5, <1>6, <1>7 DEF Calls, seen, back

LEMMA WitnessFields ==
  ASSUME md \in [Pages -> Nat], md' \in [Pages -> Nat], NEW q \in Calls
  PROVE  LET r == Witness(q) IN
         /\ r \in Calls
         /\ r.op = q.op /\ r.pc = q.pc /\ r.phase = q.phase /\ r.on = q.on
         /\ r.scope = q.scope /\ r.pages = q.pages /\ r.before = q.before
         /\ r.prints = q.prints /\ r.now = q.now /\ r.print = q.print /\ r.todo = q.todo
         /\ r.at = q.at /\ r.snap = q.snap /\ r.got = q.got /\ r.again = q.again
         /\ r.checked = q.checked
BY WitnessSees, Zenon

LEMMA TheIsOn ==
  ASSUME NEW q \in Calls, Formed(q), q.op \in {"page", "index"}
  PROVE  The(q) \in WikiDomains /\ q.on = {The(q)}
<1> PICK d \in WikiDomains : q.on = {d}
  BY DEF Formed
<1> QED
  BY DEF The

\* A step of another thread, or of an editor, leaves what a thread knows.
LEMMA OtherKeeps ==
  ASSUME WikiInv, NEW u \in Threads,
         \/ thread'[u] = thread[u] /\ md' = md
         \/ thread'[u] = Witness(thread[u]),
         versions' \in Nat, versions <= versions', md' \in [Pages -> Nat],
         lock = u => lock' = u,
         lock # u \/ RowsKept
  PROVE  Knows(u)'
<1> DEFINE q == thread[u]
<1>1. q \in Calls /\ md \in [Pages -> Nat] /\ Knows(u)
  BY DEF WikiInv, WikiTypeOK
<1>2. /\ thread'[u].op = q.op /\ thread'[u].pc = q.pc /\ thread'[u].phase = q.phase /\ thread'[u].on = q.on
      /\ thread'[u].scope = q.scope /\ thread'[u].pages = q.pages /\ thread'[u].before = q.before
      /\ thread'[u].prints = q.prints /\ thread'[u].print = q.print /\ thread'[u].at = q.at /\ thread'[u].snap = q.snap
      /\ thread'[u].got = q.got /\ thread'[u].again = q.again /\ thread'[u].checked = q.checked
  BY <1>1, WitnessFields
<1>3. /\ q.seen = {} => thread'[u].seen = {}
      /\ q.seen # {} => \/ thread'[u].seen = q.seen /\ md' = md
                        \/ thread'[u].seen = q.seen \cup {Texts'}
  BY <1>1, WitnessSees
<1>3a. /\ q.back => thread'[u].back
       /\ \/ md' = md
          \/ thread'[u].back = (\/ q.back
                                \/ CameBack(q)
                                \/ q.pc = "put" /\ Undone(q)
                                \/ InTheGap(q) /\ SlippedIn(q))
  <2>1. CASE thread'[u] = thread[u] /\ md' = md
    BY <2>1
  <2>2. CASE thread'[u] = Witness(thread[u])
    <3>1. Witness(q).back = (\/ q.back
                             \/ CameBack(q)
                             \/ q.pc = "put" /\ Undone(q)
                             \/ InTheGap(q) /\ SlippedIn(q))
      BY <1>1, WitnessSees, Zenon
    <3> QED
      BY <2>2, <3>1
  <2> QED
    BY <2>1, <2>2
<1>4. HasLock(u)'
  BY <1>1, <1>2 DEF Knows, HasLock
<1>5. Formed(thread'[u])
  BY <1>1, <1>2 DEF Knows, Formed
<1>6. q.pc \in {"snapshot", "put", "restage", "final", "publish"} => lock = u
  BY <1>1 DEF Knows, HasLock, Formed, Repairing
<1>7. Rebuilding(thread[u])'
  <2>1. CASE q.pc \in {"snapshot", "put"}
    <3>1. ASSUME q.pc = "put", ~thread'[u].back, NEW f \in Pages, f[1] = q.at
          PROVE  \/ In(q.snap, f) = In(Contents(q.print), f)
                 \/ md'[f] # In(Contents(q.print), f)
      <4>1. \/ In(q.snap, f) = In(Contents(q.print), f)
            \/ md[f] # In(Contents(q.print), f)
        BY <1>1, <1>3a, <3>1 DEF Knows, Rebuilding
      <4>2. CASE md'[f] = md[f]
        BY <4>1, <4>2
      <4>3. CASE md'[f] # md[f]
        <5>1. ~Undone(q)
          BY <1>3a, <3>1, <4>3
        <5> QED
          BY <3>1, <4>3, <5>1 DEF Undone
      <4> QED
        BY <4>2, <4>3
    <3>2. /\ q.at \in WikiDomains /\ q.print \in FilePrints
          /\ \A f \in DOMAIN q.print : f \in Pages /\ f[1] = q.at /\ q.print[f][1] # 0
          /\ q.pc = "put" =>
                \A f \in DOMAIN q.snap : f \in Pages /\ f[1] = q.at /\ q.snap[f] # 0
      BY <1>1, <2>1 DEF Knows, Rebuilding
    <3> QED
      BY <1>2, <2>1, <3>1, <3>2 DEF Rebuilding
  <2>2. CASE q.pc \notin {"snapshot", "put"}
    BY <1>2, <2>2 DEF Rebuilding
  <2> QED
    BY <2>1, <2>2
<1>8. RowsStaged(thread[u])'
  <2>1. CASE q.pc \in {"restage", "final", "publish"}
    <3>1. The(thread'[u]) = The(q) /\ The(q) \in WikiDomains
      <4>1. q.op \in {"page", "index"}
        BY <1>1, <2>1 DEF Knows, Formed
      <4> QED
        BY <1>1, <1>2, <4>1, TheIsOn DEF Knows, The
    <3>2. /\ graph'[The(q)].rows = graph[The(q)].rows
          /\ graph'[The(q)].doubted = graph[The(q)].doubted
      BY <1>6, <2>1, <3>1 DEF RowsKept
    <3>3. ASSUME q.pc \in {"restage", "final"}, ~thread'[u].back, NEW d, d = The(q)
          PROVE  Markdown(d)' = Markdown(d)
      <4>1. \A f \in Pages : f[1] = The(q) => md'[f] = md[f]
        BY <1>3a, <3>3 DEF InTheGap, SlippedIn
      <4>2. {f \in Pages : f[1] = d /\ md'[f] # 0} = {f \in Pages : f[1] = d /\ md[f] # 0}
        BY <3>3, <4>1
      <4>3. \A f \in {g \in Pages : g[1] = d /\ md[g] # 0} : md'[f] = md[f]
        BY <3>3, <4>1
      <4>4. [f \in {g \in Pages : g[1] = d /\ md'[g] # 0} |-> md'[f]]
               = [f \in {g \in Pages : g[1] = d /\ md[g] # 0} |-> md[f]]
        BY <4>2, <4>3
      <4> QED
        BY <4>4 DEF Markdown, Present
    <3>4. CASE thread'[u].back \/ graph[The(q)].doubted
      BY <1>2, <3>1, <3>2, <3>4 DEF RowsStaged
    <3>5. CASE ~thread'[u].back /\ ~graph[The(q)].doubted
      <4>1. graph[The(q)].rows =
               IF q.pc = "publish" THEN Contents(q.print) ELSE Markdown(The(q))
        BY <1>1, <1>3a, <2>1, <3>5 DEF Knows, RowsStaged
      <4>2. \A d : q.pc # "publish" /\ d = The(q) => Markdown(d)' = Markdown(d)
        BY <2>1, <3>3, <3>5
      <4> QED
        BY <1>2, <3>1, <3>2, <4>1, <4>2 DEF RowsStaged
    <3> QED
      BY <3>4, <3>5
  <2>2. CASE q.pc \notin {"restage", "final", "publish"}
    BY <1>2, <2>2 DEF RowsStaged
  <2> QED
    BY <2>1, <2>2
<1>9. Remembers(thread[u])'
  <2>1. ASSUME q.pc = "commit", NEW f \in q.pages, q.op # "index"
        PROVE  f \in DOMAIN q.before /\ q.before[f] <= versions'
    <3>1. f \in DOMAIN q.before /\ q.before[f] <= versions
      BY <1>1, <2>1 DEF Knows, Remembers
    <3>2. q.before \in Rows
      BY <1>1 DEF Calls
    <3>3. q.before[f] \in Nat
      BY <3>1, <3>2 DEF Rows
    <3> QED
      BY <3>1, <3>3 DEF WikiInv, WikiTypeOK
  <2> QED
    BY <1>2, <2>1 DEF Remembers
<1>10. Walks(thread[u])'
  BY <1>1, <1>2, <1>3a DEF Knows, Walks, Meant
<1>11. Reads(thread[u])'
  <2>1. /\ q.pc \notin {"again"} => q.checked = 0
        /\ q.pc \notin Looks \ {"walk"} => q.got = <<>>
        /\ q.pc \notin {"collect", "again"} => q.seen = {}
        /\ q.seen # {} => Texts \in q.seen
    BY <1>1 DEF Knows, Reads
  <2>2. md' = md => Texts' = Texts
    BY DEF Texts
  <2>3. thread'[u].seen # {} => Texts' \in thread'[u].seen
    BY <1>3, <2>1, <2>2
  <2>4. q.seen \subseteq thread'[u].seen
    BY <1>3
  <2>5. q.pc \in {"collect", "again"} =>
          /\ Len(q.got) <= Len(PageOrder)
          /\ \A i \in 1..Len(q.got) : \E texts \in thread'[u].seen : texts[i] = q.got[i]
    BY <1>1, <2>4 DEF Knows, Reads
  <2>6. ASSUME q.pc = "again"
        PROVE  thread'[u].back \/ \E texts \in thread'[u].seen : Agrees(thread[u], texts)'
    <3>1. /\ Whole(q.got) /\ q.checked < Len(PageOrder)
          /\ q.back \/ \E texts \in q.seen : Agrees(q, texts)
          /\ \A i \in 1..Len(q.got) : \E texts \in q.seen : texts[i] = q.got[i]
      BY <1>1, <2>6 DEF Knows, Reads
    <3>2. CASE q.back
      <4>1. q.seen # {}
        <5>1. q.checked \in Nat /\ Len(PageOrder) \in Nat
          BY <1>1, WikiAssumption DEF Calls
        <5>2. 1 \in 1..Len(q.got)
          BY <3>1, <5>1 DEF Whole
        <5> QED
          BY <3>1, <5>2
      <4> QED
        BY <1>3a, <3>2
    <3>3. ASSUME ~thread'[u].back, NEW texts \in q.seen, Agrees(q, texts)
          PROVE  Agrees(thread[u], texts)'
      <4>1. \A i \in Places : texts[i] = q.got[i] \/ md'[PageOrder[i]] # q.got[i]
        <5> SUFFICES ASSUME NEW i \in Places, texts[i] # q.got[i],
                            md'[PageOrder[i]] = q.got[i]
                     PROVE  FALSE
          OBVIOUS
        <5>1. md[PageOrder[i]] # q.got[i]
          BY <3>3 DEF Agrees
        <5>2. md' # md
          BY <5>1
        <5>3. CameBack(q) => thread'[u].back
          BY <1>3a, <5>2
        <5>4. i \in 1..Len(q.got)
          BY <3>1 DEF Whole, Places
        <5>5. PICK old \in q.seen : old[i] = q.got[i]
          BY <3>1, <5>4
        <5>6. Texts[i] = md[PageOrder[i]] /\ Texts'[i] = md'[PageOrder[i]]
          BY DEF Texts, Places
        <5>7. CameBack(q)
          BY <5>1, <5>5, <5>6 DEF CameBack, Places
        <5> QED
          BY <3>3, <5>3, <5>7
      <4> QED
        BY <1>2, <3>3, <4>1 DEF Agrees
    <3> QED
      BY <2>4, <3>1, <3>2, <3>3
  <2> QED
    BY <1>1, <1>2, <1>3, <1>3a, <2>1, <2>3, <2>5, <2>6 DEF Knows, Reads, Whole
<1> QED
  BY <1>4, <1>5, <1>7, <1>8, <1>9, <1>10, <1>11 DEF Knows

-----------------------------------------------------------------------------
(* What a thread knows at the places that many steps lead to *)

LEMMA IdleKnows ==
  ASSUME NEW t \in Threads, thread'[t] = Idle
  PROVE  Knows(t)'
BY DEF Idle, Knows, HasLock, Formed, Rebuilding, RowsStaged, Remembers, Walks, Reads, Looks,
       Repairing

LEMMA SynchronisesKnows ==
  ASSUME NEW t \in Threads, thread'[t] = Synchronises, lock' = t
  PROVE  Knows(t)'
<1> DEFINE r == Synchronises
<1>1. /\ r.op = "sync" /\ r.pc = "fetch" /\ r.phase = "sync"
      /\ r.got = <<>> /\ r.seen = {} /\ r.checked = 0
  BY SynchronisesFields
<1>2. thread'[t] = r
  OBVIOUS
<1> HIDE DEF r
<1> QED
  BY <1>1, <1>2 DEF Knows, HasLock, Formed, Rebuilding, RowsStaged, Remembers, Walks, Reads,
                    Looks, Repairing

\* Nothing was read of the files or of the graph.
Unread(q) == q.got = <<>> /\ q.seen = {} /\ q.checked = 0

LEMMA NotReading ==
  ASSUME NEW t, Knows(t),
         thread[t].pc \notin Looks \/ thread[t].pc = "walk"
  PROVE  Unread(thread[t])
BY DEF Knows, Reads, Looks, Unread

\* A thread without a provider, and one that starts again.
LEMMA WithoutKnows ==
  ASSUME NEW t \in Threads, NEW q \in Calls, Formed(q), q.pc # "idle",
         \/ thread'[t] = Without(q) /\ Unread(q)
         \/ thread'[t] = Restarts(q),
         q.op # "search" => lock' = t
  PROVE  Knows(t)'
<1> DEFINE r == thread'[t]
<1>1. q.phase \in {"walk", "fetch", "prepare", "sync"}
  BY DEF Calls
<1>2. /\ r.op = q.op /\ r.on = q.on /\ r.scope = q.on
      /\ r.pc = Without(q).pc
      /\ r.phase = IF q.phase = "fetch" THEN "prepare" ELSE q.phase
      /\ r.got = <<>> /\ r.seen = {} /\ r.checked = 0
  BY WithoutFields, RestartsFields DEF Unread
<1>3. /\ r.pc \in {"collect", "failed", "commit", "inspect", "write", "fetch"}
      /\ q.phase = "walk" <=> r.pc = "collect"
      /\ r.pc \in {"failed", "commit"} => q.op = "index"
      /\ r.pc = "fetch" => q.phase = "sync"
      /\ r.pc \in {"write", "commit"} => q.phase \in {"fetch", "prepare"}
  BY <1>1, <1>2, WithoutFields
<1>4. q.op = "search" <=> q.phase = "walk"
  BY DEF Formed
<1>5. HasLock(t)'
  BY <1>2, <1>3 DEF HasLock, Repairing
<1>6. Formed(thread[t])'
  BY <1>1, <1>2, <1>3, <1>4 DEF Formed, Looks
<1>7. Rebuilding(thread[t])' /\ RowsStaged(thread[t])' /\ Walks(thread[t])'
  BY <1>3 DEF Rebuilding, RowsStaged, Walks
<1>8. Remembers(thread[t])'
  BY <1>2, <1>3 DEF Remembers
<1>9. Reads(thread[t])'
  <2>1. Len(<<>>) = 0 /\ 0 <= Len(PageOrder)
    BY WikiAssumption
  <2> QED
    BY <1>2, <1>3, <2>1 DEF Reads
<1> QED
  BY <1>5, <1>6, <1>7, <1>8, <1>9 DEF Knows

LEMMA CurrentRows ==
  ASSUME md \in [Pages -> Nat], ReadyIsHonest, NEW d \in WikiDomains, Current(d)
  PROVE  graph[d].doubted \/ graph[d].rows = Markdown(d)
BY PrintContents DEF Current, Ready, ReadyIsHonest

\* A thread with a provider: the graph of all its domains was found current.
LEMMA ProvidedKnows ==
  ASSUME WikiInv, NEW t \in Threads, NEW q \in Calls, Formed(q), q.pc # "idle", Unread(q),
         thread'[t] = Provided(q), StaleFor(q) = {},
         graph' = graph, md' = md,
         q.op # "search" => lock' = t
  PROVE  Knows(t)'
<1> DEFINE r == thread'[t]
<1>1. q.phase \in {"walk", "fetch", "prepare", "sync"}
  BY DEF Calls
<1>2. /\ r.op = q.op /\ r.on = q.on /\ r.scope = q.on
      /\ r.pc = Goal(q)
      /\ r.phase = IF q.phase = "fetch" THEN "prepare" ELSE q.phase
      /\ r.got = <<>> /\ r.seen = {} /\ r.checked = 0
  BY ProvidedFields DEF Unread
<1>3. /\ r.pc \in {"walk", "commit", "inspect", "restage", "write", "fetch"}
      /\ q.phase = "walk" <=> r.pc = "walk"
      /\ r.pc = "commit" => q.op = "index"
      /\ r.pc = "restage" => q.op = "index" /\ q.phase = "prepare"
      /\ r.pc = "fetch" => q.phase = "sync"
      /\ r.pc \in {"write", "commit"} => q.phase \in {"fetch", "prepare"}
  BY <1>1, <1>2 DEF Goal
<1>4. q.op = "search" <=> q.phase = "walk"
  BY DEF Formed
<1>5. HasLock(t)'
  BY <1>2, <1>3 DEF HasLock, Repairing
<1>6. Formed(thread[t])'
  BY <1>1, <1>2, <1>3, <1>4 DEF Formed, Looks
<1>7. Rebuilding(thread[t])' /\ Walks(thread[t])'
  BY <1>3 DEF Rebuilding, Walks
<1>8. RowsStaged(thread[t])'
  <2>1. CASE r.pc = "restage"
    <3>1. The(q) \in WikiDomains /\ q.on = {The(q)} /\ q.scope = q.on
      BY <1>3, <2>1, TheIsOn DEF Formed
    <3>2. The(q) \notin Stale
      BY <3>1 DEF StaleFor
    <3>3. Current(The(q))
      BY <3>1, <3>2 DEF Stale
    <3>4. graph[The(q)].doubted \/ graph[The(q)].rows = Markdown(The(q))
      BY <3>1, <3>3, CurrentRows DEF WikiInv, WikiTypeOK
    <3>5. The(r) = The(q)
      BY <1>2 DEF The
    <3>6. \A d : Markdown(d)' = Markdown(d)
      BY DEF Markdown, Present
    <3> QED
      BY <2>1, <3>4, <3>5, <3>6 DEF RowsStaged
  <2>2. CASE r.pc # "restage"
    BY <1>3, <2>2 DEF RowsStaged
  <2> QED
    BY <2>1, <2>2
<1>9. Remembers(thread[t])'
  BY <1>2, <1>3 DEF Remembers
<1>10. Reads(thread[t])'
  BY <1>2, <1>3 DEF Reads, Looks
<1> QED
  BY <1>5, <1>6, <1>7, <1>8, <1>9, <1>10 DEF Knows

-----------------------------------------------------------------------------
(* Steps of one thread *)

LEMMA ThreadStep ==
  ASSUME WikiInv, NEW t \in Threads, WikiTypeOK', ReadyIsHonest', Knows(t)',
         \A u \in Threads \ {t} : \/ thread'[u] = thread[u] /\ md' = md
                                  \/ thread'[u] = Witness(thread[u]),
         versions <= versions',
         \A u \in Threads \ {t} : lock = u => lock' = u,
         (\A u \in Threads \ {t} : lock # u) \/ RowsKept
  PROVE  WikiInv'
<1>1. ASSUME NEW u \in Threads \ {t} PROVE Knows(u)'
  <2>1. versions' \in Nat /\ md' \in [Pages -> Nat]
    BY DEF WikiTypeOK
  <2>2. CASE lock # u
    BY <2>1, <2>2, OtherKeeps
  <2>3. CASE lock = u
    <3>1. RowsKept
      BY <2>3
    <3> QED
      BY <2>1, <2>3, <3>1, OtherKeeps
  <2> QED
    BY <2>2, <2>3
<1> QED
  BY <1>1 DEF WikiInv

\* The files stay as they are.
LEMMA Becoming ==
  ASSUME WikiInv, NEW t \in Threads, NEW r \in Calls, Becomes(t, r),
         md' = md, versions' = versions,
         graph' \in [WikiDomains -> Graphs], broken' \in BOOLEAN, mishaps' \in Nat,
         lock' \in {lock, None, t}, lock \in {None, t} \/ lock' = lock,
         ReadyIsHonest',
         lock \in {None, t} \/ RowsKept,
         thread'[t] = r => Knows(t)'
  PROVE  WikiInv'
<1>1. /\ thread' \in [Threads -> Calls] /\ thread'[t] = r
      /\ \A u \in Threads \ {t} : thread'[u] = thread[u]
  BY DEF Becomes, WikiInv, WikiTypeOK
<1>2. WikiTypeOK'
  BY <1>1 DEF WikiInv, WikiTypeOK
<1>3. versions <= versions'
  BY DEF WikiInv, WikiTypeOK
<1>4. \A u \in Threads : u # None
  BY WikiAssumption
<1>5. \A u \in Threads \ {t} : lock = u => lock' = u
  BY <1>4
<1>6. (\A u \in Threads \ {t} : lock # u) \/ RowsKept
  BY <1>4
<1> QED
  BY <1>1, <1>2, <1>3, <1>5, <1>6, ThreadStep

\* So does the graph, but for what state it is said to be in.
LEMMA BecomingOnly ==
  ASSUME WikiInv, NEW t \in Threads, NEW r \in Calls, Becomes(t, r),
         md' = md, versions' = versions, graph' = graph, broken' = broken,
         mishaps' \in Nat, lock' \in {lock, None, t}, lock \in {None, t} \/ lock' = lock,
         thread'[t] = r => Knows(t)'
  PROVE  WikiInv'
<1>1. graph' \in [WikiDomains -> Graphs] /\ broken' \in BOOLEAN /\ ReadyIsHonest' /\ RowsKept
  BY DEF WikiInv, WikiTypeOK, ReadyIsHonest, RowsKept
<1> QED
  BY <1>1, Becoming

-----------------------------------------------------------------------------
(* scoped_graph *)

LEMMA StaleForIsScope == \A q \in Calls : StaleFor(q) \in SUBSET WikiDomains
BY DEF StaleFor, Calls

\* The next places of a repair, and what is still to be done there.
LEMMA RepairKnows ==
  ASSUME NEW t \in Threads, Knows(t), thread[t] \in Calls, Unread(thread[t]),
         NEW point \in {"mark", "wait", "rebuild", "loaded"}, NEW r \in Calls,
         thread'[t] = r, r.pc = point, r.op = thread[t].op, r.on = thread[t].on,
         r.scope = thread[t].scope, r.phase = thread[t].phase,
         r.got = <<>>, r.seen = {}, r.checked = 0,
         thread[t].pc # "idle",
         point \in Repairing \/ r.op # "search" => lock' = t
  PROVE  Knows(t)'
BY DEF Knows, HasLock, Formed, Rebuilding, RowsStaged, Remembers, Walks, Reads, Looks,
       Repairing

LEMMA InspectStep ==
  ASSUME WikiInv, NEW t \in Threads, Inspect(t)
  PROVE  WikiInv'
<1> DEFINE q == thread[t]
<1>1. q \in Calls /\ Knows(t) /\ mishaps \in Nat
  BY DEF WikiInv, WikiTypeOK
<1>2. q.pc = "inspect" /\ md' = md /\ versions' = versions /\ mishaps' = mishaps
      /\ graph' = graph /\ broken' = broken /\ lock' = lock
  BY DEF Inspect, fileVars, storeVars
<1>3. Formed(q) /\ Unread(q) /\ (q.op # "search" => lock' = t)
  BY <1>1, <1>2, NotReading DEF Knows, Looks, HasLock
<1>4. CASE StaleFor(q) = {}
  <2>1. Becomes(t, Provided(q))
    BY <1>4 DEF Inspect
  <2>2. Provided(q) \in Calls
    BY <1>1, ProvidedIsCall DEF WikiInv, WikiTypeOK
  <2> QED
    BY <1>1, <1>2, <1>3, <1>4, <2>1, <2>2, ProvidedKnows, BecomingOnly
<1>5. CASE StaleFor(q) # {} /\ q.op = "batch" /\ broken
  <2>1. Becomes(t, Without(q))
    BY <1>5 DEF Inspect
  <2>2. Without(q) \in Calls
    BY <1>1, WithoutFields
  <2> QED
    BY <1>1, <1>2, <1>3, <2>1, <2>2, WithoutKnows, BecomingOnly
<1>6. CASE StaleFor(q) # {} /\ ~(q.op = "batch" /\ broken)
  <2> DEFINE point == IF q.op = "batch" THEN "rebuild" ELSE IF broken THEN "wait" ELSE "mark"
             todo == StaleFor(q)
             r == [q EXCEPT !.pc = point, !.todo = todo]
  <2>1. Becomes(t, r)
    BY <1>6 DEF Inspect
  <2>2. point \in {"mark", "wait", "rebuild"} /\ (point = "rebuild" => q.op = "batch")
    OBVIOUS
  <2>3. point \in Pcs
    <3> HIDE DEF point
    <3> QED
      BY <2>2, Zenon DEF Pcs
  <2>4. todo \in SUBSET WikiDomains
    BY <1>1, StaleForIsScope
  <2> HIDE DEF point, todo
  <2>5. r \in Calls
    BY <1>1, <2>3, <2>4, ZenonT(20) DEF Calls
  <2>6. /\ r.pc = point /\ r.op = q.op /\ r.on = q.on /\ r.scope = q.scope
        /\ r.phase = q.phase /\ r.got = q.got /\ r.seen = q.seen /\ r.checked = q.checked
    BY <1>1 DEF Calls
  <2> HIDE DEF r
  <2>7. thread'[t] = r => Knows(t)'
    BY <1>1, <1>2, <1>3, <2>2, <2>5, <2>6, RepairKnows DEF Repairing, Unread
  <2> QED
    BY <1>1, <1>2, <2>1, <2>5, <2>7, BecomingOnly
<1> QED
  BY <1>4, <1>5, <1>6

LEMMA DirtiedGraph ==
  ASSUME graph \in [WikiDomains -> Graphs], ReadyIsHonest, NEW S,
         graph' = [d \in WikiDomains |-> IF d \in S THEN [graph[d] EXCEPT !.state = "dirty"]
                                         ELSE graph[d]]
  PROVE  /\ graph' \in [WikiDomains -> Graphs] /\ ReadyIsHonest'
         /\ RowsKept
BY DEF Graphs, ReadyIsHonest, RowsKept

LEMMA DirtiedOne ==
  ASSUME graph \in [WikiDomains -> Graphs], ReadyIsHonest, NEW d, graph' = Dirtied(d)
  PROVE  /\ graph' \in [WikiDomains -> Graphs] /\ ReadyIsHonest'
         /\ RowsKept
BY DEF Graphs, ReadyIsHonest, Dirtied, RowsKept

LEMMA MarkStaleStep ==
  ASSUME WikiInv, NEW t \in Threads, MarkStale(t)
  PROVE  WikiInv'
<1> DEFINE q == thread[t]
<1>1. q \in Calls /\ Knows(t) /\ mishaps \in Nat
  BY DEF WikiInv, WikiTypeOK
<1>2. q.pc = "mark" /\ md' = md /\ versions' = versions /\ mishaps' = mishaps
      /\ broken' = broken /\ lock' = lock /\ broken \in BOOLEAN
  BY DEF MarkStale, fileVars, WikiInv, WikiTypeOK
<1>3. Formed(q) /\ Unread(q) /\ (q.op # "search" => lock' = t)
  BY <1>1, <1>2, NotReading DEF Knows, Looks, HasLock
<1> PICK d \in q.todo :
       /\ graph' = Dirtied(d)
       /\ Becomes(t, [q EXCEPT !.todo = @ \ {d},
                               !.pc = IF q.todo = {d} THEN "wait" ELSE "mark"])
  BY DEF MarkStale
<1> DEFINE todo == q.todo \ {d}
           point == IF q.todo = {d} THEN "wait" ELSE "mark"
           r == [q EXCEPT !.todo = todo, !.pc = point]
<1>4. Becomes(t, r)
  OBVIOUS
<1>5. todo \in SUBSET WikiDomains /\ point \in {"mark", "wait"}
  BY <1>1 DEF Calls
<1>6. point \in Pcs
  <2> HIDE DEF point
  <2> QED
    BY <1>5, Zenon DEF Pcs
<1> HIDE DEF point, todo
<1>7. r \in Calls
  BY <1>1, <1>5, <1>6, ZenonT(20) DEF Calls
<1>8. /\ r.pc = point /\ r.op = q.op /\ r.on = q.on /\ r.scope = q.scope
      /\ r.phase = q.phase /\ r.got = q.got /\ r.seen = q.seen /\ r.checked = q.checked
  BY <1>1 DEF Calls
<1> HIDE DEF r
<1>9. thread'[t] = r => Knows(t)'
  BY <1>1, <1>2, <1>3, <1>5, <1>7, <1>8, RepairKnows DEF Repairing, Unread
<1>10. /\ graph' \in [WikiDomains -> Graphs] /\ ReadyIsHonest'
       /\ RowsKept
  BY DirtiedOne DEF WikiInv, WikiTypeOK
<1> QED
  BY <1>1, <1>2, <1>4, <1>7, <1>9, <1>10, Becoming

LEMMA LockTimeoutStep ==
  ASSUME WikiInv, NEW t \in Threads, LockTimeout(t)
  PROVE  WikiInv'
<1> DEFINE q == thread[t]
<1>1. q \in Calls /\ Knows(t) /\ mishaps \in Nat
  BY DEF WikiInv, WikiTypeOK
<1>2. q.pc = "wait" /\ md' = md /\ versions' = versions /\ mishaps' = mishaps
      /\ graph' = graph /\ broken' = broken /\ lock' = lock /\ Becomes(t, Without(q))
  BY DEF LockTimeout, fileVars, storeVars
<1>3. Formed(q) /\ Unread(q) /\ (q.op # "search" => lock' = t)
  BY <1>1, <1>2, NotReading DEF Knows, Looks, HasLock
<1>4. Without(q) \in Calls
  BY <1>1, WithoutFields
<1> QED
  BY <1>1, <1>2, <1>3, <1>4, WithoutKnows, BecomingOnly

LEMMA LockStep ==
  ASSUME WikiInv, NEW t \in Threads, Lock(t)
  PROVE  WikiInv'
<1> DEFINE q == thread[t]
<1>1. q \in Calls /\ Knows(t) /\ mishaps \in Nat /\ graph \in [WikiDomains -> Graphs]
  BY DEF WikiInv, WikiTypeOK
<1>2. q.pc = "wait" /\ md' = md /\ versions' = versions /\ mishaps' = mishaps
      /\ lock \in {None, t}
  BY DEF Lock, fileVars
<1>3. Formed(q) /\ Unread(q) /\ (q.op # "search" => lock = t)
  BY <1>1, <1>2, NotReading DEF Knows, Looks, HasLock
<1>4. CASE StaleFor(q) = {}
  <2>1. Becomes(t, Provided(q)) /\ graph' = graph /\ broken' = broken /\ lock' = lock
    BY <1>4 DEF Lock, storeVars
  <2>2. Provided(q) \in Calls
    BY <1>1, ProvidedIsCall DEF WikiInv, WikiTypeOK
  <2> QED
    BY <1>1, <1>2, <1>3, <1>4, <2>1, <2>2, ProvidedKnows, BecomingOnly
<1>5. CASE StaleFor(q) # {}
  <2> DEFINE todo == StaleFor(q)
             r == [q EXCEPT !.pc = "rebuild", !.todo = todo]
  <2>1. Becomes(t, r) /\ lock' = t /\ broken' = FALSE
        /\ graph' = IF broken THEN [d \in WikiDomains |-> NoRow] ELSE graph
    BY <1>5 DEF Lock, Opened
  <2>2. todo \in SUBSET WikiDomains /\ "rebuild" \in Pcs
    BY <1>1, StaleForIsScope DEF Pcs
  <2> HIDE DEF todo
  <2>3. r \in Calls
    BY <1>1, <2>2, ZenonT(20) DEF Calls
  <2>4. /\ r.pc = "rebuild" /\ r.op = q.op /\ r.on = q.on /\ r.scope = q.scope
        /\ r.phase = q.phase /\ r.got = q.got /\ r.seen = q.seen /\ r.checked = q.checked
    BY <1>1 DEF Calls
  <2> HIDE DEF r
  <2>5. thread'[t] = r => Knows(t)'
    BY <1>1, <1>2, <1>3, <2>1, <2>3, <2>4, RepairKnows DEF Unread
  <2>6. graph' \in [WikiDomains -> Graphs] /\ ReadyIsHonest'
    <3>1. NoRow \in Graphs /\ NoRow.state = "missing"
      BY NoPagesAreRows DEF NoRow, Graphs, Prints
    <3> QED
      BY <1>1, <2>1, <3>1 DEF ReadyIsHonest, WikiInv
  <2> QED
    BY <1>1, <1>2, <2>1, <2>3, <2>5, <2>6, Becoming
<1> QED
  BY <1>4, <1>5

LEMMA LoadedStep ==
  ASSUME WikiInv, NEW t \in Threads, Loaded(t)
  PROVE  WikiInv'
<1> DEFINE q == thread[t]
<1>1. q \in Calls /\ Knows(t) /\ mishaps \in Nat
  BY DEF WikiInv, WikiTypeOK
<1>2. q.pc = "loaded" /\ md' = md /\ versions' = versions /\ mishaps' = mishaps
      /\ graph' = graph /\ broken' = broken
      /\ lock' = IF lock = t /\ q.op = "search" THEN None ELSE lock
  BY DEF Loaded, fileVars, storeVars, Lets
<1>3. Formed(q) /\ Unread(q) /\ lock = t
  BY <1>1, <1>2, NotReading DEF Knows, Looks, HasLock, Repairing
<1>4. CASE StaleFor(q) = {}
  <2>1. Becomes(t, Provided(q))
    BY <1>4 DEF Loaded
  <2>2. Provided(q) \in Calls
    BY <1>1, ProvidedIsCall DEF WikiInv, WikiTypeOK
  <2> QED
    BY <1>1, <1>2, <1>3, <1>4, <2>1, <2>2, ProvidedKnows, BecomingOnly
<1>5. CASE StaleFor(q) # {}
  <2>1. Becomes(t, Without(q))
    BY <1>5 DEF Loaded
  <2>2. Without(q) \in Calls
    BY <1>1, WithoutFields
  <2> QED
    BY <1>1, <1>2, <1>3, <2>1, <2>2, WithoutKnows, BecomingOnly
<1> QED
  BY <1>4, <1>5

LEMMA BeginRebuildStep ==
  ASSUME WikiInv, NEW t \in Threads, BeginRebuild(t)
  PROVE  WikiInv'
<1> DEFINE q == thread[t]
<1>1. q \in Calls /\ Knows(t) /\ mishaps \in Nat /\ graph \in [WikiDomains -> Graphs]
      /\ md \in [Pages -> Nat] /\ broken \in BOOLEAN /\ ReadyIsHonest
  BY DEF WikiInv, WikiTypeOK
<1>2. q.pc = "rebuild" /\ md' = md /\ versions' = versions /\ mishaps' = mishaps
      /\ broken' = broken /\ lock' = lock
  BY DEF BeginRebuild, fileVars
<1>3. Formed(q) /\ Unread(q) /\ lock = t
  BY <1>1, <1>2, NotReading DEF Knows, Looks, HasLock, Repairing
<1> PICK d \in q.todo :
       /\ graph' = [graph EXCEPT ![d].state = "rebuilding"]
       /\ Becomes(t, [q EXCEPT !.pc = "snapshot", !.at = d, !.print = markdown_fingerprint(d)])
  BY DEF BeginRebuild
<1> DEFINE print == markdown_fingerprint(d)
           r == [q EXCEPT !.pc = "snapshot", !.at = d, !.print = print]
<1>4. Becomes(t, r) /\ graph' = [graph EXCEPT ![d].state = "rebuilding"]
  OBVIOUS
<1>5. d \in WikiDomains /\ print \in FilePrints /\ print \in Prints /\ "snapshot" \in Pcs
  BY <1>1, PrintIsPrint DEF Calls, Pcs
<1>6. \A f \in DOMAIN print : f \in Pages /\ f[1] = d /\ print[f][1] # 0
  <2>1. /\ DOMAIN print = Present(d)
        /\ \A f \in Present(d) : print[f][1] = md[f]
    BY DEF markdown_fingerprint
  <2>2. \A f \in Present(d) : f \in Pages /\ f[1] = d /\ md[f] # 0
    BY DEF Present
  <2> QED
    BY <2>1, <2>2
<1> HIDE DEF print
<1>7. r \in Calls
  BY <1>1, <1>5, ZenonT(20) DEF Calls
<1>8. /\ r.pc = "snapshot" /\ r.at = d /\ r.print = print /\ r.op = q.op /\ r.on = q.on
      /\ r.scope = q.scope /\ r.phase = q.phase /\ r.got = q.got /\ r.seen = q.seen
      /\ r.checked = q.checked
  BY <1>1 DEF Calls
<1> HIDE DEF r
<1>9. ASSUME thread'[t] = r PROVE Knows(t)'
  <2>1. Rebuilding(thread[t])'
    BY <1>2, <1>5, <1>6, <1>8, <1>9 DEF Rebuilding
  <2>2. HasLock(t)'
    BY <1>2, <1>3 DEF HasLock
  <2>3. Formed(thread[t])'
    BY <1>3, <1>8, <1>9, <1>2 DEF Formed, Looks
  <2> QED
    BY <1>3, <1>8, <1>9, <2>1, <2>2, <2>3
       DEF Knows, RowsStaged, Remembers, Walks, Reads, Looks, Unread
<1>10. /\ graph' \in [WikiDomains -> Graphs] /\ ReadyIsHonest'
       /\ RowsKept
  BY <1>1, <1>4, <1>5 DEF Graphs, ReadyIsHonest, RowsKept
<1> QED
  BY <1>1, <1>2, <1>3, <1>4, <1>7, <1>9, <1>10, Becoming

LEMMA SnapshotStep ==
  ASSUME WikiInv, NEW t \in Threads, build_domain_snapshot(t)
  PROVE  WikiInv'
<1> DEFINE q == thread[t]
<1>1. q \in Calls /\ Knows(t) /\ mishaps \in Nat /\ md \in [Pages -> Nat]
  BY DEF WikiInv, WikiTypeOK
<1>2. q.pc = "snapshot" /\ md' = md /\ versions' = versions /\ mishaps' = mishaps
      /\ graph' = graph /\ broken' = broken /\ lock' = lock
  BY DEF build_domain_snapshot, fileVars, storeVars
<1>3. Formed(q) /\ Unread(q) /\ lock = t /\ Rebuilding(q)
  BY <1>1, <1>2, NotReading DEF Knows, Looks, HasLock, Repairing
<1> DEFINE rows == Markdown(q.at)
           r == [q EXCEPT !.pc = "put", !.snap = rows]
<1>4. Becomes(t, r)
  BY DEF build_domain_snapshot
<1>5. rows \in Rows /\ "put" \in Pcs
  BY <1>1, MarkdownIsRows DEF Pcs
<1>6. /\ \A f \in DOMAIN rows : f \in Pages /\ f[1] = q.at /\ rows[f] # 0
      /\ \A f \in Pages : f[1] = q.at => In(rows, f) = md[f]
  BY DEF Markdown, Present, In
<1> HIDE DEF rows
<1>7. r \in Calls
  BY <1>1, <1>5, ZenonT(20) DEF Calls
<1>8. /\ r.pc = "put" /\ r.at = q.at /\ r.print = q.print /\ r.op = q.op /\ r.on = q.on
      /\ r.scope = q.scope /\ r.phase = q.phase /\ r.got = q.got /\ r.seen = q.seen
      /\ r.checked = q.checked /\ r.snap = rows
  BY <1>1 DEF Calls
<1> HIDE DEF r
<1>9. ASSUME thread'[t] = r PROVE Knows(t)'
  <2>1. Rebuilding(thread[t])'
    <3>2. /\ q.at \in WikiDomains /\ q.print \in FilePrints
          /\ \A f \in DOMAIN q.print : f \in Pages /\ f[1] = q.at /\ q.print[f][1] # 0
      BY <1>2, <1>3 DEF Rebuilding
    <3> QED
      BY <1>2, <1>6, <1>8, <1>9, <3>2 DEF Rebuilding
  <2>2. HasLock(t)'
    BY <1>2, <1>3 DEF HasLock
  <2>3. Formed(thread[t])'
    BY <1>3, <1>8, <1>9, <1>2 DEF Formed, Looks
  <2> QED
    BY <1>3, <1>8, <1>9, <2>1, <2>2, <2>3
       DEF Knows, RowsStaged, Remembers, Walks, Reads, Looks, Unread
<1> QED
  BY <1>1, <1>2, <1>4, <1>7, <1>9, BecomingOnly

\* What was read between two looks that found the same was there at both.
LEMMA SnapIsContents ==
  ASSUME md \in [Pages -> Nat], NEW q \in Calls, Rebuilding(q), q.pc = "put",
         ~q.back, Unchanged(q.at, q.print)
  PROVE  q.snap = Contents(q.print)
<1> DEFINE d == q.at
<1>1. /\ \A f \in DOMAIN q.snap : f \in Pages /\ f[1] = d /\ q.snap[f] # 0
      /\ \A f \in Pages : f[1] = d => \/ In(q.snap, f) = In(Contents(q.print), f)
                                      \/ md[f] # In(Contents(q.print), f)
  BY DEF Rebuilding
<1>2. q.print = markdown_fingerprint(d) /\ Contents(q.print) = Markdown(d)
  BY PrintContents DEF Unchanged
<1>3. \A f \in Pages : f[1] = d => In(Contents(q.print), f) = md[f]
  BY <1>2 DEF In, Markdown, Present
<1>4. q.snap \in Rows
  BY DEF Calls
<1>6. \A f \in Pages : f[1] = d => In(q.snap, f) = md[f]
  BY <1>1, <1>3
<1>7. DOMAIN q.snap = Present(d)
  <2>1. ASSUME NEW f \in DOMAIN q.snap PROVE f \in Present(d)
    BY <1>1, <1>6 DEF In, Present
  <2>2. ASSUME NEW f \in Present(d) PROVE f \in DOMAIN q.snap
    BY <1>6 DEF In, Present
  <2> QED
    BY <2>1, <2>2
<1>8. \A f \in DOMAIN q.snap : q.snap[f] = md[f]
  BY <1>1, <1>6 DEF In
<1>9. q.snap = [f \in DOMAIN q.snap |-> q.snap[f]]
  BY <1>4 DEF Rows
<1> QED
  BY <1>2, <1>7, <1>8, <1>9 DEF Markdown

LEMMA RebuildStep ==
  ASSUME WikiInv, NEW t \in Threads, rebuild_domain(t)
  PROVE  WikiInv'
<1> DEFINE q == thread[t]
<1>1. q \in Calls /\ Knows(t) /\ mishaps \in Nat /\ graph \in [WikiDomains -> Graphs]
      /\ md \in [Pages -> Nat] /\ broken \in BOOLEAN /\ ReadyIsHonest
  BY DEF WikiInv, WikiTypeOK
<1>2. q.pc = "put" /\ md' = md /\ versions' = versions /\ mishaps' = mishaps
      /\ broken' = broken
  BY DEF rebuild_domain, fileVars
<1>3. Formed(q) /\ Unread(q) /\ lock = t /\ Rebuilding(q)
  BY <1>1, <1>2, NotReading DEF Knows, Looks, HasLock, Repairing
<1>4. CASE Unchanged(q.at, q.print)
  <2> DEFINE todo == q.todo \ {q.at}
             point == IF q.todo = {q.at} THEN "loaded" ELSE "rebuild"
             r == [q EXCEPT !.todo = todo, !.at = None, !.snap = NoPages, !.print = None,
                            !.back = FALSE, !.pc = point]
  <2>1. /\ Becomes(t, r) /\ lock' = lock
        /\ graph' = [graph EXCEPT ![q.at] =
                        [state |-> "ready", print |-> q.print, rows |-> q.snap,
                         doubted |-> q.back]]
    BY <1>4 DEF rebuild_domain
  <2>2. todo \in SUBSET WikiDomains /\ point \in {"loaded", "rebuild"} /\ None \in Prints
    BY <1>1 DEF Calls, Prints
  <2>3. point \in Pcs
    <3> HIDE DEF point
    <3> QED
      BY <2>2, Zenon DEF Pcs
  <2> HIDE DEF todo, point
  <2>4. r \in Calls
    BY <1>1, <2>2, <2>3, NoPagesAreRows, ZenonT(20) DEF Calls
  <2>5. /\ r.pc = point /\ r.op = q.op /\ r.on = q.on /\ r.scope = q.scope
        /\ r.phase = q.phase /\ r.got = q.got /\ r.seen = q.seen /\ r.checked = q.checked
    BY <1>1 DEF Calls
  <2> HIDE DEF r
  <2>6. thread'[t] = r => Knows(t)'
    BY <1>1, <1>2, <1>3, <2>1, <2>2, <2>4, <2>5, RepairKnows DEF Unread
  <2>7. graph' \in [WikiDomains -> Graphs] /\ ReadyIsHonest'
    <3>1. /\ q.print \in Prints /\ q.snap \in Rows /\ q.back \in BOOLEAN
          /\ q.back \/ q.snap = Contents(q.print)
      BY <1>1, <1>2, <1>3, <1>4, SnapIsContents DEF Calls
    <3> QED
      BY <1>1, <2>1, <3>1 DEF Graphs, ReadyIsHonest
  <2> QED
    BY <1>1, <1>2, <1>3, <2>1, <2>4, <2>6, <2>7, Becoming
<1>5. CASE ~Unchanged(q.at, q.print)
  <2>1. /\ Becomes(t, Without(q)) /\ graph' = Dirtied(q.at)
        /\ lock' = IF lock = t /\ q.op = "search" THEN None ELSE lock
    BY <1>5 DEF rebuild_domain, Lets
  <2>2. Without(q) \in Calls
    BY <1>1, WithoutFields
  <2>3. thread'[t] = Without(q) => Knows(t)'
    BY <1>1, <1>2, <1>3, <2>1, WithoutKnows
  <2>4. /\ graph' \in [WikiDomains -> Graphs] /\ ReadyIsHonest'
        /\ RowsKept
    BY <1>1, <2>1, DirtiedOne
  <2> QED
    BY <1>1, <1>2, <1>3, <2>1, <2>2, <2>3, <2>4, Becoming
<1> QED
  BY <1>4, <1>5

-----------------------------------------------------------------------------
(* Searches *)

LEMMA SearchBegins ==
  ASSUME WikiInv, NEW t \in Threads, Search(t)
  PROVE  WikiInv'
<1> DEFINE r == [Idle EXCEPT !.op = "search", !.pc = "inspect", !.on = WikiDomains,
                             !.scope = WikiDomains]
<1>1. mishaps \in Nat /\ Becomes(t, r)
      /\ md' = md /\ versions' = versions /\ mishaps' = mishaps
      /\ graph' = graph /\ broken' = broken /\ lock' = lock
  BY DEF WikiInv, WikiTypeOK, Search, fileVars, storeVars
<1>2. r \in Calls
  <2> DEFINE i == Idle
  <2>1. i \in Calls /\ "inspect" \in Pcs
    BY IdleIsCall DEF Pcs
  <2> HIDE DEF i
  <2>2. [i EXCEPT !.op = "search", !.pc = "inspect", !.on = WikiDomains,
                  !.scope = WikiDomains] \in Calls
    BY <2>1, ZenonT(20) DEF Calls
  <2> QED
    BY <2>2 DEF i
<1>3. /\ r.pc = "inspect" /\ r.op = "search" /\ r.phase = "walk"
      /\ r.got = <<>> /\ r.seen = {} /\ r.checked = 0
  BY DEF Idle
<1> HIDE DEF r
<1>4. thread'[t] = r => Knows(t)'
  BY <1>3 DEF Knows, HasLock, Formed, Rebuilding, RowsStaged, Remembers, Walks, Reads, Looks,
              Repairing
<1> QED
  BY <1>1, <1>2, <1>4, BecomingOnly

LEMMA WalkedIsMeant ==
  ASSUME ReadyIsHonest, NEW q \in Calls, StillReady(q)
  PROVE  (\E d \in WikiDomains : graph[d].doubted) \/ Walked = Meant(q.prints)
<1> SUFFICES ASSUME \A d \in WikiDomains : ~graph[d].doubted
             PROVE  Walked = Meant(q.prints)
  OBVIOUS
<1>1. ASSUME NEW i \in Places
      PROVE  Walked[i] = Meant(q.prints)[i]
  <2> DEFINE f == PageOrder[i]
  <2>1. f[1] \in WikiDomains
    BY PlacesArePages, PagesArePairs
  <2>2. graph[f[1]].rows = Contents(q.prints[f[1]])
    BY <2>1 DEF StillReady, Ready, ReadyIsHonest
  <2> QED
    BY <2>2 DEF Walked, Meant, In, Places
<1>2. Walked = [i \in Places |-> Walked[i]] /\ Meant(q.prints) = [i \in Places |-> Meant(q.prints)[i]]
  BY DEF Walked, Meant, Places
<1> QED
  BY <1>1, <1>2

LEMMA WalkedIsSeq ==
  ASSUME graph \in [WikiDomains -> Graphs]
  PROVE  Walked \in Seq(Nat)
<1>1. ASSUME NEW i \in 1..Len(PageOrder)
      PROVE  Walked[i] \in Nat
  <2> DEFINE f == PageOrder[i]
  <2>1. f[1] \in WikiDomains
    BY PlacesArePages, PagesArePairs DEF Places
  <2>2. graph[f[1]].rows \in Rows
    BY <2>1 DEF Graphs
  <2> QED
    BY <2>2 DEF Walked, Rows
<1>2. Walked \in [1..Len(PageOrder) -> Nat] /\ Len(PageOrder) \in Nat
  BY <1>1, WikiAssumption DEF Walked
<1> QED
  BY <1>2

LEMMA RestartsStep ==
  ASSUME WikiInv, NEW t \in Threads, thread[t].pc \in Looks, Becomes(t, Restarts(thread[t])),
         md' = md, versions' = versions, mishaps' \in Nat, broken' \in BOOLEAN, lock' = lock,
         graph' \in [WikiDomains -> Graphs], ReadyIsHonest',
         RowsKept
  PROVE  WikiInv'
<1> DEFINE q == thread[t]
<1>1. q \in Calls /\ Formed(q) /\ q.pc # "idle" /\ q.op = "search"
  BY DEF WikiInv, WikiTypeOK, Knows, Formed, Looks
<1>2. Restarts(q) \in Calls
  BY <1>1, RestartsFields
<1>3. thread'[t] = Restarts(q) => Knows(t)'
  BY <1>1, WithoutKnows
<1> QED
  BY <1>2, <1>3, Becoming

LEMMA NeighborsStep ==
  ASSUME WikiInv, NEW t \in Threads, neighbors(t)
  PROVE  WikiInv'
<1> DEFINE q == thread[t]
           doubt == q.back \/ \E d \in WikiDomains : graph[d].doubted
<1>1. q \in Calls /\ Knows(t) /\ mishaps \in Nat /\ graph \in [WikiDomains -> Graphs]
      /\ broken \in BOOLEAN /\ ReadyIsHonest
  BY DEF WikiInv, WikiTypeOK
<1>2. q.pc \in {"walk", "farther"} /\ md' = md /\ versions' = versions /\ mishaps' = mishaps
      /\ graph' = graph /\ broken' = broken /\ lock' = lock
  BY DEF neighbors, fileVars, storeVars
<1>3. Formed(q) /\ q.op = "search"
  BY <1>1, <1>2 DEF Knows, Looks, Formed
<1>3a. doubt \in BOOLEAN /\ (q.back => doubt)
  BY <1>1 DEF Calls
<1>4. CASE ~StillReady(q)
  <2>1. Becomes(t, Restarts(q)) /\ q.pc \in Looks
    BY <1>2, <1>4 DEF neighbors, Looks
  <2>2. graph' \in [WikiDomains -> Graphs] /\ ReadyIsHonest' /\ RowsKept
    BY <1>1, <1>2 DEF ReadyIsHonest, RowsKept
  <2> QED
    BY <1>1, <1>2, <2>1, <2>2, RestartsStep
<1>5. CASE StillReady(q) /\ q.pc = "walk"
  <2> DEFINE got == Walked
             r == [q EXCEPT !.pc = "farther", !.got = got, !.back = doubt]
  <2>1. Becomes(t, r)
    BY <1>5 DEF neighbors
  <2>2. got \in Seq(Nat) /\ (doubt \/ got = Meant(q.prints)) /\ "farther" \in Pcs
    BY <1>1, <1>5, WalkedIsSeq, WalkedIsMeant DEF Pcs, Looks
  <2> HIDE DEF got, doubt
  <2>3. r \in Calls
    BY <1>1, <1>3a, <2>2, ZenonT(20) DEF Calls
  <2>4. /\ r.pc = "farther" /\ r.op = q.op /\ r.on = q.on /\ r.scope = q.scope
        /\ r.phase = q.phase /\ r.got = got /\ r.seen = q.seen /\ r.checked = q.checked
        /\ r.prints = q.prints /\ r.back = doubt
    BY <1>1 DEF Calls
  <2> HIDE DEF r
  <2>5. q.seen = {} /\ q.checked = 0
    BY <1>1, <1>5 DEF Knows, Reads
  <2>6. ASSUME thread'[t] = r PROVE Knows(t)'
    <3>1. Walks(thread[t])'
      BY <2>2, <2>4, <2>6 DEF Walks
    <3>2. Formed(thread[t])'
      BY <1>2, <1>3, <2>4, <2>6 DEF Formed, Looks
    <3> QED
      BY <1>3, <2>4, <2>5, <2>6, <3>1, <3>2
         DEF Knows, HasLock, Rebuilding, RowsStaged, Remembers, Reads, Looks, Repairing
  <2> QED
    BY <1>1, <1>2, <2>1, <2>3, <2>6, BecomingOnly
<1>6. CASE StillReady(q) /\ q.pc = "farther"
  <2> DEFINE again == Walked
             r == [q EXCEPT !.pc = "confirm", !.again = again, !.back = doubt]
  <2>1. Becomes(t, r)
    BY <1>6 DEF neighbors
  <2>2. again \in Seq(Nat) /\ (doubt \/ again = Meant(q.prints)) /\ "confirm" \in Pcs
    BY <1>1, <1>6, WalkedIsSeq, WalkedIsMeant DEF Pcs, Looks
  <2> HIDE DEF again, doubt
  <2>3. r \in Calls
    BY <1>1, <1>3a, <2>2, ZenonT(20) DEF Calls
  <2>4. /\ r.pc = "confirm" /\ r.op = q.op /\ r.on = q.on /\ r.scope = q.scope
        /\ r.phase = q.phase /\ r.got = q.got /\ r.seen = q.seen /\ r.checked = q.checked
        /\ r.prints = q.prints /\ r.again = again /\ r.back = doubt
    BY <1>1 DEF Calls
  <2> HIDE DEF r
  <2>5. q.seen = {} /\ q.checked = 0 /\ (doubt \/ q.got = Meant(q.prints))
    BY <1>1, <1>6, <1>3a DEF Knows, Reads, Walks
  <2>6. ASSUME thread'[t] = r PROVE Knows(t)'
    <3>1. Walks(thread[t])'
      BY <2>2, <2>4, <2>5, <2>6 DEF Walks
    <3>2. Formed(thread[t])'
      BY <1>2, <1>3, <2>4, <2>6 DEF Formed, Looks
    <3> QED
      BY <1>3, <2>4, <2>5, <2>6, <3>1, <3>2
         DEF Knows, HasLock, Rebuilding, RowsStaged, Remembers, Reads, Looks, Repairing
  <2> QED
    BY <1>1, <1>2, <2>1, <2>3, <2>6, BecomingOnly
<1> QED
  BY <1>2, <1>4, <1>5, <1>6

LEMMA EnsureCurrentStep ==
  ASSUME WikiInv, NEW t \in Threads, ensure_current(t)
  PROVE  WikiInv'
<1> DEFINE q == thread[t]
           changed == {d \in WikiDomains : ~Unchanged(d, q.prints[d])}
<1>1. mishaps \in Nat /\ graph \in [WikiDomains -> Graphs] /\ broken \in BOOLEAN
      /\ ReadyIsHonest
  BY DEF WikiInv, WikiTypeOK
<1>2. q.pc = "confirm" /\ md' = md /\ versions' = versions /\ mishaps' = mishaps
      /\ broken' = broken /\ lock' = lock
      /\ graph' = [d \in WikiDomains |-> IF d \in changed
                        THEN [graph[d] EXCEPT !.state = "dirty"] ELSE graph[d]]
      /\ (Becomes(t, Idle) \/ Becomes(t, Restarts(q)))
  BY DEF ensure_current, fileVars
<1> HIDE DEF changed
<1>3. /\ graph' \in [WikiDomains -> Graphs] /\ ReadyIsHonest'
      /\ RowsKept
  BY <1>1, <1>2, DirtiedGraph
<1>4. CASE Becomes(t, Idle)
  <2>1. thread'[t] = Idle => Knows(t)'
    BY IdleKnows
  <2> QED
    BY <1>1, <1>2, <1>3, <1>4, <2>1, IdleIsCall, Becoming
<1>5. CASE Becomes(t, Restarts(q))
  BY <1>1, <1>2, <1>3, <1>5, RestartsStep DEF Looks
<1> QED
  BY <1>2, <1>4, <1>5

LEMMA FirstPassStep ==
  ASSUME WikiInv, NEW t \in Threads, FirstPass(t)
  PROVE  WikiInv'
<1> DEFINE q == thread[t]
<1>1. q \in Calls /\ Knows(t) /\ mishaps \in Nat /\ md \in [Pages -> Nat]
  BY DEF WikiInv, WikiTypeOK
<1>2. q.pc = "collect" /\ ~Whole(q.got) /\ md' = md /\ versions' = versions
      /\ mishaps' = mishaps /\ graph' = graph /\ broken' = broken /\ lock' = lock
  BY DEF FirstPass, fileVars, storeVars
<1>3. Formed(q) /\ q.op = "search" /\ Reads(q) /\ q.checked = 0
  BY <1>1, <1>2 DEF Knows, Looks, Formed, Reads
<1> DEFINE n == Len(q.got)
           new == md[PageOrder[n + 1]]
           got == Further(q.got)
           seen == q.seen \cup {Texts}
           point == IF Whole(Further(q.got)) THEN "again" ELSE q.pc
           r == [q EXCEPT !.got = got, !.seen = seen, !.pc = point]
<1>4. Becomes(t, r)
  BY DEF FirstPass
<1>5. Len(PageOrder) \in Nat /\ n \in Nat /\ n < Len(PageOrder) /\ n + 1 \in Places
  <2>1. Len(PageOrder) \in Nat /\ n \in Nat
    BY <1>1, WikiAssumption DEF Calls
  <2>2. n <= Len(PageOrder) /\ n # Len(PageOrder)
    BY <1>2, <1>3 DEF Reads, Whole
  <2> QED
    BY <2>1, <2>2 DEF Places
<1>6. new \in Nat /\ Texts[n + 1] = new
  BY <1>1, <1>5, PlacesArePages DEF Texts, Places
<1>7. /\ got \in Seq(Nat) /\ Len(got) = n + 1 /\ got[n + 1] = new
      /\ \A i \in 1..n : got[i] = q.got[i]
  <2>1. q.got \in Seq(Nat) /\ got = Append(q.got, new)
    BY <1>1 DEF Calls, Further
  <2> HIDE DEF got, new
  <2> QED
    BY <1>6, <2>1
<1>8. Texts \in [Places -> Nat] /\ seen \in SUBSET [Places -> Nat]
  BY <1>1, TextsAreNat DEF Calls
<1>9. point \in {"again", "collect"} /\ (point = "again" => n + 1 = Len(PageOrder))
  BY <1>2, <1>7 DEF Whole
<1>10. point \in Pcs
  <2> HIDE DEF point
  <2> QED
    BY <1>9, Zenon DEF Pcs, Looks
<1>11. \A i \in 1..(n + 1) : \E texts \in seen : texts[i] = got[i]
  <2> SUFFICES ASSUME NEW i \in 1..(n + 1)
               PROVE  \E texts \in seen : texts[i] = got[i]
    OBVIOUS
  <2>1. CASE i = n + 1
    BY <1>6, <1>7, <2>1
  <2>2. CASE i # n + 1
    <3>1. i \in 1..n
      BY <1>5, <2>2
    <3>2. \E texts \in q.seen : texts[i] = q.got[i]
      BY <1>2, <1>3, <3>1 DEF Reads
    <3> QED
      BY <1>7, <3>1, <3>2
  <2> QED
    BY <2>1, <2>2
<1> HIDE DEF got, point, new
<1>12. r \in Calls
  <2> HIDE DEF seen
  <2> QED
    BY <1>1, <1>7, <1>8, <1>10, ZenonT(20) DEF Calls
<1>13. /\ r.pc = point /\ r.op = q.op /\ r.on = q.on /\ r.scope = q.scope
       /\ r.phase = q.phase /\ r.got = got /\ r.seen = seen /\ r.checked = q.checked
  BY <1>1 DEF Calls
<1>14. Agrees(r, Texts)
  <2>1. \A i \in Places : Texts[i] = md[PageOrder[i]]
    BY DEF Texts, Places
  <2>2. 1..r.checked = {}
    BY <1>3, <1>13
  <2> QED
    BY <2>1, <2>2 DEF Agrees
<1> HIDE DEF r
<1>15. ASSUME thread'[t] = r PROVE Knows(t)'
  <2>1. Texts' = Texts
    BY <1>2 DEF Texts
  <2>2. point = "again" => Agrees(thread[t], Texts)'
    BY <1>2, <1>14, <1>15, <2>1 DEF Agrees
  <2>3. Reads(thread[t])'
    <3>1. Len(r.got) <= Len(PageOrder)
      BY <1>5, <1>7, <1>13
    <3>2. \A i \in 1..Len(r.got) : \E texts \in r.seen : texts[i] = r.got[i]
      BY <1>7, <1>11, <1>13
    <3>3. Texts \in r.seen
      BY <1>13
    <3>4. point = "again" => Whole(r.got) /\ r.checked < Len(PageOrder)
      BY <1>3, <1>5, <1>7, <1>9, <1>13 DEF Whole
    <3>5. point = "again" => \E texts \in r.seen : Agrees(thread[t], texts)'
      BY <2>1, <2>2, <3>3
    <3> QED
      BY <1>3, <1>9, <1>13, <1>15, <2>1, <3>1, <3>2, <3>3, <3>4, <3>5 DEF Reads, Looks, Whole
  <2>4. Formed(thread[t])'
    BY <1>2, <1>3, <1>9, <1>13, <1>15 DEF Formed, Looks
  <2> QED
    BY <1>3, <1>9, <1>13, <1>15, <2>3, <2>4
       DEF Knows, HasLock, Rebuilding, RowsStaged, Remembers, Walks, Repairing
<1> QED
  BY <1>1, <1>2, <1>4, <1>12, <1>15, BecomingOnly

LEMMA SecondPassStep ==
  ASSUME WikiInv, NEW t \in Threads, SecondPass(t)
  PROVE  WikiInv'
<1> DEFINE q == thread[t]
<1>1. q \in Calls /\ Knows(t) /\ mishaps \in Nat
  BY DEF WikiInv, WikiTypeOK
<1>2. q.pc = "again" /\ md' = md /\ versions' = versions
      /\ mishaps' = mishaps /\ graph' = graph /\ broken' = broken /\ lock' = lock
  BY DEF SecondPass, fileVars, storeVars
<1>3. Formed(q) /\ q.op = "search" /\ q.phase = "walk" /\ Reads(q)
  BY <1>1, <1>2 DEF Knows, Looks, Formed
<1>4. CASE Becomes(t, Idle)
  BY <1>1, <1>2, <1>4, IdleKnows, IdleIsCall, BecomingOnly
<1>5. CASE Becomes(t, [Restarts(q) EXCEPT !.tries = 1])
  <2> DEFINE s == Restarts(q)
             r == [s EXCEPT !.tries = 1]
  <2>1. /\ s \in Calls /\ s.pc = "collect" /\ s.op = "search" /\ s.phase = "walk"
        /\ s.got = <<>> /\ s.seen = {} /\ s.checked = 0
    BY <1>1, <1>3, RestartsFields, WithoutFields
  <2>2. Becomes(t, r)
    BY <1>5
  <2> HIDE DEF s
  <2>3. r \in Calls
    BY <2>1, ZenonT(20) DEF Calls
  <2>4. /\ r.pc = "collect" /\ r.op = "search" /\ r.phase = "walk"
        /\ r.got = <<>> /\ r.seen = {} /\ r.checked = 0
    BY <2>1 DEF Calls
  <2> HIDE DEF r
  <2>5. Len(<<>>) = 0 /\ 0 <= Len(PageOrder)
    BY WikiAssumption
  <2>6. thread'[t] = r => Knows(t)'
    BY <2>4, <2>5 DEF Knows, HasLock, Formed, Rebuilding, RowsStaged, Remembers, Walks, Reads,
                      Looks, Repairing
  <2> QED
    BY <1>1, <1>2, <2>2, <2>3, <2>6, BecomingOnly
<1>6. CASE /\ SameAgain(q) /\ q.checked + 1 # Len(PageOrder)
           /\ Becomes(t, [q EXCEPT !.checked = q.checked + 1])
  <2> DEFINE n == q.checked + 1
             r == [q EXCEPT !.checked = n]
  <2>1. Becomes(t, r)
    BY <1>6
  <2>2. q.checked \in Nat /\ n \in Nat /\ n < Len(PageOrder) /\ n \in Places
    <3>1. q.checked \in Nat /\ Len(PageOrder) \in Nat /\ q.checked < Len(PageOrder)
      BY <1>1, <1>2, <1>3, WikiAssumption DEF Calls, Reads
    <3> QED
      BY <1>6, <3>1 DEF Places
  <2>3. md[PageOrder[n]] = q.got[n]
    BY <1>6 DEF SameAgain
  <2>4. \A i \in 1..n : i \in 1..q.checked \/ i = n
    BY <2>2
  <2> HIDE DEF n
  <2>5. r \in Calls
    BY <1>1, <2>2, ZenonT(20) DEF Calls
  <2>6. /\ r.pc = "again" /\ r.op = q.op /\ r.on = q.on /\ r.scope = q.scope
        /\ r.phase = q.phase /\ r.got = q.got /\ r.seen = q.seen /\ r.back = q.back
        /\ r.checked = n
    BY <1>1, <1>2 DEF Calls
  <2>7. ASSUME NEW texts, Agrees(q, texts) PROVE Agrees(r, texts)
    <3>1. texts[n] = q.got[n]
      BY <2>2, <2>3, <2>7 DEF Agrees
    <3> QED
      BY <2>4, <2>6, <2>7, <3>1 DEF Agrees
  <2> HIDE DEF r
  <2>8. ASSUME thread'[t] = r PROVE Knows(t)'
    <3>1. Texts' = Texts
      BY <1>2 DEF Texts
    <3>2. \A texts : Agrees(r, texts) => Agrees(thread[t], texts)'
      BY <1>2, <2>8 DEF Agrees
    <3>3. r.back \/ \E texts \in r.seen : Agrees(thread[t], texts)'
      BY <1>2, <1>3, <2>6, <2>7, <3>2 DEF Reads
    <3>4. Reads(thread[t])'
      BY <1>2, <1>3, <2>2, <2>6, <2>8, <3>1, <3>3 DEF Reads, Looks, Whole
    <3>5. Formed(thread[t])'
      BY <1>2, <1>3, <2>6, <2>8 DEF Formed, Looks
    <3> QED
      BY <1>3, <2>6, <2>8, <3>4, <3>5
         DEF Knows, HasLock, Rebuilding, RowsStaged, Remembers, Walks, Repairing
  <2> QED
    BY <1>1, <1>2, <2>1, <2>5, <2>8, BecomingOnly
<1> QED
  BY <1>4, <1>5, <1>6 DEF SecondPass

-----------------------------------------------------------------------------
(* The tools that change pages *)

\* Who is not reading knows what its place says, and what it staged or saved.
LEMMA PageToolKnows ==
  ASSUME NEW t \in Threads, NEW r, thread'[t] = r, lock' = t, Formed(r), Unread(r),
         r.pc \notin Looks \cup {"snapshot", "put"},
         RowsStaged(thread[t])', Remembers(thread[t])'
  PROVE  Knows(t)'
<1>1. Formed(thread[t])' /\ HasLock(t)'
  BY DEF Formed, HasLock
<1>2. Rebuilding(thread[t])' /\ Walks(thread[t])'
  BY DEF Rebuilding, Walks, Looks
<1>3. Reads(thread[t])'
  BY DEF Reads, Looks, Unread
<1> QED
  BY <1>1, <1>2, <1>3 DEF Knows

LEMMA ToolHasLock ==
  ASSUME WikiInv, NEW t \in Threads,
         thread[t].pc \in {"fetch", "pulled", "write", "commit", "failed", "stage", "batch",
                           "refresh", "disown", "restage", "final", "publish"}
  PROVE  /\ thread[t] \in Calls /\ Knows(t) /\ Formed(thread[t]) /\ Unread(thread[t])
         /\ lock = t /\ mishaps \in Nat /\ md \in [Pages -> Nat]
         /\ graph \in [WikiDomains -> Graphs] /\ broken \in BOOLEAN /\ ReadyIsHonest
         /\ thread[t].op # "search"
<1>1. /\ thread[t] \in Calls /\ Knows(t) /\ mishaps \in Nat /\ md \in [Pages -> Nat]
      /\ graph \in [WikiDomains -> Graphs] /\ broken \in BOOLEAN /\ ReadyIsHonest
  BY DEF WikiInv, WikiTypeOK
<1>2. Unread(thread[t])
  BY <1>1, NotReading DEF Looks
<1> QED
  BY <1>1, <1>2 DEF Knows, HasLock, Formed

LEMMA ReturnsStep ==
  ASSUME WikiInv, NEW t \in Threads, lock \in {None, t}, Returns(t),
         md' = md, versions' = versions, graph' = graph, broken' = broken, mishaps' \in Nat
  PROVE  WikiInv'
<1>1. Becomes(t, Idle) /\ lock' = None
  BY DEF Returns
<1>2. thread'[t] = Idle => Knows(t)'
  BY IdleKnows
<1> QED
  BY <1>1, <1>2, IdleIsCall, BecomingOnly

LEMMA SynchronisesStep ==
  ASSUME WikiInv, NEW t \in Threads, lock = t, lock' = t, Becomes(t, Synchronises),
         md' = md, versions' = versions, broken' \in BOOLEAN, mishaps' \in Nat,
         graph' \in [WikiDomains -> Graphs], ReadyIsHonest'
  PROVE  WikiInv'
<1>1. Synchronises \in Calls /\ (thread'[t] = Synchronises => Knows(t)')
  BY SynchronisesFields, SynchronisesKnows
<1> QED
  BY <1>1, Becoming

LEMMA FailedStep ==
  ASSUME WikiInv, NEW t \in Threads, lock = t, lock' = t, Failed(t),
         md' = md, versions' = versions, broken' \in BOOLEAN, mishaps' \in Nat
  PROVE  WikiInv'
<1> DEFINE S == thread[t].on
<1>1. /\ graph' = [d \in WikiDomains |-> IF d \in S
                        THEN [graph[d] EXCEPT !.state = "dirty"] ELSE graph[d]]
      /\ Becomes(t, Synchronises)
  BY DEF Failed
<1> HIDE DEF S
<1>2. graph \in [WikiDomains -> Graphs] /\ ReadyIsHonest
  BY DEF WikiInv, WikiTypeOK
<1>3. graph' \in [WikiDomains -> Graphs] /\ ReadyIsHonest'
  BY <1>1, <1>2, DirtiedGraph
<1> QED
  BY <1>1, <1>3, SynchronisesStep

LEMMA MutateStep ==
  ASSUME WikiInv, NEW t \in Threads, NEW op \in {"page", "index", "batch"},
         NEW on \in SUBSET WikiDomains, op # "batch" => \E d \in WikiDomains : on = {d},
         Mutate(t, op, on)
  PROVE  WikiInv'
<1> DEFINE i == Idle
           r == [i EXCEPT !.op = op, !.pc = "fetch", !.phase = "fetch", !.on = on,
                          !.scope = on]
<1>1. Becomes(t, r) /\ lock = None /\ lock' = t /\ mishaps' = mishaps /\ mishaps \in Nat
      /\ md' = md /\ versions' = versions /\ graph' = graph /\ broken' = broken
  BY DEF WikiInv, WikiTypeOK, Mutate, fileVars, storeVars
<1>2. i \in Calls /\ i.got = <<>> /\ i.seen = {} /\ i.checked = 0 /\ "fetch" \in Pcs
  BY IdleIsCall DEF Idle, Pcs
<1> HIDE DEF i
<1>3. r \in Calls
  BY <1>2, ZenonT(20) DEF Calls
<1>4. /\ r.pc = "fetch" /\ r.op = op /\ r.phase = "fetch" /\ r.on = on
      /\ r.got = <<>> /\ r.seen = {} /\ r.checked = 0
  BY <1>2 DEF Calls
<1> HIDE DEF r
<1>5. ASSUME thread'[t] = r PROVE Knows(t)'
  <2>1. Formed(r) /\ Unread(r)
    BY <1>4 DEF Formed, Looks, Unread
  <2>2. RowsStaged(thread[t])' /\ Remembers(thread[t])'
    BY <1>4, <1>5 DEF RowsStaged, Remembers
  <2> QED
    BY <1>1, <1>4, <1>5, <2>1, <2>2, PageToolKnows DEF Looks
<1> QED
  BY <1>1, <1>3, <1>5, BecomingOnly

LEMMA WikiSyncStep ==
  ASSUME WikiInv, NEW t \in Threads, wiki_sync(t)
  PROVE  WikiInv'
<1>1. Becomes(t, Synchronises) /\ lock = None /\ lock' = t /\ mishaps' = mishaps
      /\ mishaps \in Nat
      /\ md' = md /\ versions' = versions /\ graph' = graph /\ broken' = broken
  BY DEF WikiInv, WikiTypeOK, wiki_sync, fileVars, storeVars
<1>2. Synchronises \in Calls /\ (thread'[t] = Synchronises => Knows(t)')
  BY <1>1, SynchronisesFields, SynchronisesKnows
<1> QED
  BY <1>1, <1>2, BecomingOnly

LEMMA NothingNewStep ==
  ASSUME WikiInv, NEW t \in Threads, NothingNew(t)
  PROVE  WikiInv'
<1> DEFINE q == thread[t]
<1>1. q.pc = "fetch" /\ mishaps' = mishaps
      /\ md' = md /\ versions' = versions /\ graph' = graph /\ broken' = broken
  BY DEF NothingNew, fileVars, storeVars
<1>2. q \in Calls /\ Formed(q) /\ Unread(q) /\ lock = t /\ mishaps \in Nat /\ q.op # "search"
  BY <1>1, ToolHasLock
<1>3. CASE q.phase = "sync"
  BY <1>1, <1>2, <1>3, ReturnsStep DEF NothingNew
<1>4. CASE q.phase # "sync"
  <2> DEFINE r == Done(q)
  <2>1. Becomes(t, r) /\ lock' = lock /\ q.phase = "fetch"
    BY <1>1, <1>2, <1>4 DEF NothingNew, Formed
  <2>2. /\ r \in Calls /\ r.op = q.op /\ r.on = q.on /\ r.scope = q.on
        /\ r.pc = Goal(q) /\ r.phase = "prepare"
        /\ r.got = q.got /\ r.checked = q.checked /\ r.seen = q.seen
    BY <1>2, <2>1, DoneIsCall, DoneFields
  <2>3. r.pc = IF q.op = "index" THEN "commit" ELSE "inspect"
    BY <2>1, <2>2 DEF Goal
  <2> HIDE DEF r
  <2>4. ASSUME thread'[t] = r PROVE Knows(t)'
    <3>1. Formed(r) /\ Unread(r)
      BY <1>2, <2>2, <2>3 DEF Formed, Looks, Unread
    <3>2. RowsStaged(thread[t])' /\ Remembers(thread[t])'
      BY <2>2, <2>3, <2>4 DEF RowsStaged, Remembers
    <3> QED
      BY <1>2, <2>1, <2>3, <2>4, <3>1, <3>2, PageToolKnows DEF Looks
  <2> QED
    BY <1>1, <1>2, <2>1, <2>2, <2>4, BecomingOnly
<1> QED
  BY <1>3, <1>4

\* What a step writes to the files, and what it is to the threads that read them.
LEMMA WrittenTypes ==
  ASSUME WikiInv, NEW pages, NEW version \in 0..Fresh, NEW t, NEW record \in Calls,
         Written(pages, version, t, record),
         graph' = graph, broken' = broken, lock' = lock, mishaps' = mishaps
  PROVE  /\ WikiTypeOK' /\ ReadyIsHonest' /\ versions <= versions'
         /\ t \in Threads => thread'[t] = record
         /\ \A u \in Threads \ {t} : thread'[u] = Witness(thread[u])
<1>1. /\ versions \in Nat /\ md \in [Pages -> Nat] /\ thread \in [Threads -> Calls]
      /\ \A f \in Pages : md[f] <= versions
  BY DEF WikiInv, WikiTypeOK
<1>2. /\ versions' = versions + 1 /\ md' = [f \in Pages |-> IF f \in pages THEN version ELSE md[f]]
      /\ thread' = [u \in Threads |-> IF u = t THEN record ELSE Witness(thread[u])]
  BY DEF Written
<1>3. version \in Nat /\ version <= versions + 1
  BY <1>1 DEF Fresh
<1>4. md' \in [Pages -> Nat] /\ versions' \in Nat /\ versions <= versions'
      /\ \A f \in Pages : md'[f] <= versions'
  BY <1>1, <1>2, <1>3
<1>5. thread' \in [Threads -> Calls]
  <2>1. \A u \in Threads : Witness(thread[u]) \in Calls
    BY <1>1, <1>4, WitnessFields
  <2> QED
    BY <1>2, <2>1
<1>6. WikiTypeOK'
  BY <1>4, <1>5 DEF WikiInv, WikiTypeOK
<1>7. ReadyIsHonest'
  BY DEF WikiInv, ReadyIsHonest
<1> QED
  BY <1>2, <1>4, <1>6, <1>7

LEMMA EditStep ==
  ASSUME WikiInv, NEW f \in Pages, Edit(f)
  PROVE  WikiInv'
<1>1. PICK version \in 0..Fresh : Written({f}, version, None, Idle)
  BY DEF Edit
<1>2. graph' = graph /\ broken' = broken /\ lock' = lock /\ mishaps' = mishaps
  BY DEF Edit, storeVars
<1>3. /\ WikiTypeOK' /\ ReadyIsHonest' /\ versions <= versions'
      /\ \A u \in Threads \ {None} : thread'[u] = Witness(thread[u])
  BY <1>1, <1>2, IdleIsCall, WrittenTypes
<1>4. ASSUME NEW u \in Threads PROVE Knows(u)'
  <2>1. thread'[u] = Witness(thread[u]) /\ versions' \in Nat /\ md' \in [Pages -> Nat]
    BY <1>3, WikiAssumption DEF WikiTypeOK
  <2>2. (lock = u => lock' = u) /\ RowsKept
    BY <1>2 DEF RowsKept
  <2> QED
    BY <1>3, <2>1, <2>2, OtherKeeps
<1> QED
  BY <1>3, <1>4 DEF WikiInv

\* A tool writes a version that is new, or deletes.
LEMMA FreshIsVersion == versions \in Nat => {0, Fresh} \subseteq 0..Fresh
BY DEF Fresh

\* A tool with the lock writes files.
LEMMA WritingStep ==
  ASSUME WikiInv, NEW t \in Threads, lock = t, NEW pages, NEW version \in {0, Fresh},
         NEW record \in Calls, Written(pages, version, t, record),
         graph' = graph, broken' = broken, lock' = lock, mishaps' = mishaps,
         thread'[t] = record => Knows(t)'
  PROVE  WikiInv'
<1>0. version \in 0..Fresh
  BY FreshIsVersion DEF WikiInv, WikiTypeOK
<1>1. WikiTypeOK' /\ ReadyIsHonest' /\ versions <= versions'
  BY <1>0, WrittenTypes
<1>2. thread'[t] = record
  BY DEF Written
<1>3. \A u \in Threads \ {t} : thread'[u] = Witness(thread[u])
  BY DEF Written
<1> QED
  BY <1>1, <1>2, <1>3, ThreadStep

LEMMA PullStep ==
  ASSUME WikiInv, NEW t \in Threads, PullPages(t)
  PROVE  WikiInv'
<1> DEFINE q == thread[t]
<1>1. q.pc = "fetch" /\ mishaps' = mishaps /\ graph' = graph /\ broken' = broken
      /\ lock' = lock
  BY DEF PullPages, storeVars
<1>2. q \in Calls /\ Formed(q) /\ Unread(q) /\ lock = t /\ q.op # "search"
  BY <1>1, ToolHasLock
<1> PICK f \in Pages : Written({f}, Fresh, t, [q EXCEPT !.pc = "pulled", !.scope = {f[1]},
                                                        !.todo = {f[1]}])
  BY DEF PullPages
<1> DEFINE scope == {f[1]}
           r == [q EXCEPT !.pc = "pulled", !.scope = scope, !.todo = scope]
<1>3. Written({f}, Fresh, t, r) /\ scope \in SUBSET WikiDomains /\ "pulled" \in Pcs
  BY PagesArePairs DEF Pcs
<1> HIDE DEF scope
<1>4. r \in Calls
  BY <1>2, <1>3, ZenonT(20) DEF Calls
<1>5. /\ r.op = q.op /\ r.on = q.on /\ r.pc = "pulled" /\ r.phase = q.phase
      /\ r.got = q.got /\ r.checked = q.checked /\ r.seen = q.seen
  BY <1>2 DEF Calls
<1> HIDE DEF r
<1>6. ASSUME thread'[t] = r PROVE Knows(t)'
  <2>1. Formed(r) /\ Unread(r)
    BY <1>1, <1>2, <1>5 DEF Formed, Looks, Unread
  <2>2. RowsStaged(thread[t])' /\ Remembers(thread[t])'
    BY <1>5, <1>6 DEF RowsStaged, Remembers
  <2> QED
    BY <1>1, <1>2, <1>5, <1>6, <2>1, <2>2, PageToolKnows DEF Looks
<1> QED
  BY <1>1, <1>2, <1>3, <1>4, <1>6, WritingStep

\* Only the place changes.
LEMMA GoesStep ==
  ASSUME NEW t \in Threads, thread \in [Threads -> Calls], NEW point \in Pcs, Goes(t, point)
  PROVE  /\ [thread[t] EXCEPT !.pc = point] \in Calls
         /\ Becomes(t, [thread[t] EXCEPT !.pc = point])
<1>1. thread[t] \in Calls
  OBVIOUS
<1>2. [thread[t] EXCEPT !.pc = point] \in Calls
  BY <1>1, ZenonT(20) DEF Calls
<1>3. Becomes(t, [thread[t] EXCEPT !.pc = point])
  BY Zenon DEF Goes, Becomes
<1> QED
  BY <1>2, <1>3

LEMMA RefreshPulledStep ==
  ASSUME WikiInv, NEW t \in Threads, RefreshPulled(t)
  PROVE  WikiInv'
<1> DEFINE q == thread[t]
<1>1. q.pc = "pulled" /\ mishaps' = mishaps /\ md' = md /\ versions' = versions
      /\ broken' = FALSE /\ lock' = lock /\ Goes(t, "rebuild")
      /\ graph' = [d \in WikiDomains |->
                    IF broken THEN NoRow
                    ELSE IF d \in thread[t].todo THEN [graph[d] EXCEPT !.state = "dirty"]
                    ELSE graph[d]]
  BY DEF RefreshPulled, fileVars
<1>2. q \in Calls /\ Formed(q) /\ Unread(q) /\ lock = t /\ Knows(t) /\ q.op # "search"
      /\ mishaps \in Nat /\ broken \in BOOLEAN /\ graph \in [WikiDomains -> Graphs]
      /\ ReadyIsHonest
  BY <1>1, ToolHasLock
<1> DEFINE r == [q EXCEPT !.pc = "rebuild"]
<1>3. r \in Calls /\ Becomes(t, r)
  BY <1>1, GoesStep DEF Pcs, WikiInv, WikiTypeOK
<1>4. /\ r.pc = "rebuild" /\ r.op = q.op /\ r.on = q.on /\ r.scope = q.scope
      /\ r.phase = q.phase /\ r.got = q.got /\ r.seen = q.seen /\ r.checked = q.checked
  BY <1>2 DEF Calls
<1> HIDE DEF r
<1>5. thread'[t] = r => Knows(t)'
  BY <1>1, <1>2, <1>3, <1>4, RepairKnows DEF Unread
<1>6. graph' \in [WikiDomains -> Graphs] /\ ReadyIsHonest'
  <2>1. CASE broken
    <3>1. NoRow \in Graphs /\ NoRow.state = "missing"
      BY NoPagesAreRows DEF NoRow, Graphs, Prints
    <3>2. graph' = [d \in WikiDomains |-> NoRow]
      BY <1>1, <2>1
    <3> QED
      BY <3>1, <3>2 DEF ReadyIsHonest
  <2>2. CASE ~broken
    <3> DEFINE S == thread[t].todo
    <3>1. graph' = [d \in WikiDomains |-> IF d \in S
                       THEN [graph[d] EXCEPT !.state = "dirty"] ELSE graph[d]]
      BY <1>1, <2>2
    <3> HIDE DEF S
    <3> QED
      BY <1>2, <3>1, DirtiedGraph
  <2> QED
    BY <2>1, <2>2
<1> QED
  BY <1>1, <1>2, <1>3, <1>5, <1>6, Becoming

LEMMA WritesStep ==
  ASSUME WikiInv, NEW t \in Threads, thread[t].pc = "write",
         NEW pages \in SUBSET Pages, NEW version \in {0, Fresh}, Writes(t, pages, version)
  PROVE  WikiInv'
<1> DEFINE q == thread[t]
           before == [f \in pages |-> md[f]]
           r == [q EXCEPT !.pc = "commit", !.pages = pages, !.before = before]
<1>1. Written(pages, version, t, r) /\ mishaps' = mishaps /\ graph' = graph
      /\ broken' = broken /\ lock' = lock
  BY DEF Writes, storeVars
<1>2. q \in Calls /\ Formed(q) /\ Unread(q) /\ lock = t /\ q.op # "search"
      /\ md \in [Pages -> Nat]
  BY ToolHasLock
<1>3. before \in Rows /\ DOMAIN before = pages
  <2>1. before \in [pages -> Nat]
    BY <1>2
  <2> HIDE DEF before
  <2> QED
    BY <2>1 DEF Rows
<1>4. \A f \in pages : before[f] <= versions
  BY DEF WikiInv, WikiTypeOK
<1>5. "commit" \in Pcs
  BY DEF Pcs
<1> HIDE DEF before
<1>6. r \in Calls
  BY <1>2, <1>3, <1>5, ZenonT(20) DEF Calls
<1>7. /\ r.op = q.op /\ r.on = q.on /\ r.scope = q.scope /\ r.pc = "commit"
      /\ r.phase = q.phase /\ r.got = q.got /\ r.checked = q.checked /\ r.seen = q.seen
      /\ r.pages = pages /\ r.before = before
  BY <1>2 DEF Calls
<1> HIDE DEF r
<1>8. ASSUME thread'[t] = r PROVE Knows(t)'
  <2>1. Formed(r) /\ Unread(r)
    BY <1>2, <1>7 DEF Formed, Looks, Unread
  <2>2. RowsStaged(thread[t])'
    BY <1>7, <1>8 DEF RowsStaged
  <2>3. \A f \in pages : before[f] <= versions'
    <3>1. versions' = versions + 1 /\ versions \in Nat
      BY <1>1 DEF Written, WikiInv, WikiTypeOK
    <3>2. \A f \in pages : before[f] \in Nat
      BY <1>3 DEF Rows
    <3> QED
      BY <1>4, <3>1, <3>2
  <2>4. Remembers(thread[t])'
    BY <1>3, <1>7, <1>8, <2>3 DEF Remembers
  <2> QED
    BY <1>1, <1>2, <1>7, <1>8, <2>1, <2>2, <2>4, PageToolKnows DEF Looks
<1> QED
  BY <1>1, <1>2, <1>6, <1>8, WritingStep

LEMMA ToolWritesStep ==
  ASSUME WikiInv, NEW t \in Threads,
         wiki_write_page(t) \/ wiki_update_page(t) \/ wiki_delete_page(t) \/ ApplyPlan(t)
  PROVE  WikiInv'
<1>1. ASSUME NEW op, NEW f \in OfTool(t, op)
      PROVE  thread[t].pc = "write" /\ {f} \in SUBSET Pages
  BY DEF OfTool
<1>2. Fresh \in {0, Fresh} /\ 0 \in {0, Fresh}
  OBVIOUS
<1>3. CASE wiki_write_page(t)
  BY <1>1, <1>2, <1>3, WritesStep DEF wiki_write_page
<1>4. CASE wiki_update_page(t)
  BY <1>1, <1>2, <1>4, WritesStep DEF wiki_update_page
<1>5. CASE wiki_delete_page(t)
  BY <1>1, <1>2, <1>5, WritesStep DEF wiki_delete_page
<1>6. CASE ApplyPlan(t)
  <2>1. PICK pages \in SUBSET OfTool(t, "batch") :
          /\ \A d \in WikiDomains : Cardinality({f \in pages : f[1] = d}) = 1
          /\ Writes(t, pages, Fresh)
    BY <1>6, Zenon DEF ApplyPlan
  <2>2. thread[t].pc = "write" /\ pages \in SUBSET Pages
    BY <1>6, <2>1 DEF ApplyPlan, OfTool
  <2> QED
    BY <1>2, <2>1, <2>2, WritesStep
<1> QED
  BY <1>3, <1>4, <1>5, <1>6

LEMMA NotWrittenStep ==
  ASSUME WikiInv, NEW t \in Threads, NotWritten(t) \/ PagesNotCommitted(t)
  PROVE  WikiInv'
<1>1. thread[t].pc \in {"write", "commit"} /\ Returns(t) /\ mishaps' = mishaps
      /\ md' = md /\ versions' = versions /\ graph' = graph /\ broken' = broken
  BY DEF NotWritten, PagesNotCommitted, fileVars, storeVars
<1>2. lock = t /\ mishaps \in Nat
  BY <1>1, ToolHasLock
<1> QED
  BY <1>1, <1>2, ReturnsStep

LEMMA RestoredStep ==
  ASSUME WikiInv, NEW t \in Threads, Restored(t)
  PROVE  WikiInv'
<1> DEFINE q == thread[t]
<1>1. /\ q.pc = "commit" /\ q.op # "index" /\ mishaps' = mishaps /\ versions' = versions
      /\ graph' = graph /\ broken' = broken /\ lock' = None
      /\ md' = [f \in Pages |-> IF f \in q.pages THEN q.before[f] ELSE md[f]]
      /\ thread' = [u \in Threads |-> IF u = t THEN Idle ELSE Witness(thread[u])]
  BY DEF Restored, storeVars
<1>2. q \in Calls /\ lock = t /\ Knows(t) /\ md \in [Pages -> Nat] /\ ReadyIsHonest
      /\ mishaps \in Nat /\ versions \in Nat /\ (\A f \in Pages : md[f] <= versions)
      /\ thread \in [Threads -> Calls]
  BY <1>1, ToolHasLock DEF WikiInv, WikiTypeOK
<1>3. \A f \in q.pages : q.before[f] \in Nat /\ q.before[f] <= versions
  <2>1. q.before \in Rows
    BY <1>2 DEF Calls
  <2>2. \A f \in q.pages : f \in DOMAIN q.before /\ q.before[f] <= versions
    BY <1>1, <1>2 DEF Knows, Remembers
  <2> QED
    BY <2>1, <2>2 DEF Rows
<1>4. md' \in [Pages -> Nat] /\ \A f \in Pages : md'[f] <= versions'
  BY <1>1, <1>2, <1>3
<1>5. \A u \in Threads : Witness(thread[u]) \in Calls
  BY <1>2, <1>4, WitnessFields
<1>6. thread' \in [Threads -> Calls] /\ thread'[t] = Idle
      /\ \A u \in Threads \ {t} : thread'[u] = Witness(thread[u])
  BY <1>1, <1>5, IdleIsCall
<1>7. WikiTypeOK' /\ ReadyIsHonest'
  BY <1>1, <1>2, <1>4, <1>6 DEF WikiInv, WikiTypeOK, ReadyIsHonest
<1>8. Knows(t)'
  BY <1>6, IdleKnows
<1>9. versions <= versions' /\ \A u \in Threads \ {t} : lock # u
  BY <1>1, <1>2
<1> QED
  BY <1>6, <1>7, <1>8, <1>9, ThreadStep

LEMMA CommitStep ==
  ASSUME WikiInv, NEW t \in Threads, CommitPages(t)
  PROVE  WikiInv'
<1> DEFINE q == thread[t]
           point == IF q.op = "index" THEN "disown" ELSE "stage"
           r == [q EXCEPT !.pc = point, !.before = NoPages]
<1>1. q.pc = "commit" /\ mishaps' = mishaps /\ md' = md /\ versions' = versions
      /\ graph' = graph /\ broken' = broken /\ lock' = lock /\ Becomes(t, r)
  BY DEF CommitPages, storeVars
<1>2. q \in Calls /\ Formed(q) /\ Unread(q) /\ lock = t /\ q.op # "search" /\ mishaps \in Nat
  BY <1>1, ToolHasLock
<1>3. point \in {"disown", "stage"} /\ (point = "disown" => q.op = "index")
  OBVIOUS
<1>4. point \in Pcs
  <2> HIDE DEF point
  <2> QED
    BY <1>3, Zenon DEF Pcs
<1> HIDE DEF point
<1>5. r \in Calls
  BY <1>2, <1>4, NoPagesAreRows, ZenonT(20) DEF Calls
<1>6. /\ r.op = q.op /\ r.on = q.on /\ r.scope = q.scope /\ r.pc = point
      /\ r.phase = q.phase /\ r.got = q.got /\ r.checked = q.checked /\ r.seen = q.seen
  BY <1>2 DEF Calls
<1> HIDE DEF r
<1>7. ASSUME thread'[t] = r PROVE Knows(t)'
  <2>1. Formed(r) /\ Unread(r)
    BY <1>1, <1>2, <1>3, <1>6 DEF Formed, Looks, Unread
  <2>2. RowsStaged(thread[t])' /\ Remembers(thread[t])'
    BY <1>3, <1>6, <1>7 DEF RowsStaged, Remembers
  <2> QED
    BY <1>1, <1>2, <1>3, <1>6, <1>7, <2>1, <2>2, PageToolKnows DEF Looks
<1> QED
  BY <1>1, <1>2, <1>5, <1>7, BecomingOnly

-----------------------------------------------------------------------------
(* After the commit *)

LEMMA UnavailableStep ==
  ASSUME WikiInv, NEW t \in Threads, Unavailable(t)
  PROVE  WikiInv'
<1>1. thread[t].pc = "stage" /\ Becomes(t, Synchronises) /\ mishaps' = mishaps /\ md' = md
      /\ versions' = versions /\ graph' = graph /\ broken' = broken /\ lock' = lock
  BY DEF Unavailable, fileVars, storeVars
<1>2. lock = t /\ mishaps \in Nat /\ graph \in [WikiDomains -> Graphs] /\ ReadyIsHonest
      /\ broken \in BOOLEAN
  BY <1>1, ToolHasLock
<1>3. ReadyIsHonest'
  BY <1>1, <1>2 DEF ReadyIsHonest
<1> QED
  BY <1>1, <1>2, <1>3, SynchronisesStep

LEMMA StageStep ==
  ASSUME WikiInv, NEW t \in Threads, Stage(t)
  PROVE  WikiInv'
<1> DEFINE q == thread[t]
           d == The(q)
           print == markdown_fingerprint(d)
<1>1. q.pc = "stage" /\ q.op = "page" /\ mishaps' = mishaps /\ md' = md
      /\ versions' = versions /\ broken' = broken /\ lock' = lock
  BY DEF Stage, fileVars
<1>2. q \in Calls /\ Formed(q) /\ Unread(q) /\ lock = t /\ q.op # "search" /\ mishaps \in Nat
      /\ md \in [Pages -> Nat] /\ graph \in [WikiDomains -> Graphs] /\ ReadyIsHonest
      /\ broken \in BOOLEAN
  BY <1>1, ToolHasLock
<1>3. CASE Failed(t)
  BY <1>1, <1>2, <1>3, FailedStep
<1>4. CASE /\ graph' = Dirtied(d)
           /\ Becomes(t, [q EXCEPT !.pc = "refresh", !.now[d] = print, !.snap = Files(q),
                                   !.prints[d] = None])
  <2> DEFINE now == [q.now EXCEPT ![d] = print]
             prints == [q.prints EXCEPT ![d] = None]
             snap == Files(q)
             r == [q EXCEPT !.pc = "refresh", !.now = now, !.snap = snap, !.prints = prints]
  <2>1. Becomes(t, r)
    BY <1>4, Zenon
  <2>2. now \in [WikiDomains -> Prints] /\ prints \in [WikiDomains -> Prints]
    BY <1>2, PrintIsPrint DEF Calls, Prints
  <2>3. snap \in Rows /\ "refresh" \in Pcs
    BY <1>2, FilesAreRows DEF Calls, Pcs
  <2> HIDE DEF now, prints, snap
  <2>4. r \in Calls
    BY <1>2, <2>2, <2>3, ZenonT(20) DEF Calls
  <2>5. /\ r.op = q.op /\ r.on = q.on /\ r.scope = q.scope /\ r.pc = "refresh"
        /\ r.phase = q.phase /\ r.got = q.got /\ r.checked = q.checked /\ r.seen = q.seen
    BY <1>2 DEF Calls
  <2> HIDE DEF r
  <2>6. ASSUME thread'[t] = r PROVE Knows(t)'
    <3>1. Formed(r) /\ Unread(r)
      BY <1>1, <1>2, <2>5 DEF Formed, Looks, Unread
    <3>2. RowsStaged(thread[t])' /\ Remembers(thread[t])'
      BY <2>5, <2>6 DEF RowsStaged, Remembers
    <3> QED
      BY <1>1, <1>2, <2>5, <2>6, <3>1, <3>2, PageToolKnows DEF Looks
  <2>7. graph' \in [WikiDomains -> Graphs] /\ ReadyIsHonest'
    BY <1>2, <1>4, DirtiedOne
  <2> QED
    BY <1>1, <1>2, <2>1, <2>4, <2>6, <2>7, Becoming
<1> QED
  BY <1>3, <1>4 DEF Stage

LEMMA ReadBatchStep ==
  ASSUME WikiInv, NEW t \in Threads, ReadBatch(t)
  PROVE  WikiInv'
<1> DEFINE q == thread[t]
           now == [d \in WikiDomains |-> markdown_fingerprint(d)]
           snap == Files(q)
           r == [q EXCEPT !.pc = "batch", !.snap = snap, !.now = now]
<1>1. q.pc = "stage" /\ mishaps' = mishaps /\ md' = md /\ versions' = versions
      /\ graph' = graph /\ broken' = broken /\ lock' = lock /\ Becomes(t, r)
  BY DEF ReadBatch, fileVars, storeVars
<1>2. q \in Calls /\ Formed(q) /\ Unread(q) /\ lock = t /\ q.op # "search" /\ mishaps \in Nat
      /\ md \in [Pages -> Nat]
  BY <1>1, ToolHasLock
<1>3. now \in [WikiDomains -> Prints] /\ snap \in Rows /\ "batch" \in Pcs
  BY <1>2, PrintIsPrint, FilesAreRows DEF Calls, Pcs
<1> HIDE DEF now, snap
<1>4. r \in Calls
  BY <1>2, <1>3, ZenonT(20) DEF Calls
<1>5. /\ r.op = q.op /\ r.on = q.on /\ r.scope = q.scope /\ r.pc = "batch"
      /\ r.phase = q.phase /\ r.got = q.got /\ r.checked = q.checked /\ r.seen = q.seen
  BY <1>2 DEF Calls
<1> HIDE DEF r
<1>6. ASSUME thread'[t] = r PROVE Knows(t)'
  <2>1. Formed(r) /\ Unread(r)
    BY <1>1, <1>2, <1>5 DEF Formed, Looks, Unread
  <2>2. RowsStaged(thread[t])' /\ Remembers(thread[t])'
    BY <1>5, <1>6 DEF RowsStaged, Remembers
  <2> QED
    BY <1>1, <1>2, <1>5, <1>6, <2>1, <2>2, PageToolKnows DEF Looks
<1> QED
  BY <1>1, <1>2, <1>4, <1>6, BecomingOnly

\* A page tool or an index tool that goes to where its rows are staged.
LEMMA StagedKnows ==
  ASSUME NEW t \in Threads, NEW q \in Calls, NEW r \in Calls, Formed(q), Unread(q),
         q.op \in {"page", "index"}, r.pc \in {"final", "publish"},
         r.op = q.op, r.on = q.on, r.scope = q.scope, r.phase = q.phase,
         r.got = q.got, r.checked = q.checked, r.seen = q.seen,
         q.pc \notin {"idle"},
         thread'[t] = r, lock' = t, RowsStaged(thread[t])'
  PROVE  Knows(t)'
<1>1. Formed(r) /\ Unread(r)
  BY DEF Formed, Looks, Unread
<1>2. Remembers(thread[t])'
  BY DEF Remembers
<1> QED
  BY <1>1, <1>2, PageToolKnows DEF Looks

LEMMA MarkdownStays ==
  ASSUME md' = md
  PROVE  \A d : Markdown(d)' = Markdown(d)
BY DEF Markdown, Present

LEMMA RefreshPagesStep ==
  ASSUME WikiInv, NEW t \in Threads, refresh_pages(t)
  PROVE  WikiInv'
<1> DEFINE q == thread[t]
           d == The(q)
           rows == Refreshed(d, q)
<1>1. q.pc = "refresh" /\ mishaps' = mishaps /\ md' = md
      /\ versions' = versions /\ broken' = broken /\ lock' = lock
  BY DEF refresh_pages, fileVars
<1>2. q \in Calls /\ Formed(q) /\ Unread(q) /\ lock = t /\ q.op # "search" /\ mishaps \in Nat
      /\ md \in [Pages -> Nat] /\ graph \in [WikiDomains -> Graphs] /\ ReadyIsHonest
      /\ broken \in BOOLEAN
  BY <1>1, ToolHasLock
<1>3. CASE Failed(t)
  BY <1>1, <1>2, <1>3, FailedStep
<1>4. CASE /\ content_parity(d, rows)
           /\ graph' = [graph EXCEPT ![d] =
                           [state |-> "dirty", print |-> q.now[d], rows |-> rows,
                            doubted |-> FALSE]]
           /\ Becomes(t, [q EXCEPT !.pc = "final", !.snap = NoPages, !.pages = {}])
  <2> DEFINE r == [q EXCEPT !.pc = "final", !.snap = NoPages, !.pages = {}]
  <2>1. "final" \in Pcs /\ {} \in SUBSET Pages
    BY DEF Pcs
  <2>2. r \in Calls
    BY <1>2, <2>1, NoPagesAreRows, ZenonT(20) DEF Calls
  <2>3. /\ r.op = q.op /\ r.on = q.on /\ r.scope = q.scope /\ r.pc = "final"
        /\ r.phase = q.phase /\ r.got = q.got /\ r.checked = q.checked /\ r.seen = q.seen
    BY <1>2 DEF Calls
  <2> HIDE DEF r
  <2>4. q.op \in {"page", "index"} /\ d \in WikiDomains
    BY <1>1, <1>2, TheIsOn DEF Formed
  <2>5. rows \in Rows /\ q.now[d] \in Prints /\ rows = Markdown(d)
    BY <1>2, <1>4, <2>4, RefreshedIsRows DEF Calls, content_parity
  <2> HIDE DEF rows
  <2>6. graph' \in [WikiDomains -> Graphs] /\ ReadyIsHonest' /\ graph'[d].rows = rows
    BY <1>2, <1>4, <2>4, <2>5 DEF Graphs, ReadyIsHonest
  <2>7. ASSUME thread'[t] = r PROVE Knows(t)'
    <3>1. The(r) = d /\ \A e : Markdown(e)' = Markdown(e)
      BY <1>1, <2>3, MarkdownStays DEF The
    <3>2. RowsStaged(thread[t])'
      BY <2>3, <2>5, <2>6, <2>7, <3>1 DEF RowsStaged
    <3> QED
      BY <1>1, <1>2, <2>2, <2>3, <2>4, <2>7, <3>2, StagedKnows
  <2> QED
    BY <1>1, <1>2, <1>4, <2>2, <2>6, <2>7, Becoming DEF r
<1> QED
  BY <1>3, <1>4 DEF refresh_pages

LEMMA DisownStep ==
  ASSUME WikiInv, NEW t \in Threads, Disown(t)
  PROVE  WikiInv'
<1> DEFINE q == thread[t]
           r == [q EXCEPT !.pc = "inspect"]
<1>1. q.pc = "disown" /\ mishaps' = mishaps /\ md' = md /\ versions' = versions
      /\ graph' = Dirtied(The(q)) /\ broken' = broken /\ lock' = lock /\ Goes(t, "inspect")
  BY DEF Disown, fileVars
<1>2. q \in Calls /\ Formed(q) /\ Unread(q) /\ lock = t /\ q.op # "search" /\ mishaps \in Nat
      /\ graph \in [WikiDomains -> Graphs] /\ ReadyIsHonest /\ broken \in BOOLEAN
  BY <1>1, ToolHasLock
<1>3. r \in Calls /\ Becomes(t, r)
  BY <1>1, GoesStep DEF Pcs, WikiInv, WikiTypeOK
<1>4. /\ r.op = q.op /\ r.on = q.on /\ r.scope = q.scope /\ r.pc = "inspect"
      /\ r.phase = q.phase /\ r.got = q.got /\ r.checked = q.checked /\ r.seen = q.seen
  BY <1>2 DEF Calls
<1> HIDE DEF r
<1>5. ASSUME thread'[t] = r PROVE Knows(t)'
  <2>1. Formed(r) /\ Unread(r)
    BY <1>1, <1>2, <1>4 DEF Formed, Looks, Unread
  <2>2. RowsStaged(thread[t])' /\ Remembers(thread[t])'
    BY <1>4, <1>5 DEF RowsStaged, Remembers
  <2> QED
    BY <1>1, <1>2, <1>4, <1>5, <2>1, <2>2, PageToolKnows DEF Looks
<1>6. graph' \in [WikiDomains -> Graphs] /\ ReadyIsHonest'
  BY <1>1, <1>2, DirtiedOne
<1> QED
  BY <1>1, <1>2, <1>3, <1>5, <1>6, Becoming

LEMMA RestageStep ==
  ASSUME WikiInv, NEW t \in Threads, Restage(t)
  PROVE  WikiInv'
<1> DEFINE q == thread[t]
           d == The(q)
           print == markdown_fingerprint(d)
<1>1. q.pc = "restage" /\ mishaps' = mishaps /\ md' = md
      /\ versions' = versions /\ broken' = broken /\ lock' = lock
      /\ graph' = [graph EXCEPT ![d].state = "dirty", ![d].print = print]
      /\ Becomes(t, [q EXCEPT !.pc = "final", !.now[d] = print])
  BY DEF Restage, fileVars
<1>2. q \in Calls /\ Formed(q) /\ Unread(q) /\ lock = t /\ q.op # "search" /\ mishaps \in Nat
      /\ md \in [Pages -> Nat] /\ graph \in [WikiDomains -> Graphs] /\ ReadyIsHonest
      /\ broken \in BOOLEAN /\ Knows(t)
  BY <1>1, ToolHasLock
<1>3. /\ q.op \in {"page", "index"} /\ d \in WikiDomains
      /\ q.back \/ graph[d].doubted \/ graph[d].rows = Markdown(d)
  BY <1>1, <1>2, TheIsOn DEF Formed, Knows, RowsStaged
<1> DEFINE now == [q.now EXCEPT ![d] = print]
           r == [q EXCEPT !.pc = "final", !.now = now]
<1>4. Becomes(t, r)
  BY <1>1, Zenon
<1>5. print \in Prints /\ now \in [WikiDomains -> Prints] /\ "final" \in Pcs
  BY <1>2, PrintIsPrint DEF Calls, Pcs
<1> HIDE DEF print, now
<1>6. r \in Calls
  BY <1>2, <1>5, ZenonT(20) DEF Calls
<1>7. /\ r.op = q.op /\ r.on = q.on /\ r.scope = q.scope /\ r.pc = "final"
      /\ r.phase = q.phase /\ r.got = q.got /\ r.checked = q.checked /\ r.seen = q.seen
      /\ r.back = q.back
  BY <1>2 DEF Calls
<1> HIDE DEF r
<1>8. /\ graph' \in [WikiDomains -> Graphs] /\ ReadyIsHonest'
      /\ graph'[d].rows = graph[d].rows /\ graph'[d].doubted = graph[d].doubted
  BY <1>1, <1>2, <1>3, <1>5 DEF Graphs, ReadyIsHonest
<1>9. ASSUME thread'[t] = r PROVE Knows(t)'
  <2>1. The(r) = d /\ \A e : Markdown(e)' = Markdown(e)
    BY <1>1, <1>7, MarkdownStays DEF The
  <2>2. RowsStaged(thread[t])'
    BY <1>3, <1>7, <1>8, <1>9, <2>1 DEF RowsStaged
  <2> QED
    BY <1>1, <1>2, <1>3, <1>6, <1>7, <1>9, <2>2, StagedKnows
<1> QED
  BY <1>1, <1>2, <1>4, <1>6, <1>8, <1>9, Becoming

LEMMA NotRebuiltStep ==
  ASSUME WikiInv, NEW t \in Threads, NotRebuilt(t)
  PROVE  WikiInv'
<1>1. thread[t].pc = "failed" /\ Failed(t) /\ mishaps' = mishaps /\ md' = md
      /\ versions' = versions /\ broken' = broken /\ lock' = lock
  BY DEF NotRebuilt, fileVars
<1>2. lock = t /\ mishaps \in Nat /\ broken \in BOOLEAN
  BY <1>1, ToolHasLock
<1> QED
  BY <1>1, <1>2, FailedStep

LEMMA FingerprintStep ==
  ASSUME WikiInv, NEW t \in Threads, Fingerprint(t)
  PROVE  WikiInv'
<1> DEFINE q == thread[t]
           d == The(q)
           print == markdown_fingerprint(d)
           r == [q EXCEPT !.pc = "publish", !.print = print]
<1>1. q.pc = "final" /\ mishaps' = mishaps /\ md' = md /\ versions' = versions
      /\ graph' = graph /\ broken' = broken /\ lock' = lock /\ Becomes(t, r)
  BY DEF Fingerprint, fileVars, storeVars
<1>2. q \in Calls /\ Formed(q) /\ Unread(q) /\ lock = t /\ q.op # "search" /\ mishaps \in Nat
      /\ md \in [Pages -> Nat] /\ Knows(t)
  BY <1>1, ToolHasLock
<1>3. /\ q.op \in {"page", "index"} /\ d \in WikiDomains
      /\ q.back \/ graph[d].doubted \/ graph[d].rows = Markdown(d)
  BY <1>1, <1>2, TheIsOn DEF Formed, Knows, RowsStaged
<1>4. print \in Prints /\ Contents(print) = Markdown(d) /\ "publish" \in Pcs
  BY <1>2, PrintIsPrint, PrintContents DEF Pcs
<1> HIDE DEF print
<1>5. r \in Calls
  BY <1>2, <1>4, ZenonT(20) DEF Calls
<1>6. /\ r.op = q.op /\ r.on = q.on /\ r.scope = q.scope /\ r.pc = "publish"
      /\ r.phase = q.phase /\ r.got = q.got /\ r.checked = q.checked /\ r.seen = q.seen
      /\ r.print = print /\ r.back = q.back
  BY <1>2 DEF Calls
<1> HIDE DEF r
<1>7. ASSUME thread'[t] = r PROVE Knows(t)'
  <2>1. The(r) = d
    BY <1>6 DEF The
  <2>2. RowsStaged(thread[t])'
    BY <1>1, <1>3, <1>4, <1>6, <1>7, <2>1 DEF RowsStaged
  <2> QED
    BY <1>1, <1>2, <1>3, <1>5, <1>6, <1>7, <2>2, StagedKnows
<1> QED
  BY <1>1, <1>2, <1>5, <1>7, BecomingOnly

LEMMA FinalizeMutationStep ==
  ASSUME WikiInv, NEW t \in Threads, finalize_graph_mutation(t)
  PROVE  WikiInv'
<1> DEFINE q == thread[t]
           d == The(q)
<1>1. q.pc = "publish" /\ mishaps' = mishaps /\ md' = md
      /\ versions' = versions /\ broken' = broken /\ lock' = lock
  BY DEF finalize_graph_mutation, fileVars
<1>2. q \in Calls /\ Formed(q) /\ Unread(q) /\ lock = t /\ q.op # "search" /\ mishaps \in Nat
      /\ graph \in [WikiDomains -> Graphs] /\ ReadyIsHonest /\ broken \in BOOLEAN /\ Knows(t)
  BY <1>1, ToolHasLock
<1>3. CASE Failed(t)
  BY <1>1, <1>2, <1>3, FailedStep
<1>4. CASE graph' = graph /\ Becomes(t, Synchronises)
  <2>1. ReadyIsHonest'
    BY <1>2, <1>4 DEF ReadyIsHonest
  <2> QED
    BY <1>1, <1>2, <1>4, <2>1, SynchronisesStep
<1>5. CASE /\ graph' = [graph EXCEPT ![d].state = "ready", ![d].print = q.print,
                                    ![d].doubted = @ \/ q.back]
           /\ Becomes(t, Synchronises)
  <2>1. /\ d \in WikiDomains /\ q.print \in Prints /\ q.back \in BOOLEAN
        /\ q.back \/ graph[d].doubted \/ graph[d].rows = Contents(q.print)
    BY <1>1, <1>2, TheIsOn DEF Formed, Knows, RowsStaged, Calls
  <2>2. graph' \in [WikiDomains -> Graphs] /\ ReadyIsHonest'
    BY <1>2, <1>5, <2>1 DEF Graphs, ReadyIsHonest
  <2> QED
    BY <1>1, <1>2, <1>5, <2>2, SynchronisesStep
<1> QED
  BY <1>3, <1>4, <1>5 DEF finalize_graph_mutation

LEMMA FinalizeBatchStep ==
  ASSUME WikiInv, NEW t \in Threads, finalize_graph_batch(t)
  PROVE  WikiInv'
<1> DEFINE q == thread[t]
<1>1. q.pc = "batch" /\ mishaps' = mishaps /\ md' = md
      /\ versions' = versions /\ broken' = broken /\ lock' = lock
  BY DEF finalize_graph_batch, fileVars
<1>2. q \in Calls /\ Formed(q) /\ Unread(q) /\ lock = t /\ q.op # "search" /\ mishaps \in Nat
      /\ md \in [Pages -> Nat] /\ graph \in [WikiDomains -> Graphs] /\ ReadyIsHonest
      /\ broken \in BOOLEAN
  BY <1>1, ToolHasLock
<1>3. CASE Failed(t)
  BY <1>1, <1>2, <1>3, FailedStep
<1>4. CASE /\ \A d \in q.on : Unchanged(d, q.now[d]) /\ content_parity(d, Refreshed(d, q))
           /\ graph' = [d \in WikiDomains |-> IF d \in q.on
                  THEN [state |-> "ready", print |-> q.now[d], rows |-> Refreshed(d, q),
                        doubted |-> FALSE]
                  ELSE graph[d]]
           /\ Becomes(t, Synchronises)
  <2>1. ASSUME NEW d \in q.on
        PROVE  /\ q.now[d] \in Prints /\ Refreshed(d, q) \in Rows
               /\ Refreshed(d, q) = Contents(q.now[d])
    <3>1. d \in WikiDomains /\ q.snap \in Rows
      BY <1>2 DEF Calls
    <3> QED
      BY <1>2, <1>4, <3>1, RefreshedIsRows, PrintContents
         DEF Calls, Unchanged, content_parity
  <2>2. graph' \in [WikiDomains -> Graphs] /\ ReadyIsHonest'
    BY <1>2, <1>4, <2>1 DEF Graphs, ReadyIsHonest
  <2> QED
    BY <1>1, <1>2, <1>4, <2>2, SynchronisesStep
<1> QED
  BY <1>3, <1>4 DEF finalize_graph_batch

-----------------------------------------------------------------------------
(* Failures *)

LEMMA StoreFailsStep ==
  ASSUME WikiInv, NEW t \in Threads, StoreFails(t)
  PROVE  WikiInv'
<1> DEFINE q == thread[t]
<1>1. q \in Calls /\ Knows(t) /\ mishaps \in Nat /\ graph \in [WikiDomains -> Graphs]
      /\ broken \in BOOLEAN /\ ReadyIsHonest
  BY DEF WikiInv, WikiTypeOK
<1>2. md' = md /\ versions' = versions /\ broken' = broken /\ mishaps' \in Nat
  BY <1>1 DEF StoreFails, fileVars
<1>3. graph' = graph => graph' \in [WikiDomains -> Graphs] /\ ReadyIsHonest' /\ RowsKept
  BY <1>1 DEF ReadyIsHonest, RowsKept
<1>4. CASE q.pc = "mark" /\ Goes(t, "wait") /\ graph' = graph /\ lock' = lock
  <2> DEFINE r == [q EXCEPT !.pc = "wait"]
  <2>1. r \in Calls /\ Becomes(t, r)
    BY <1>4, GoesStep DEF Pcs, WikiInv, WikiTypeOK
  <2>2. /\ r.pc = "wait" /\ r.op = q.op /\ r.on = q.on /\ r.scope = q.scope
        /\ r.phase = q.phase /\ r.got = q.got /\ r.seen = q.seen /\ r.checked = q.checked
    BY <1>1 DEF Calls
  <2> HIDE DEF r
  <2>3. Unread(q) /\ (q.op # "search" => lock' = t)
    BY <1>1, <1>4, NotReading DEF Knows, Looks, HasLock
  <2>4. thread'[t] = r => Knows(t)'
    BY <1>1, <1>4, <2>1, <2>2, <2>3, RepairKnows DEF Repairing, Unread
  <2> QED
    BY <1>2, <1>4, <2>1, <2>4, BecomingOnly
<1>5. CASE /\ q.pc \in {"rebuild", "put"} /\ Becomes(t, Without(q)) /\ Lets(t)
           /\ graph' \in {graph} \cup {Dirtied(d) : d \in {q.at} \cap WikiDomains}
  <2>1. Formed(q) /\ Unread(q) /\ lock = t
        /\ lock' = IF lock = t /\ q.op = "search" THEN None ELSE lock
    BY <1>1, <1>5, NotReading DEF Knows, Looks, HasLock, Repairing, Lets
  <2>2. graph' \in [WikiDomains -> Graphs] /\ ReadyIsHonest'
    <3>1. CASE graph' = graph
      BY <1>3, <3>1
    <3>2. CASE \E d : graph' = Dirtied(d)
      BY <1>1, <3>2, DirtiedOne
    <3> QED
      BY <1>5, <3>1, <3>2
  <2>3. Without(q) \in Calls /\ (thread'[t] = Without(q) => Knows(t)')
    BY <1>1, <1>5, <2>1, WithoutFields, WithoutKnows
  <2> QED
    BY <1>1, <1>2, <1>5, <2>1, <2>2, <2>3, Becoming
<1>6. CASE q.pc \in {"walk", "farther", "confirm"} /\ Becomes(t, Restarts(q))
           /\ graph' = graph /\ lock' = lock
  BY <1>1, <1>2, <1>3, <1>6, RestartsStep DEF Looks
<1>7. CASE /\ q.pc \in {"stage", "refresh", "batch", "disown", "restage", "publish", "failed"}
           /\ Failed(t) \/ (Becomes(t, Synchronises) /\ graph' = graph)
           /\ lock' = lock
  <2>1. lock = t
    BY <1>7, ToolHasLock
  <2> QED
    BY <1>1, <1>2, <1>3, <1>7, <2>1, FailedStep, SynchronisesStep
<1> QED
  BY <1>4, <1>5, <1>6, <1>7, Zenon DEF StoreFails

LEMMA ThreadDiesStep ==
  ASSUME WikiInv, NEW t \in Threads, ThreadDies(t)
  PROVE  WikiInv'
<1>1. /\ mishaps' = mishaps + 1 /\ Becomes(t, Idle) /\ mishaps \in Nat
      /\ lock' = IF lock = t THEN None ELSE lock
      /\ md' = md /\ versions' = versions /\ graph' = graph /\ broken' = broken
  BY DEF ThreadDies, fileVars, storeVars, WikiInv, WikiTypeOK
<1>2. thread'[t] = Idle => Knows(t)'
  BY IdleKnows
<1> QED
  BY <1>1, <1>2, IdleIsCall, BecomingOnly

-----------------------------------------------------------------------------
(* The theorems *)

LEMMA StepOfThread ==
  ASSUME WikiInv, NEW t \in Threads, Search(t) \/ Begin(t) \/ Step(t) \/ ThreadDies(t)
  PROVE  WikiInv'
<1>1. CASE ScopedStep(t)
  BY <1>1, InspectStep, MarkStaleStep, LockStep, LockTimeoutStep, BeginRebuildStep,
     SnapshotStep, RebuildStep, LoadedStep DEF ScopedStep
<1>2. CASE SearchStep(t)
  BY <1>2, NeighborsStep, EnsureCurrentStep, FirstPassStep, SecondPassStep DEF SearchStep
<1>3. CASE PageToolStep(t)
  BY <1>3, NothingNewStep, PullStep, RefreshPulledStep, ToolWritesStep, NotWrittenStep,
     RestoredStep, CommitStep, UnavailableStep, StageStep, ReadBatchStep, RefreshPagesStep,
     DisownStep, RestageStep, NotRebuiltStep, FingerprintStep, FinalizeMutationStep,
     FinalizeBatchStep DEF PageToolStep
<1>4. CASE Begin(t)
  <2>1. \A d \in WikiDomains : {d} \in SUBSET WikiDomains
    OBVIOUS
  <2>2. CASE PageTool(t)
    BY <2>1, <2>2, MutateStep DEF PageTool
  <2>3. CASE wiki_index(t)
    BY <2>1, <2>3, MutateStep DEF wiki_index
  <2>4. CASE CrossDomain(t)
    BY <2>4, MutateStep DEF CrossDomain
  <2> QED
    BY <1>4, <2>2, <2>3, <2>4, WikiSyncStep DEF Begin
<1> QED
  BY <1>1, <1>2, <1>3, <1>4, SearchBegins, StoreFailsStep, ThreadDiesStep DEF Step

LEMMA BreakStep ==
  ASSUME WikiInv, Break \/ UNCHANGED wikiVars
  PROVE  WikiInv'
<1>1. /\ thread' = thread /\ md' = md /\ versions' = versions /\ graph' = graph /\ lock' = lock
      /\ broken' \in BOOLEAN /\ mishaps' \in Nat
  <2>1. broken \in BOOLEAN /\ mishaps \in Nat
    BY DEF WikiInv, WikiTypeOK
  <2>2. CASE Break
    BY <2>1, <2>2 DEF Break, fileVars
  <2>3. CASE UNCHANGED wikiVars
    BY <2>1, <2>3 DEF wikiVars
  <2> QED
    BY <2>2, <2>3
<1>2. WikiTypeOK' /\ ReadyIsHonest'
  BY <1>1 DEF WikiInv, WikiTypeOK, ReadyIsHonest
<1>3. ASSUME NEW u \in Threads PROVE Knows(u)'
  BY <1>1, OtherKeeps DEF WikiInv, WikiTypeOK, RowsKept
<1> QED
  BY <1>2, <1>3 DEF WikiInv

LEMMA WikiInitInv == WikiInit => WikiInv
<1> SUFFICES ASSUME WikiInit PROVE WikiInv
  OBVIOUS
<1>1. NoRow \in Graphs /\ NoRow.state = "missing"
  BY NoPagesAreRows DEF NoRow, Graphs, Prints
<1>2. WikiTypeOK
  <2>1. md \in [Pages -> Nat] /\ versions \in Nat /\ mishaps \in Nat
        /\ \A f \in Pages : md[f] <= versions
    BY DEF WikiInit
  <2>2. graph \in [WikiDomains -> Graphs] /\ thread \in [Threads -> Calls]
    BY <1>1, IdleIsCall DEF WikiInit
  <2> QED
    BY <2>1, <2>2 DEF WikiInit, WikiTypeOK
<1>3. ReadyIsHonest
  BY <1>1 DEF WikiInit, ReadyIsHonest
<1>4. ASSUME NEW t \in Threads PROVE Knows(t)
  <2>1. thread[t] = Idle
    BY DEF WikiInit
  <2> QED
    BY <2>1 DEF Idle, Knows, HasLock, Formed, Rebuilding, RowsStaged, Remembers, Walks, Reads,
                Looks, Repairing
<1> QED
  BY <1>2, <1>3, <1>4 DEF WikiInv

LEMMA WikiInductive == WikiInv /\ [WikiNext]_wikiVars => WikiInv'
BY StepOfThread, EditStep, BreakStep DEF WikiNext

\* Whatever threads, pages, domains, edits, crashes and failures of the store
\* there are, each thread of wiki_search, of the page tools and of the repairs
\* knows of the files and of the graph what WikiInv says.
THEOREM WikiInvariantHolds == WikiSpec => []WikiInv
BY WikiInitInv, WikiInductive, PTL DEF WikiSpec

\* graph_store publishes a domain as ready only with the rows of the files whose
\* fingerprint it bears, but where an editor undid a change under a rebuild that
\* had read it, or changed a file in the gap of a mutation.
THEOREM ReadyStaysHonest == WikiSpec => []ReadyIsHonest
<1>1. WikiInv => ReadyIsHonest
  BY DEF WikiInv
<1> QED
  BY <1>1, WikiInvariantHolds, PTL

LEMMA MeantIsTexts ==
  ASSUME md \in [Pages -> Nat], NEW prints,
         \A d \in WikiDomains : Unchanged(d, prints[d])
  PROVE  Meant(prints) = Texts
<1>1. ASSUME NEW i \in Places
      PROVE  Meant(prints)[i] = Texts[i]
  <2> DEFINE f == PageOrder[i]
  <2>1. f[1] \in WikiDomains /\ f \in Pages
    BY PlacesArePages, PagesArePairs
  <2>2. Contents(prints[f[1]]) = Markdown(f[1])
    BY <2>1, PrintContents DEF Unchanged
  <2>3. In(Markdown(f[1]), f) = md[f]
    BY <2>1 DEF In, Markdown, Present
  <2> QED
    BY <2>2, <2>3 DEF Meant, Texts, Places
<1>2. Meant(prints) = [i \in Places |-> Meant(prints)[i]] /\ Texts = [i \in Places |-> Texts[i]]
  BY DEF Meant, Texts, Places
<1> QED
  BY <1>1, <1>2

\* A walk of the graph that was confirmed answers with the files as they are.
LEMMA ConfirmedIsTexts ==
  ASSUME WikiInv, NEW t \in Threads, ensure_current(t), thread'[t] = Idle
  PROVE  \/ thread[t].back
         \/ thread[t].got = Texts /\ thread[t].again = Texts
<1> DEFINE q == thread[t]
           changed == {d \in WikiDomains : ~Unchanged(d, q.prints[d])}
<1>1. q \in Calls /\ q.pc = "confirm" /\ Formed(q) /\ Walks(q) /\ md \in [Pages -> Nat]
      /\ thread \in [Threads -> Calls]
  BY DEF WikiInv, WikiTypeOK, Knows, ensure_current
<1>2. CASE Becomes(t, Restarts(q))
  <2>1. thread'[t] = Restarts(q)
    BY <1>1, <1>2 DEF Becomes
  <2>2. Restarts(q).pc # "idle"
    BY <1>1, RestartsFields, WithoutFields
  <2>3. Idle.pc = "idle"
    BY DEF Idle
  <2> QED
    BY <2>1, <2>2, <2>3
<1>3. CASE changed = {}
  <2>1. \A d \in WikiDomains : Unchanged(d, q.prints[d])
    BY <1>3
  <2> QED
    BY <1>1, <2>1, MeantIsTexts DEF Walks
<1> QED
  BY <1>2, <1>3 DEF ensure_current

\* Files that were read twice and found the same are those of one moment.
LEMMA ReadTwiceIsSeen ==
  ASSUME WikiInv, NEW t \in Threads, SecondPass(t), SameAgain(thread[t]), thread'[t] = Idle
  PROVE  thread[t].back \/ thread[t].got \in thread[t].seen
<1> DEFINE q == thread[t]
           n == q.checked + 1
<1>1. q \in Calls /\ q.pc = "again" /\ Formed(q) /\ Reads(q) /\ md \in [Pages -> Nat]
      /\ thread \in [Threads -> Calls]
  BY DEF WikiInv, WikiTypeOK, Knows, SecondPass
<1>2. n = Len(PageOrder)
  <2> SUFFICES ASSUME n # Len(PageOrder) PROVE FALSE
    OBVIOUS
  <2>1. Becomes(t, [q EXCEPT !.checked = q.checked + 1])
    BY DEF SecondPass
  <2>2. thread'[t] = [q EXCEPT !.checked = q.checked + 1]
    BY <1>1, <2>1 DEF Becomes
  <2>3. thread'[t].pc = "again"
    BY <1>1, <2>2 DEF Calls
  <2> QED
    BY <2>3 DEF Idle
<1>3. CASE ~q.back
  <2>1. PICK texts \in q.seen : Agrees(q, texts)
    BY <1>1, <1>3 DEF Reads
  <2>2. texts \in [Places -> Nat] /\ q.got \in Seq(Nat) /\ Len(q.got) = Len(PageOrder)
        /\ q.checked \in Nat
    BY <1>1 DEF Calls, Reads, Whole
  <2>3. md[PageOrder[n]] = q.got[n] /\ n \in Places
    BY <1>2, <2>2 DEF SameAgain, Places
  <2>4. ASSUME NEW i \in Places PROVE texts[i] = q.got[i]
    <3>1. CASE i = n
      BY <2>1, <2>3, <3>1 DEF Agrees
    <3>2. CASE i # n
      <4>1. i \in 1..q.checked
        BY <1>2, <2>2, <3>2 DEF Places
      <4> QED
        BY <2>1, <4>1 DEF Agrees
    <3> QED
      BY <3>1, <3>2
  <2>5. q.got = [i \in Places |-> q.got[i]] /\ texts = [i \in Places |-> texts[i]]
    <3>1. q.got \in [1..Len(q.got) -> Nat]
      BY <2>2
    <3> QED
      BY <2>2, <3>1 DEF Places
  <2>6. q.got = texts
    BY <2>4, <2>5
  <2> QED
    BY <2>1, <2>6
<1> QED
  BY <1>3

\* A search, of the graph or of the files, answers with the whole Markdown of one
\* moment, but for files that changed and changed back while they were read, and
\* for a graph that an editor had made doubtful.
THEOREM AnswersHaveOneMoment == WikiSpec => AnswersAreOfOneMoment
<1>1. WikiInv /\ [WikiNext]_wikiVars =>
        [\A t \in Threads :
          LET q == thread[t] IN
          /\ ensure_current(t) /\ thread'[t] = Idle
                 => q.back \/ (q.got = Texts /\ q.again = Texts)
          /\ SecondPass(t) /\ SameAgain(q) /\ thread'[t] = Idle
                 => q.back \/ q.got \in q.seen]_wikiVars
  BY ConfirmedIsTexts, ReadTwiceIsSeen
<1> QED
  BY <1>1, WikiInvariantHolds, PTL DEF WikiSpec, AnswersAreOfOneMoment

=============================================================================
