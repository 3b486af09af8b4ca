------------------------- MODULE GraphIndexesProofs -------------------------
(***************************************************************************)
(* Theorems about GraphIndexes, for every set of processes, threads, pages *)
(* and texts, and all bounds.                                              *)
(***************************************************************************)
EXTENDS GraphIndexes, FiniteSetTheorems, SequenceTheorems, WellFoundedInduction, TLAPS

-----------------------------------------------------------------------------
(* Types, and who holds the lock *)

Steps == {"idle", "alias", "bm25", "patchAlias", "stampAlias", "patchBm25", "stampBm25",
          "pop", "unlink", "stampGc", "onDisk", "links", "keep"}
Locked == {"alias", "bm25", "patchAlias", "stampAlias", "patchBm25", "stampBm25", "stampGc"}

Shots == [Pages -> Texts \cup {NoPage}]
Sigs == [Pages -> Nat]
Jobs == [page : Pages, sig : Sigs, todo : SUBSET Pages, shot : Shots]
Graph ==
    /\ content \in Shots /\ mtime \in Sigs /\ edits \in Nat
    /\ \A p \in Pages : mtime[p] = 0 <=> content[p] = NoPage
    /\ \A p \in Pages : mtime[p] <= edits + 1
    /\ claimed \in [Pages -> SUBSET Titles]
    /\ \A p \in Pages : AliasesIn(content[p]) \subseteq claimed[p]

Callings ==
    /\ pc \in [Callers -> Steps] /\ job \in [Callers -> Jobs]
    /\ DOMAIN glock = Procs
    /\ \A c \in Callers : pc[c] \in Locked => glock[Home[c]] = c

-----------------------------------------------------------------------------
(* The counts of incoming links *)

\* A signature that was taken at some time: what has been written since has a
\* higher mtime, and a page without one then is not there unless it was created since.
Taken(sig) ==
    /\ sig \in Sigs
    /\ \A p \in Pages : sig[p] <= edits + 1
    /\ \A p \in Pages : sig[p] = 0 /\ p \notin created => content[p] = NoPage

\* The shot has what the signature speaks of, but for the pages still to be read.
Shows(sig, shot, todo) ==
    \A p \in Pages : sig[p] = mtime[p] /\ (mtime[p] = 0 => p \notin created) =>
        p \in todo \/ shot[p] = content[p]

Counted(e) ==
    e # None => /\ Taken(e.sig)
                /\ \E shot \in Shots : /\ e.counts = compute_incoming_full(shot)
                                       /\ Shows(e.sig, shot, {})

Counts(c) ==
    /\ pc[c] \in {"onDisk", "links", "keep"} => Taken(job[c].sig)
    /\ pc[c] = "links" => Shows(job[c].sig, job[c].shot, job[c].todo)
    /\ pc[c] = "keep" => Shows(job[c].sig, job[c].shot, {})

Tallies ==
    /\ DOMAIN memory = Procs /\ \A x \in Procs : Counted(memory[x])
    /\ Counted(disk)
    /\ \A c \in Callers : Counts(c)

-----------------------------------------------------------------------------
(* The corpus *)

Docs == [page : Pages, words : SUBSET Words]

\* Where the documents are that have word w.
Holding(docs, w) == {i \in DOMAIN docs : w \in docs[i].words}

Corpus(corpus) ==
    /\ corpus \in [docs : Seq(Docs), df : [Words -> Nat], n : Nat]
    /\ corpus.n = Len(corpus.docs)
    /\ \A i, j \in DOMAIN corpus.docs : corpus.docs[i].page = corpus.docs[j].page => i = j
    /\ \A w \in Words : corpus.df[w] = Cardinality(Holding(corpus.docs, w))

Cached(e) == DOMAIN e = {"sig", "corpus"} /\ Corpus(e.corpus)

Corpora ==
    /\ DOMAIN bm25 = Procs
    /\ \A x \in Procs : bm25[x] # None => Cached(bm25[x])
    /\ \A c \in Callers : pc[c] = "stampBm25" => Cached(bm25[Home[c]])

-----------------------------------------------------------------------------
(* The alias index *)

Agrees(idx, p) == (p \in idx.known <=> content[p] # NoPage) /\ idx.names[p] = AliasesIn(content[p])
Blank(idx, p) == p \notin idx.known /\ idx.names[p] = {}

\* A name is kept by a page that has it in its row, and by nobody only when
\* the page that has it shares it with another.  Only pages have names.
Owned(idx) ==
    /\ \A k \in Titles : idx.claim[k] # None => k \in idx.names[idx.claim[k]]
    /\ \A p \in Pages : idx.names[p] \subseteq claimed[p]
    /\ \A p \in Pages : \A k \in idx.names[p] :
            idx.claim[k] = None => \E q \in Pages \ {p} : k \in claimed[q]
    /\ \A p \in Pages \ idx.known : idx.names[p] = {}

Building(x) == \E c \in Callers : Home[c] = x /\ pc[c] = "alias"

\* Somebody in process x has patched the row of p and not stamped it yet.
Patched(x, p) == \E c \in Callers : Home[c] = x /\ pc[c] = "stampAlias" /\ job[c].page = p

\* A row whose mtime is the page's is what the page says.
Synced(x, p) ==
    /\ alias[x].sig[p] # 0 /\ alias[x].sig[p] = mtime[p] => Agrees(alias[x].idx, p)
    /\ alias[x].sig[p] = 0 => Blank(alias[x].idx, p) \/ Patched(x, p)

\* What a thread at work has made of the index so far.
Doing(c) ==
    /\ pc[c] = "alias" => \A p \in Pages : p \in job[c].todo \/ job[c].shot[p] = content[p]
    /\ pc[c] = "stampAlias" => Agrees(alias[Home[c]].idx, job[c].page)
    /\ pc[c] = "stampGc" => \A p \in Pages \ Live(content) : Blank(alias[Home[c]].idx, p)

Aliased(x) ==
    /\ alias[x] # None => /\ alias[x] \in [sig : Sigs, idx : AliasIndex]
                          /\ \A p \in Pages : alias[x].sig[p] <= edits + 1
    /\ \A c \in Callers : Home[c] = x /\ pc[c] \in {"stampAlias", "stampGc"} => alias[x] # None
    /\ x \notin raced =>
        /\ alias[x] # None /\ Building(x) => ~AliasHit(x)
        /\ alias[x] # None /\ ~Building(x) =>
                Owned(alias[x].idx) /\ \A p \in Pages : Synced(x, p)
        /\ \A c \in Callers : Home[c] = x => Doing(c)

Aliases == DOMAIN alias = Procs /\ \A x \in Procs : Aliased(x)

-----------------------------------------------------------------------------
(* The order of pages *)

LEMMA PageHasPlace ==
    ASSUME NEW p \in Pages
    PROVE  Place(p) \in DOMAIN PageOrder /\ Place(p) \in Nat /\ PageOrder[Place(p)] = p
<1>1. \E i \in DOMAIN PageOrder : PageOrder[i] = p
  BY DEF Pages, ToSet
<1>2. Place(p) \in DOMAIN PageOrder /\ PageOrder[Place(p)] = p
  BY <1>1 DEF Place
<1>3. DOMAIN PageOrder = 1..Len(PageOrder)
  BY IndexAssumption DEF IndexAssumption
<1>. QED
  BY <1>2, <1>3

\* A set of pages has a first one.
LEMMA ForemostIsFirst ==
    ASSUME NEW S \in SUBSET Pages, S # {}
    PROVE  Foremost(S) \in S /\ \A q \in S : Place(Foremost(S)) <= Place(q)
<1>. DEFINE T == {Place(q) : q \in S}
<1>1. T \subseteq Nat /\ T # {}
  BY PageHasPlace
<1>. HIDE DEF T
<1>2. PICK i \in T : \A j \in T : ~(<<j, i>> \in OpToRel(<, Nat))
  BY <1>1, WFMin, NatLessThanWellFounded
<1>3. ASSUME NEW j \in T
      PROVE  i <= j
  <2>1. j < i => <<j, i>> \in OpToRel(<, Nat)
    BY <1>1 DEF OpToRel
  <2>2. i \in Nat /\ j \in Nat
    BY <1>1
  <2>3. ~(j < i)
    BY <1>2, <2>1
  <2>. QED
    BY <2>2, <2>3
<1>4. \E p \in S : \A q \in S : Place(p) <= Place(q)
  BY <1>3 DEF T
<1>. QED
  BY <1>4 DEF Foremost

LEMMA PagesAreFinite == IsFiniteSet(Pages)
<1>. DEFINE f == [p \in Pages |-> Place(p)]
<1>1. Len(PageOrder) \in Nat /\ DOMAIN PageOrder = 1..Len(PageOrder)
  BY IndexAssumption DEF IndexAssumption
<1>2. f \in Injection(Pages, 1..Len(PageOrder))
  BY <1>1, PageHasPlace DEF Injection, IsInjective
<1>3. 1 \in Int /\ Len(PageOrder) \in Int
  BY <1>1
<1>4. IsFiniteSet(1..Len(PageOrder))
  BY <1>3, FS_Interval, Zenon
<1>. QED
  BY <1>2, <1>4, FS_Injection

Sorted(S, s) ==
    /\ s \in [1..Cardinality(S) -> S]
    /\ \A i, j \in DOMAIN s : i < j => Place(s[i]) < Place(s[j])

\* Any set of pages can be listed in order: the first page, then the others.
LEMMA SortExists ==
    \A S \in SUBSET Pages : \E s : Sorted(S, s)
<1>. DEFINE Fails(S) == ~\E s : Sorted(S, s)
            Bad == {n \in Nat : \E S \in SUBSET Pages : Cardinality(S) = n /\ Fails(S)}
<1>0. \A S \in SUBSET Pages : IsFiniteSet(S) /\ Cardinality(S) \in Nat
  BY PagesAreFinite, FS_Subset, FS_CardinalityType
<1>1. CASE Bad = {}
  BY <1>0, <1>1
<1>2. CASE Bad # {}
  <2>1. PICK n \in Bad : \A m \in Bad : ~(<<m, n>> \in OpToRel(<, Nat))
    <3>. HIDE DEF Bad
    <3>1. Bad \subseteq Nat
      BY DEF Bad
    <3>. QED
      BY <1>2, <3>1, WFMin, NatLessThanWellFounded
  <2>2. \A m \in Nat : m < n => m \notin Bad
    BY <2>1 DEF OpToRel
  <2>3. PICK S \in SUBSET Pages : Cardinality(S) = n /\ Fails(S)
    OBVIOUS
  <2>4. n \in Nat /\ IsFiniteSet(S)
    BY <1>0
  <2>. HIDE DEF Bad
  <2>5. CASE S = {}
    <3>1. Cardinality(S) = 0
      BY <2>5, FS_EmptySet
    <3>. DEFINE s == [i \in 1..0 |-> NoPage]
    <3>2. s \in [1..Cardinality(S) -> S] /\ DOMAIN s = {}
      BY <3>1
    <3>. HIDE DEF s
    <3>3. Sorted(S, s)
      BY <3>2 DEF Sorted
    <3>. QED
      BY <2>3, <3>3
  <2>6. CASE S # {}
    <3>. DEFINE f == Foremost(S)
                T == S \ {f}
    <3>1. f \in S /\ \A q \in S : Place(f) <= Place(q)
      BY <2>6, ForemostIsFirst
    <3>. HIDE DEF f
    <3>2. Cardinality(T) = n - 1 /\ T \in SUBSET Pages
      BY <2>3, <2>4, <3>1, FS_RemoveElement
    <3>3. n - 1 \in Nat
      BY <1>0, <3>2
    <3>4. ~Fails(T)
      <4>1. n - 1 \notin Bad
        BY <2>2, <2>4, <3>3
      <4>. QED
        BY <3>2, <3>3, <4>1 DEF Bad
    <3>5. PICK t : Sorted(T, t)
      BY <3>4
    <3>6. t \in [1..n - 1 -> T] /\ \A i, j \in 1..n - 1 : i < j => Place(t[i]) < Place(t[j])
      BY <3>2, <3>5 DEF Sorted
    <3>. DEFINE s == [i \in 1..n |-> IF i = 1 THEN f ELSE t[i - 1]]
    <3>. HIDE DEF T
    <3>7. \A q \in T : q \in S /\ Place(f) < Place(q)
      <4>1. \A q \in T : q \in S /\ q # f /\ Place(f) <= Place(q)
        BY <3>1 DEF T
      <4>2. \A q \in T : Place(f) \in Nat /\ Place(q) \in Nat /\ Place(q) # Place(f)
        BY <2>3, <3>1, <4>1, PageHasPlace
      <4>. QED
        BY <4>1, <4>2
    <3>8. ASSUME NEW i \in 1..n
          PROVE  s[i] \in S /\ (i # 1 => i - 1 \in 1..n - 1 /\ s[i] = t[i - 1] /\ s[i] \in T)
      <4>1. CASE i = 1
        BY <3>1, <4>1
      <4>2. CASE i # 1
        <5>1. i - 1 \in 1..n - 1
          BY <2>4, <4>2
        <5>. QED
          BY <3>6, <3>7, <4>2, <5>1
      <4>. QED
        BY <4>1, <4>2
    <3>9. ASSUME NEW i \in 1..n, NEW j \in 1..n, i < j
          PROVE  Place(s[i]) < Place(s[j])
      <4>1. j # 1
        BY <3>9
      <4>2. CASE i = 1
        BY <3>7, <3>8, <4>1, <4>2
      <4>3. CASE i # 1
        <5>1. i - 1 < j - 1 /\ i - 1 \in 1..n - 1 /\ j - 1 \in 1..n - 1
          BY <3>8, <3>9, <4>1, <4>3
        <5>. QED
          BY <3>6, <3>8, <4>1, <4>3, <5>1
      <4>. QED
        BY <4>2, <4>3
    <3>10. s \in [1..n -> S] /\ DOMAIN s = 1..n
      BY <3>8
    <3>. HIDE DEF s
    <3>11. Sorted(S, s)
      BY <2>3, <3>9, <3>10 DEF Sorted
    <3>. QED
      BY <2>3, <3>11
  <2>. QED
    BY <2>5, <2>6
<1>. QED
  BY <1>1, <1>2

\* SortedPages lists every page of a set once.
LEMMA SortedPagesListsAll ==
    ASSUME NEW S \in SUBSET Pages
    PROVE  /\ Cardinality(S) \in Nat /\ IsFiniteSet(S)
           /\ SortedPages(S) \in [1..Cardinality(S) -> S]
           /\ \A i, j \in 1..Cardinality(S) : SortedPages(S)[i] = SortedPages(S)[j] => i = j
           /\ \A p \in S : \E i \in 1..Cardinality(S) : SortedPages(S)[i] = p
<1>. DEFINE n == Cardinality(S)
            s == SortedPages(S)
<1>1. n \in Nat /\ IsFiniteSet(S)
  BY PagesAreFinite, FS_Subset, FS_CardinalityType
<1>2. Sorted(S, s)
  BY SortExists DEF SortedPages, Sorted
<1>. HIDE DEF n, s
<1>3. s \in [1..n -> S] /\ DOMAIN s = 1..n /\ \A i, j \in 1..n : i < j => Place(s[i]) < Place(s[j])
  BY <1>2 DEF Sorted, n
<1>4. \A i \in 1..n : Place(s[i]) \in Nat
  BY <1>3, PageHasPlace
<1>5. ASSUME NEW i \in 1..n, NEW j \in 1..n, s[i] = s[j]
      PROVE  i = j
  <2>1. ~(i < j) /\ ~(j < i)
    BY <1>3, <1>4, <1>5
  <2>. QED
    BY <1>1, <2>1
<1>6. s \in Injection(1..n, S)
  BY <1>3, <1>5 DEF Injection, IsInjective
<1>7. Cardinality(1..n) = n
  <2>1. 1 \in Int /\ n \in Int
    BY <1>1
  <2>2. Cardinality(1..n) = IF 1 > n THEN 0 ELSE n - 1 + 1
    BY <2>1, FS_Interval, Zenon
  <2>. QED
    BY <1>1, <2>2
<1>8. s \in Surjection(1..n, S)
  BY <1>1, <1>6, <1>7, FS_Injection DEF n
<1>9. \A p \in S : \E i \in 1..n : s[i] = p
  BY <1>8 DEF Surjection
<1>. QED
  BY <1>1, <1>3, <1>5, <1>9 DEF n, s

-----------------------------------------------------------------------------
(* What a page may hold *)

LEMMA TextParts ==
    ASSUME NEW t \in Texts \cup {NoPage}
    PROVE  AliasesIn(t) \in SUBSET Titles /\ WordsIn(t) \in SUBSET Words
  BY IndexAssumption DEF IndexAssumption, AliasesIn, WordsIn

LEMMA NoJobIsJob == NoJob \in Jobs
<1>1. PageOrder[1] \in Pages
  BY IndexAssumption DEF IndexAssumption
<1>. QED
  BY <1>1 DEF NoJob, Jobs, Sigs, Shots, NoShot

\* A page changes, and nothing else does: what is written has an mtime of its own.
LEMMA ChangeKeepsGraph ==
    ASSUME NEW p \in Pages, NEW t \in Texts \cup {NoPage}, Graph, Change(p, t)
    PROVE  /\ Graph' /\ edits' = edits + 1
           /\ content'[p] = t /\ t # content[p]
           /\ mtime'[p] = (IF t = NoPage THEN 0 ELSE edits + 2)
           /\ \A q \in Pages \ {p} : content'[q] = content[q] /\ mtime'[q] = mtime[q]
           /\ \A q \in Pages : claimed[q] \subseteq claimed'[q]
           /\ created' = IF content[p] = NoPage THEN created \cup {p} ELSE created
<1>. USE DEF Graph
<1>1. /\ edits' = edits + 1 /\ t # content[p]
      /\ content' = [content EXCEPT ![p] = t]
      /\ mtime' = [mtime EXCEPT ![p] = IF t = NoPage THEN 0 ELSE edits + 2]
      /\ claimed' = [claimed EXCEPT ![p] = @ \cup AliasesIn(t)]
      /\ created' = IF content[p] = NoPage THEN created \cup {p} ELSE created
  BY DEF Change
<1>2. /\ content'[p] = t
      /\ mtime'[p] = IF t = NoPage THEN 0 ELSE edits + 2
      /\ claimed'[p] = claimed[p] \cup AliasesIn(t)
      /\ \A q \in Pages \ {p} : /\ content'[q] = content[q] /\ mtime'[q] = mtime[q]
                                /\ claimed'[q] = claimed[q]
  BY <1>1 DEF Shots, Sigs
<1>3. content' \in Shots /\ mtime' \in Sigs /\ edits' \in Nat
  BY <1>1 DEF Shots, Sigs
<1>4. claimed' \in [Pages -> SUBSET Titles]
  BY <1>1, TextParts
<1>5. ASSUME NEW q \in Pages
      PROVE  /\ mtime'[q] = 0 <=> content'[q] = NoPage
             /\ mtime'[q] <= edits' + 1
             /\ AliasesIn(content'[q]) \subseteq claimed'[q]
             /\ claimed[q] \subseteq claimed'[q]
  <2>1. CASE q = p
    BY <1>1, <1>2, <2>1
  <2>2. CASE q # p
    <3>1. mtime[q] \in Nat
      BY DEF Sigs
    <3>. QED
      BY <1>1, <1>2, <2>2, <3>1
  <2>. QED
    BY <2>1, <2>2
<1>. QED
  BY <1>1, <1>2, <1>3, <1>4, <1>5

\* The steps that change a page.
Changes == \E p \in Pages : \E t \in Texts \cup {NoPage} : Change(p, t)

LEMMA GraphStep == Graph /\ [Next]_vars => Graph' /\ (UNCHANGED graph \/ Changes)
<1>. SUFFICES ASSUME Graph, [Next]_vars PROVE Graph' /\ (UNCHANGED graph \/ Changes)
  OBVIOUS
<1>1. CASE UNCHANGED graph
  BY <1>1 DEF graph, Graph
<1>2. CASE Changes
  BY <1>2, ChangeKeepsGraph DEF Changes
<1>3. UNCHANGED graph \/ Changes
  <2>1. ASSUME NEW p \in Pages, Edit(p)
        PROVE  Changes
    BY <2>1 DEF Edit, Changes
  <2>2. ASSUME NEW c \in Callers, NEW p \in Pages, WritePage(c, p)
        PROVE  Changes
    BY <2>2 DEF WritePage, Changes
  <2>3. ASSUME NEW c \in Callers,
               \/ ReadPage(c) \/ BuildAlias(c) \/ AliasBuilt(c) \/ BuildBm25(c) \/ Bm25Built(c)
               \/ PatchAlias(c) \/ StampAlias(c) \/ PatchBm25(c) \/ StampBm25(c)
               \/ PopCounts(c) \/ UnlinkCounts(c) \/ Gc(c) \/ StampGc(c) \/ Clear(c)
               \/ LoadCounts(c) \/ LoadDisk(c) \/ SaveDisk(c) \/ KeepCounts(c)
        PROVE  UNCHANGED graph
    BY <2>3 DEF ReadPage, BuildAlias, AliasBuilt, BuildBm25, Bm25Built, PatchAlias, StampAlias,
       PatchBm25, StampBm25, PopCounts, UnlinkCounts, Gc, StampGc, Clear, LoadCounts, LoadDisk,
       SaveDisk, KeepCounts
  <2>4. CASE UNCHANGED vars
    BY <2>4 DEF vars
  <2>. QED
    BY <2>1, <2>2, <2>3, <2>4 DEF Next
<1>. QED
  BY <1>1, <1>2, <1>3

-----------------------------------------------------------------------------
(* Where the callers are, and the lock *)

\* A caller moves on; it takes the lock when it is free, holds it or lets it go.
LEMMA Moves ==
    ASSUME NEW c \in Callers, NEW to \in Steps, NEW j \in Jobs, Callings,
           pc' = [pc EXCEPT ![c] = to], job' = job \/ job' = [job EXCEPT ![c] = j],
           \/ glock' = glock /\ (to \in Locked => pc[c] \in Locked)
           \/ TakesLock(c)
           \/ Unlocks(c) /\ pc[c] \in Locked /\ to \notin Locked
    PROVE  Callings'
<1>. USE DEF Callings
<1>1. pc' \in [Callers -> Steps] /\ job' \in [Callers -> Jobs]
  OBVIOUS
<1>2. DOMAIN glock' = Procs
  BY DEF TakesLock, Unlocks
<1>3. Home[c] \in Procs /\ c # None
  BY IndexAssumption DEF IndexAssumption
<1>4. pc'[c] = to /\ \A d \in Callers \ {c} : pc'[d] = pc[d]
  OBVIOUS
<1>5. ASSUME NEW d \in Callers, pc'[d] \in Locked
      PROVE  glock'[Home[d]] = d
  <2>0. Home[d] \in Procs
    BY IndexAssumption DEF IndexAssumption
  <2>1. CASE glock' = glock /\ (to \in Locked => pc[c] \in Locked)
    BY <1>4, <1>5, <2>1
  <2>2. CASE TakesLock(c)
    <3>1. CASE d = c
      BY <1>3, <2>2, <3>1 DEF TakesLock
    <3>2. CASE d # c
      <4>1. glock[Home[d]] = d /\ d # None
        BY <1>4, <1>5, <3>2, IndexAssumption DEF IndexAssumption
      <4>. QED
        BY <2>0, <2>2, <4>1 DEF TakesLock
    <3>. QED
      BY <3>1, <3>2
  <2>3. CASE Unlocks(c) /\ pc[c] \in Locked /\ to \notin Locked
    <3>1. d # c
      BY <1>4, <1>5, <2>3
    <3>2. glock[Home[d]] = d /\ glock[Home[c]] = c
      BY <1>4, <1>5, <2>3, <3>1
    <3>. QED
      BY <2>0, <2>3, <3>1, <3>2 DEF Unlocks
  <2>. QED
    BY <2>1, <2>2, <2>3
<1>. QED
  BY <1>1, <1>2, <1>5

LEMMA StaysPut ==
    ASSUME Callings, pc' = pc, job' = job, glock' = glock
    PROVE  Callings'
  BY DEF Callings

\* The job of a scan.
LEMMA ScanIsJob ==
    ASSUME NEW c \in Callers, NEW sig \in Sigs
    PROVE  /\ [NoJob EXCEPT !.sig = sig, !.todo = Live(content)] \in Jobs
           /\ [NoJob EXCEPT !.sig = sig] \in Jobs
           /\ [NoJob EXCEPT !.sig = sig].sig = sig
           /\ [NoJob EXCEPT !.sig = sig, !.todo = Live(content)].sig = sig
           /\ [NoJob EXCEPT !.sig = sig, !.todo = Live(content)].todo = Live(content)
           /\ [NoJob EXCEPT !.sig = sig, !.todo = Live(content)].shot = NoShot
<1>. DEFINE j == [NoJob EXCEPT !.sig = sig]
            h == [j EXCEPT !.todo = Live(content)]
<1>1. j \in Jobs /\ j.sig = sig /\ j.shot = NoShot
  BY NoJobIsJob DEF Jobs, NoJob
<1>2. Live(content) \in SUBSET Pages
  BY DEF Live
<1>. HIDE DEF j
<1>3. h \in Jobs /\ h.sig = sig /\ h.todo = Live(content) /\ h.shot = NoShot
  BY <1>1, <1>2 DEF Jobs
<1>4. [NoJob EXCEPT !.sig = sig, !.todo = Live(content)] = h
  BY DEF j
<1>. QED
  BY <1>1, <1>3, <1>4 DEF j

\* The next page of a scan.
LEMMA ReadingIsJob ==
    ASSUME NEW c \in Callers, Graph, Callings, ReadPage(c)
    PROVE  \E p \in Pages : \E j \in Jobs :
                /\ job' = [job EXCEPT ![c] = j] /\ p \in job[c].todo
                /\ j.sig = job[c].sig /\ j.page = job[c].page
                /\ j.todo = job[c].todo \ {p}
                /\ j.shot = [job[c].shot EXCEPT ![p] = content[p]]
<1>. DEFINE p == Foremost(job[c].todo)
            j == [job[c] EXCEPT !.todo = @ \ {p}, !.shot[p] = content[p]]
            h == [job[c] EXCEPT !.todo = @ \ {p}]
<1>1. job[c] \in Jobs /\ content \in Shots
  BY DEF Callings, Graph
<1>2. job[c].todo \in SUBSET Pages /\ job[c].todo # {}
  BY <1>1 DEF ReadPage, Jobs
<1>3. p \in job[c].todo /\ p \in Pages
  BY <1>2, ForemostIsFirst
<1>4. job' = [job EXCEPT ![c] = j]
  BY DEF ReadPage
<1>. HIDE DEF p
<1>5. h \in Jobs /\ h.sig = job[c].sig /\ h.page = job[c].page /\ h.shot = job[c].shot
      /\ h.todo = job[c].todo \ {p}
  BY <1>1 DEF Jobs
<1>6. j = [h EXCEPT !.shot = [@ EXCEPT ![p] = content[p]]]
  OBVIOUS
<1>7. [job[c].shot EXCEPT ![p] = content[p]] \in Shots
  BY <1>1, <1>3 DEF Jobs, Shots
<1>. HIDE DEF h, j
<1>8. /\ j \in Jobs /\ j.sig = h.sig /\ j.page = h.page /\ j.todo = h.todo
      /\ j.shot = [h.shot EXCEPT ![p] = content[p]]
  BY <1>5, <1>6, <1>7 DEF Jobs
<1>. QED
  BY <1>3, <1>4, <1>5, <1>8

LEMMA CallingsStep == Graph /\ Callings /\ [Next]_vars => Callings'
<1>. SUFFICES ASSUME Graph, Callings, [Next]_vars PROVE Callings'
  OBVIOUS
<1>1. CASE UNCHANGED vars
  BY <1>1, StaysPut DEF vars
<1>2. ASSUME NEW p \in Pages, Edit(p)
      PROVE  Callings'
  BY <1>2, StaysPut DEF Edit
<1>3. mtime \in Sigs
  BY DEF Graph
<1>4. NoJob \in Jobs
  BY NoJobIsJob
<1>. USE DEF Steps, Locked
<1>5. ASSUME NEW c \in Callers
      PROVE  /\ pc[c] \in Steps /\ job[c] \in Jobs /\ pc' = pc => pc' = [pc EXCEPT ![c] = pc[c]]
             /\ Goes(c, "idle", "idle") => pc' = pc
  BY DEF Callings, Goes
<1>6. ASSUME NEW c \in Callers, ReadPage(c)
      PROVE  Callings'
  <2>1. PICK j \in Jobs : job' = [job EXCEPT ![c] = j]
    BY <1>6, ReadingIsJob
  <2>2. pc' = pc /\ glock' = glock
    BY <1>6 DEF ReadPage
  <2>. QED
    BY <2>1, <2>2 DEF Callings
<1>7. ASSUME NEW c \in Callers, BuildAlias(c) \/ BuildBm25(c)
      PROVE  Callings'
  <2>1. CASE UNCHANGED <<glock, pc, job>>
    BY <2>1, StaysPut
  <2>2. ASSUME NEW to \in {"alias", "bm25"}, TakesLock(c), Scan(c, Signature),
               pc' = [pc EXCEPT ![c] = to]
        PROVE  Callings'
    <3>1. Signature \in Sigs
      BY <1>3 DEF Signature
    <3>2. PICK j \in Jobs : job' = [job EXCEPT ![c] = j]
      BY <2>2, <3>1, ScanIsJob DEF Scan
    <3>. QED
      BY <2>2, <3>2, Moves
  <2>. QED
    BY <1>7, <2>1, <2>2 DEF BuildAlias, BuildBm25
<1>8. ASSUME NEW c \in Callers, AliasBuilt(c) \/ Bm25Built(c)
      PROVE  Callings'
  <2>1. /\ pc[c] \in Locked /\ pc' = [pc EXCEPT ![c] = "idle"]
        /\ job' = [job EXCEPT ![c] = NoJob] /\ Unlocks(c)
    BY <1>8 DEF AliasBuilt, Bm25Built, Scanned, Returns
  <2>. QED
    BY <1>4, <2>1, Moves
<1>9. ASSUME NEW c \in Callers, NEW p \in Pages, WritePage(c, p)
      PROVE  Callings'
  <2>. DEFINE j == [NoJob EXCEPT !.page = p]
  <2>1. j \in Jobs
    BY <1>4 DEF Jobs
  <2>2. pc' = [pc EXCEPT ![c] = "patchAlias"] /\ job' = [job EXCEPT ![c] = j] /\ TakesLock(c)
    BY <1>9 DEF WritePage
  <2>. HIDE DEF j
  <2>. QED
    BY <2>1, <2>2, Moves
<1>10. ASSUME NEW c \in Callers, PatchAlias(c) \/ StampAlias(c)
       PROVE  Callings'
  <2>1. /\ pc[c] \in Locked /\ job' = job /\ glock' = glock
        /\ \E to \in {"patchBm25", "stampAlias"} : pc' = [pc EXCEPT ![c] = to]
    BY <1>10 DEF PatchAlias, StampAlias, Goes
  <2>. QED
    BY <1>4, <2>1, Moves
<1>11. ASSUME NEW c \in Callers, PatchBm25(c) \/ StampBm25(c)
       PROVE  Callings'
  <2>1. /\ pc[c] \in Locked /\ job' = job
        /\ \/ pc' = [pc EXCEPT ![c] = "pop"] /\ Unlocks(c)
           \/ pc' = [pc EXCEPT ![c] = "stampBm25"] /\ glock' = glock
    BY <1>11 DEF PatchBm25, StampBm25, Goes
  <2>. QED
    BY <1>4, <2>1, Moves
<1>12. ASSUME NEW c \in Callers, PopCounts(c) \/ UnlinkCounts(c)
       PROVE  Callings'
  <2>1. /\ glock' = glock /\ (job' = job \/ job' = [job EXCEPT ![c] = NoJob])
        /\ \E to \in {"unlink", "idle"} : pc' = [pc EXCEPT ![c] = to]
    BY <1>12 DEF PopCounts, UnlinkCounts, Goes, Returns
  <2>. QED
    BY <1>4, <2>1, Moves
<1>13. ASSUME NEW c \in Callers, Gc(c)
       PROVE  Callings'
  <2>1. pc' = [pc EXCEPT ![c] = "stampGc"] /\ job' = job /\ TakesLock(c)
    BY <1>13 DEF Gc
  <2>. QED
    BY <1>4, <2>1, Moves
<1>14. ASSUME NEW c \in Callers, StampGc(c)
       PROVE  Callings'
  <2>1. pc[c] \in Locked /\ pc' = [pc EXCEPT ![c] = "idle"] /\ job' = job /\ Unlocks(c)
    BY <1>14 DEF StampGc, Goes
  <2>. QED
    BY <1>4, <2>1, Moves
<1>15. ASSUME NEW c \in Callers, Clear(c)
       PROVE  Callings'
  BY <1>15, StaysPut DEF Clear
<1>16. ASSUME NEW c \in Callers, LoadCounts(c) \/ LoadDisk(c)
       PROVE  Callings'
  <2>1. glock' = glock
    BY <1>16 DEF LoadCounts, LoadDisk
  <2>2. CASE UNCHANGED <<pc, job>>
    BY <2>1, <2>2, StaysPut
  <2>3. CASE pc' = [pc EXCEPT ![c] = "onDisk"] /\ job' = [job EXCEPT ![c] = [NoJob EXCEPT !.sig = Signature]]
    <3>1. [NoJob EXCEPT !.sig = Signature] \in Jobs
      BY <1>3, ScanIsJob DEF Signature
    <3>. QED
      BY <2>1, <2>3, <3>1, Moves
  <2>4. CASE Returns(c)
    BY <1>4, <2>1, <2>4, Moves DEF Returns
  <2>5. CASE pc' = [pc EXCEPT ![c] = "links"] /\ Scan(c, job[c].sig)
    <3>1. job[c].sig \in Sigs
      BY DEF Callings, Jobs
    <3>2. PICK j \in Jobs : job' = [job EXCEPT ![c] = j]
      BY <2>5, <3>1, ScanIsJob DEF Scan
    <3>. QED
      BY <2>1, <2>5, <3>2, Moves
  <2>. QED
    BY <1>16, <2>2, <2>3, <2>4, <2>5 DEF LoadCounts, LoadDisk
<1>17. ASSUME NEW c \in Callers, SaveDisk(c) \/ KeepCounts(c)
       PROVE  Callings'
  <2>1. /\ glock' = glock /\ (job' = job \/ job' = [job EXCEPT ![c] = NoJob])
        /\ \E to \in {"keep", "idle"} : pc' = [pc EXCEPT ![c] = to]
    BY <1>17 DEF SaveDisk, KeepCounts, Returns
  <2>. QED
    BY <1>4, <2>1, Moves
<1>. QED
  BY <1>1, <1>2, <1>6, <1>7, <1>8, <1>9, <1>10, <1>11, <1>12, <1>13, <1>14, <1>15, <1>16, <1>17 DEF Next

-----------------------------------------------------------------------------
(* The counts *)

\* What was taken, or shown, stays so while pages change.
LEMMA ChangeKeepsTaken ==
    ASSUME NEW sig, Graph, Changes, Taken(sig)
    PROVE  Taken(sig)'
<1>1. PICK p \in Pages, t \in Texts \cup {NoPage} : Change(p, t)
  BY DEF Changes
<1>2. /\ edits' = edits + 1 /\ content'[p] = t /\ edits \in Nat
      /\ \A q \in Pages \ {p} : content'[q] = content[q]
      /\ created' = IF content[p] = NoPage THEN created \cup {p} ELSE created
  BY <1>1, ChangeKeepsGraph DEF Graph
<1>3. ASSUME NEW q \in Pages
      PROVE  sig[q] <= edits' + 1
  BY <1>2 DEF Taken, Sigs
<1>4. ASSUME NEW q \in Pages, sig[q] = 0, q \notin created'
      PROVE  content'[q] = NoPage
  BY <1>2, <1>4 DEF Taken
<1>. QED
  BY <1>3, <1>4 DEF Taken

LEMMA ChangeKeepsShows ==
    ASSUME NEW sig, NEW shot, NEW todo, Graph, Changes, Taken(sig), Shows(sig, shot, todo)
    PROVE  Shows(sig, shot, todo)'
<1>1. PICK p \in Pages, t \in Texts \cup {NoPage} : Change(p, t)
  BY DEF Changes
<1>2. /\ edits' = edits + 1 /\ content'[p] = t /\ t # content[p] /\ edits \in Nat
      /\ mtime'[p] = (IF t = NoPage THEN 0 ELSE edits + 2)
      /\ \A q \in Pages \ {p} : content'[q] = content[q] /\ mtime'[q] = mtime[q]
      /\ created' = IF content[p] = NoPage THEN created \cup {p} ELSE created
  BY <1>1, ChangeKeepsGraph DEF Graph
<1>3. ASSUME NEW q \in Pages, sig[q] = mtime'[q], mtime'[q] = 0 => q \notin created'
      PROVE  q \in todo \/ shot[q] = content'[q]
  <2>1. CASE q = p
    <3>1. sig[p] <= edits + 1 /\ sig[p] \in Nat
      BY DEF Taken, Sigs
    <3>2. t = NoPage
      BY <1>2, <1>3, <2>1, <3>1
    <3>3. content[p] = NoPage
      BY <1>2, <1>3, <2>1, <3>2 DEF Taken
    <3>. QED
      BY <1>2, <3>2, <3>3
  <2>2. CASE q # p
    BY <1>2, <1>3, <2>2 DEF Shows
  <2>. QED
    BY <2>1, <2>2
<1>. QED
  BY <1>3 DEF Shows

LEMMA SameGraphKeeps ==
    ASSUME NEW sig, NEW shot, NEW todo, UNCHANGED graph
    PROVE  (Taken(sig) => Taken(sig)') /\ (Shows(sig, shot, todo) => Shows(sig, shot, todo)')
  BY DEF graph, Taken, Shows

\* A signature taken now, and a scan that begins now.
LEMMA SignatureIsTaken ==
    ASSUME Graph
    PROVE  Taken(mtime)
  BY DEF Graph, Taken

LEMMA ScanShows ==
    ASSUME NEW sig, Graph, Taken(sig)
    PROVE  Shows(sig, NoShot, Live(content))
<1>1. ASSUME NEW p \in Pages, sig[p] = mtime[p], mtime[p] = 0 => p \notin created
      PROVE  p \in Live(content) \/ NoShot[p] = content[p]
  BY DEF Live, NoShot
<1>. QED
  BY <1>1 DEF Shows

\* The other callers' counts are as they were.
LEMMA OthersCount ==
    ASSUME NEW c \in Callers, Graph, Tallies, [Next]_vars, Counts(c)',
           \A d \in Callers \ {c} : pc'[d] = pc[d] /\ job'[d] = job[d]
    PROVE  \A d \in Callers : Counts(d)'
<1>1. UNCHANGED graph \/ Changes
  BY GraphStep
<1>2. ASSUME NEW sig, Taken(sig)
      PROVE  Taken(sig)'
  BY <1>1, <1>2, ChangeKeepsTaken, SameGraphKeeps
<1>3. ASSUME NEW sig, NEW shot, NEW todo, Taken(sig), Shows(sig, shot, todo)
      PROVE  Shows(sig, shot, todo)'
  BY <1>1, <1>3, ChangeKeepsShows, SameGraphKeeps
<1>4. ASSUME NEW d \in Callers \ {c}
      PROVE  Counts(d)'
  <2>1. pc'[d] = pc[d] /\ job'[d] = job[d] /\ Counts(d)
    BY DEF Tallies
  <2>. DEFINE sig == job[d].sig
              shot == job[d].shot
              todo == job[d].todo
  <2>2. ASSUME NEW g, g = sig, pc[d] \in {"onDisk", "links", "keep"}
        PROVE  Taken(g)'
    BY <1>2, <2>1, <2>2 DEF Counts
  <2>3. ASSUME NEW g, NEW s, NEW t, g = sig, s = shot, t = todo, pc[d] = "links"
        PROVE  Shows(g, s, t)'
    BY <1>3, <2>1, <2>3 DEF Counts
  <2>4. ASSUME NEW g, NEW s, g = sig, s = shot, pc[d] = "keep"
        PROVE  Shows(g, s, {})'
    BY <1>3, <2>1, <2>4 DEF Counts
  <2>. QED
    BY <2>1, <2>2, <2>3, <2>4 DEF Counts
<1>. QED
  BY <1>4

LEMMA TalliesStep == Graph /\ Callings /\ Tallies /\ [Next]_vars => Tallies'
<1>. SUFFICES ASSUME Graph, Callings, Tallies, [Next]_vars PROVE Tallies'
  OBVIOUS
<1>1. UNCHANGED graph \/ Changes
  BY GraphStep
<1>2. ASSUME NEW sig, Taken(sig)
      PROVE  Taken(sig)'
  BY <1>1, <1>2, ChangeKeepsTaken, SameGraphKeeps
<1>3. ASSUME NEW sig, NEW shot, NEW todo, Taken(sig), Shows(sig, shot, todo)
      PROVE  Shows(sig, shot, todo)'
  BY <1>1, <1>3, ChangeKeepsShows, SameGraphKeeps
<1>4. ASSUME NEW e, Counted(e)
      PROVE  Counted(e)'
  BY <1>2, <1>3, <1>4 DEF Counted
<1>5. ASSUME NEW e, e = None \/ Counted(e)
      PROVE  Counted(e)'
  BY <1>4, <1>5 DEF Counted
<1>6. ASSUME DOMAIN memory' = Procs,
             \A x \in Procs : memory'[x] = None \/ Counted(memory'[x]),
             disk' = None \/ Counted(disk')
      PROVE  /\ DOMAIN memory' = Procs /\ \A x \in Procs : Counted(memory[x])'
             /\ Counted(disk)'
  <2>1. ASSUME NEW x \in Procs
        PROVE  Counted(memory[x])'
    <3>1. \A e : e = memory'[x] => Counted(e)'
      BY <1>5, <1>6
    <3>. QED
      BY <3>1 DEF Counted
  <2>2. \A e : e = disk' => Counted(e)'
    BY <1>5, <1>6
  <2>3. Counted(disk)'
    BY <2>2 DEF Counted
  <2>. QED
    BY <1>6, <2>1, <2>3
<1>7. CASE UNCHANGED <<memory, disk, pc, job>>
  <2>1. \A c \in Callers : Counts(c)'
    <3>1. ASSUME NEW c \in Callers
          PROVE  Counts(c)'
      <4>1. Counts(c) /\ pc'[c] = pc[c] /\ job'[c] = job[c]
        BY <1>7 DEF Tallies
      <4>2. ASSUME NEW g, g = job[c].sig, pc[c] \in {"onDisk", "links", "keep"}
            PROVE  Taken(g)'
        BY <1>2, <4>1, <4>2 DEF Counts
      <4>3. ASSUME NEW g, NEW s, NEW t, g = job[c].sig, s = job[c].shot, t = job[c].todo,
                   pc[c] = "links"
            PROVE  Shows(g, s, t)'
        BY <1>3, <4>1, <4>3 DEF Counts
      <4>4. ASSUME NEW g, NEW s, g = job[c].sig, s = job[c].shot, pc[c] = "keep"
            PROVE  Shows(g, s, {})'
        BY <1>3, <4>1, <4>4 DEF Counts
      <4>. QED
        BY <4>1, <4>2, <4>3, <4>4 DEF Counts
    <3>. QED
      BY <3>1
  <2>. QED
    BY <1>6, <1>7, <2>1 DEF Tallies
\* A caller at work on something else.
<1>8. ASSUME NEW c \in Callers, UNCHANGED <<memory, disk>>,
             pc'[c] \notin {"onDisk", "links", "keep"},
             \A d \in Callers \ {c} : pc'[d] = pc[d] /\ job'[d] = job[d]
      PROVE  Tallies'
  <2>1. Counts(c)'
    BY <1>8 DEF Counts
  <2>. QED
    BY <1>6, <1>8, <2>1, OthersCount DEF Tallies
\* What has been counted from the job's shot.
<1>9. ASSUME NEW c \in Callers, Taken(job[c].sig), Shows(job[c].sig, job[c].shot, {})
      PROVE  Counted([sig |-> job[c].sig, counts |-> compute_incoming_full(job[c].shot)])
  <2>1. job[c].shot \in Shots
    BY DEF Callings, Jobs
  <2>. QED
    BY <1>9, <2>1 DEF Counted
<1>10. ASSUME NEW c \in Callers, ReadPage(c)
       PROVE  Tallies'
  <2>1. PICK p \in Pages, j \in Jobs :
            /\ job' = [job EXCEPT ![c] = j] /\ p \in job[c].todo
            /\ j.sig = job[c].sig /\ j.page = job[c].page
            /\ j.todo = job[c].todo \ {p}
            /\ j.shot = [job[c].shot EXCEPT ![p] = content[p]]
    BY <1>10, ReadingIsJob
  <2>2. /\ pc' = pc /\ pc[c] \in Scans /\ job'[c] = j /\ UNCHANGED <<memory, disk, graph>>
        /\ \A d \in Callers \ {c} : pc'[d] = pc[d] /\ job'[d] = job[d]
    BY <1>10, <2>1 DEF ReadPage, Callings, caches
  <2>3. Counts(c) /\ Counts(c)' = Counts(c)'
    BY DEF Tallies
  <2>4. CASE pc[c] # "links"
    BY <1>8, <2>2, <2>4 DEF Scans
  <2>5. CASE pc[c] = "links"
    <3>1. Taken(job[c].sig) /\ Shows(job[c].sig, job[c].shot, job[c].todo)
      BY <2>3, <2>5 DEF Counts
    <3>2. DOMAIN job[c].shot = Pages
      BY DEF Callings, Jobs, Shots
    <3>3. Shows(j.sig, j.shot, j.todo)
      BY <2>1, <3>1, <3>2 DEF Shows
    <3>4. Taken(j.sig)
      BY <2>1, <3>1
    <3>5. Counts(c)'
      <4>1. Taken(j.sig)' /\ Shows(j.sig, j.shot, j.todo)'
        BY <1>2, <1>3, <3>3, <3>4
      <4>. QED
        BY <2>2, <2>5, <4>1 DEF Counts
    <3>. QED
      BY <1>6, <2>2, <3>5, OthersCount DEF Tallies
  <2>. QED
    BY <2>4, <2>5
<1>11. ASSUME NEW c \in Callers, LoadCounts(c)
       PROVE  Tallies'
  <2>1. CASE UNCHANGED <<pc, job>>
    BY <1>7, <1>11, <2>1 DEF LoadCounts, caches
  <2>2. CASE /\ pc' = [pc EXCEPT ![c] = "onDisk"]
             /\ job' = [job EXCEPT ![c] = [NoJob EXCEPT !.sig = Signature]]
    <3>. DEFINE m == mtime
    <3>1. Taken(m) /\ m \in Sigs
      BY SignatureIsTaken DEF Graph
    <3>2. \A g : g = m => Taken(g)'
      BY <1>2, <3>1
    <3>3. job'[c].sig = m /\ pc'[c] = "onDisk"
      BY <2>2, <3>1, ScanIsJob DEF Callings, Signature
    <3>4. Counts(c)'
      BY <3>2, <3>3 DEF Counts
    <3>5. \A d \in Callers \ {c} : pc'[d] = pc[d] /\ job'[d] = job[d]
      BY <2>2 DEF Callings
    <3>6. UNCHANGED <<memory, disk>>
      BY <1>11 DEF LoadCounts, caches
    <3>. QED
      BY <1>6, <3>4, <3>5, <3>6, OthersCount DEF Tallies
  <2>. QED
    BY <1>11, <2>1, <2>2 DEF LoadCounts
<1>12. ASSUME NEW c \in Callers, LoadDisk(c)
       PROVE  Tallies'
  <2>1. Taken(job[c].sig) /\ job[c].sig \in Sigs /\ disk' = disk
    BY <1>12 DEF LoadDisk, Tallies, Counts, Callings, Jobs
  <2>2. CASE memory' = [memory EXCEPT ![Home[c]] = disk] /\ Returns(c)
    <3>1. pc'[c] = "idle" /\ \A d \in Callers \ {c} : pc'[d] = pc[d] /\ job'[d] = job[d]
      BY <2>2 DEF Returns, Callings
    <3>2. Counts(c)'
      BY <3>1 DEF Counts
    <3>3. DOMAIN memory' = Procs /\ \A x \in Procs : memory'[x] = disk \/ memory'[x] = memory[x]
      BY <2>2 DEF Tallies
    <3>. QED
      BY <1>6, <2>1, <3>1, <3>2, <3>3, OthersCount DEF Tallies
  <2>3. CASE pc' = [pc EXCEPT ![c] = "links"] /\ Scan(c, job[c].sig) /\ memory' = memory
    <3>1. /\ pc'[c] = "links" /\ job'[c].sig = job[c].sig /\ job'[c].shot = NoShot
          /\ job'[c].todo = Live(content)
          /\ \A d \in Callers \ {c} : pc'[d] = pc[d] /\ job'[d] = job[d]
      BY <2>1, <2>3, ScanIsJob DEF Scan, Callings
    <3>2. Shows(job[c].sig, NoShot, Live(content))
      BY <2>1, ScanShows
    <3>3. ASSUME NEW g, NEW t, g = job[c].sig, t = Live(content)
          PROVE  Taken(g)' /\ Shows(g, NoShot, t)'
      BY <1>2, <1>3, <2>1, <3>2, <3>3
    <3>4. Counts(c)'
      BY <3>1, <3>3 DEF Counts
    <3>. QED
      BY <1>6, <2>1, <2>3, <3>1, <3>4, OthersCount DEF Tallies
  <2>. QED
    BY <1>12, <2>2, <2>3 DEF LoadDisk
<1>13. ASSUME NEW c \in Callers, SaveDisk(c)
       PROVE  Tallies'
  <2>1. /\ pc[c] = "links" /\ job[c].todo = {} /\ pc'[c] = "keep" /\ job' = job
        /\ disk' = [sig |-> job[c].sig, counts |-> compute_incoming_full(job[c].shot)]
        /\ memory' = memory /\ \A d \in Callers \ {c} : pc'[d] = pc[d] /\ job'[d] = job[d]
    BY <1>13 DEF SaveDisk, Scanned, Callings
  <2>2. Taken(job[c].sig) /\ Shows(job[c].sig, job[c].shot, {})
    BY <2>1 DEF Tallies, Counts
  <2>3. Counted(disk')
    BY <1>9, <2>1, <2>2
  <2>4. ASSUME NEW g, NEW s, g = job[c].sig, s = job[c].shot
        PROVE  Taken(g)' /\ Shows(g, s, {})'
    BY <1>2, <1>3, <2>2, <2>4
  <2>5. Counts(c)'
    BY <2>1, <2>4 DEF Counts
  <2>. QED
    BY <1>6, <2>1, <2>3, <2>5, OthersCount DEF Tallies
<1>14. ASSUME NEW c \in Callers, KeepCounts(c)
       PROVE  Tallies'
  <2>. DEFINE e == [sig |-> job[c].sig, counts |-> compute_incoming_full(job[c].shot)]
  <2>1. /\ pc[c] = "keep" /\ pc'[c] = "idle" /\ disk' = disk
        /\ memory' = [memory EXCEPT ![Home[c]] = e]
        /\ \A d \in Callers \ {c} : pc'[d] = pc[d] /\ job'[d] = job[d]
    BY <1>14 DEF KeepCounts, Returns, Callings
  <2>2. Taken(job[c].sig) /\ Shows(job[c].sig, job[c].shot, {})
    BY <2>1 DEF Tallies, Counts
  <2>3. Counted(e)
    BY <1>9, <2>2
  <2>. HIDE DEF e
  <2>4. DOMAIN memory' = Procs /\ \A x \in Procs : memory'[x] = e \/ memory'[x] = memory[x]
    BY <2>1 DEF Tallies
  <2>5. Counts(c)'
    BY <2>1 DEF Counts
  <2>. QED
    BY <1>6, <2>1, <2>3, <2>4, <2>5, OthersCount DEF Tallies
<1>15. ASSUME NEW c \in Callers, PopCounts(c) \/ UnlinkCounts(c)
       PROVE  Tallies'
  <2>1. /\ pc'[c] \in {"unlink", "idle"} /\ DOMAIN memory' = Procs
        /\ \A x \in Procs : memory'[x] = None \/ memory'[x] = memory[x]
        /\ disk' = None \/ disk' = disk
        /\ \A d \in Callers \ {c} : pc'[d] = pc[d] /\ job'[d] = job[d]
    BY <1>15 DEF PopCounts, UnlinkCounts, Goes, Returns, Callings, Tallies
  <2>2. Counts(c)'
    BY <2>1 DEF Counts
  <2>. QED
    BY <1>6, <2>1, <2>2, OthersCount DEF Tallies
<1>16. ASSUME NEW c \in Callers, BuildAlias(c) \/ BuildBm25(c)
       PROVE  Tallies'
  <2>1. CASE UNCHANGED <<pc, job>>
    BY <1>7, <1>16, <2>1 DEF BuildAlias, BuildBm25, caches
  <2>2. CASE Scan(c, Signature) /\ \E to \in {"alias", "bm25"} : pc' = [pc EXCEPT ![c] = to]
    <3>1. /\ pc'[c] \in {"alias", "bm25"}
          /\ \A d \in Callers \ {c} : pc'[d] = pc[d] /\ job'[d] = job[d]
      BY <2>2 DEF Scan, Callings
    <3>. QED
      BY <1>8, <1>16, <3>1 DEF BuildAlias, BuildBm25, caches
  <2>. QED
    BY <1>16, <2>1, <2>2 DEF BuildAlias, BuildBm25
<1>17. ASSUME NEW c \in Callers, AliasBuilt(c) \/ Bm25Built(c)
       PROVE  Tallies'
  <2>1. pc'[c] = "idle" /\ \A d \in Callers \ {c} : pc'[d] = pc[d] /\ job'[d] = job[d]
    BY <1>17 DEF AliasBuilt, Bm25Built, Returns, Callings
  <2>. QED
    BY <1>8, <1>17, <2>1 DEF AliasBuilt, Bm25Built
<1>18. ASSUME NEW c \in Callers, NEW p \in Pages, WritePage(c, p)
       PROVE  Tallies'
  <2>1. pc'[c] = "patchAlias" /\ \A d \in Callers \ {c} : pc'[d] = pc[d] /\ job'[d] = job[d]
    BY <1>18 DEF WritePage, Callings
  <2>. QED
    BY <1>8, <1>18, <2>1 DEF WritePage, caches
<1>19. ASSUME NEW c \in Callers,
              PatchAlias(c) \/ StampAlias(c) \/ PatchBm25(c) \/ StampBm25(c) \/ Gc(c) \/ StampGc(c)
       PROVE  Tallies'
  <2>1. /\ pc'[c] \in {"patchBm25", "stampAlias", "stampBm25", "pop", "stampGc", "idle"}
        /\ \A d \in Callers \ {c} : pc'[d] = pc[d] /\ job'[d] = job[d]
    BY <1>19 DEF PatchAlias, StampAlias, PatchBm25, StampBm25, Gc, StampGc, Goes, Callings
  <2>. QED
    BY <1>8, <1>19, <2>1 DEF PatchAlias, StampAlias, PatchBm25, StampBm25, Gc, StampGc
<1>20. ASSUME NEW c \in Callers, Clear(c)
       PROVE  Tallies'
  BY <1>7, <1>20 DEF Clear
<1>21. ASSUME NEW p \in Pages, Edit(p)
       PROVE  Tallies'
  BY <1>7, <1>21 DEF Edit, caches
<1>22. CASE UNCHANGED vars
  BY <1>7, <1>22 DEF vars, caches
<1>. QED
  BY <1>10, <1>11, <1>12, <1>13, <1>14, <1>15, <1>16, <1>17, <1>18, <1>19, <1>20, <1>21, <1>22 DEF Next

LEMMA InitKeepsGraph == Init => Graph /\ Callings /\ Tallies
<1>. SUFFICES ASSUME Init PROVE Graph /\ Callings /\ Tallies
  OBVIOUS
<1>1. content \in Shots
  BY IndexAssumption DEF Init, IndexAssumption, Shots
<1>2. mtime \in Sigs /\ \A p \in Pages : mtime[p] = IF content[p] = NoPage THEN 0 ELSE 1
  BY DEF Init, Sigs
<1>3. claimed \in [Pages -> SUBSET Titles] /\ \A p \in Pages : claimed[p] = AliasesIn(content[p])
  <2>1. claimed = [p \in Pages |-> AliasesIn(content[p])]
    BY DEF Init
  <2>2. \A p \in Pages : AliasesIn(content[p]) \in SUBSET Titles
    BY <1>1, TextParts DEF Shots
  <2>. QED
    BY <2>1, <2>2
<1>4. edits = 0
  BY DEF Init
<1>5. Graph
  BY <1>1, <1>2, <1>3, <1>4 DEF Graph
<1>6. Callings
  BY NoJobIsJob DEF Init, Callings, Steps, Locked
<1>7. DOMAIN memory = Procs /\ disk = None /\ \A x \in Procs : memory[x] = None
  BY DEF Init
<1>8. \A c \in Callers : pc[c] = "idle"
  BY DEF Init
<1>9. Tallies
  BY <1>7, <1>8 DEF Tallies, Counted, Counts
<1>. QED
  BY <1>5, <1>6, <1>9

LEMMA TalliesHold == Spec => [](Graph /\ Callings /\ Tallies)
<1>1. Graph /\ Callings /\ Tallies /\ [Next]_vars => (Graph /\ Callings /\ Tallies)'
  BY GraphStep, CallingsStep, TalliesStep
<1>. QED
  BY <1>1, InitKeepsGraph, PTL DEF Spec

\* Counts that carry the mtimes of the pages were counted from a shot that
\* shows all of them.
LEMMA TalliesAreFresh == Graph /\ Tallies => BacklinkHitsAreFresh
<1>. SUFFICES ASSUME Graph, Tallies, created \subseteq Live(content),
                     NEW e \in {memory[x] : x \in Procs} \cup {disk}, e # None, e.sig = mtime
              PROVE  e.counts = compute_incoming_full(content)
  BY DEF BacklinkHitsAreFresh, Signature
<1>1. Counted(e)
  BY DEF Tallies
<1>2. PICK shot \in Shots : e.counts = compute_incoming_full(shot) /\ Shows(e.sig, shot, {})
  BY <1>1 DEF Counted
<1>3. ASSUME NEW p \in Pages
      PROVE  shot[p] = content[p]
  <2>1. mtime[p] = 0 => p \notin created
    BY DEF Graph, Live
  <2>. QED
    BY <1>2, <2>1 DEF Shows
<1>4. shot = content
  BY <1>3 DEF Graph, Shots
<1>. QED
  BY <1>2, <1>4

\* load_incoming_backlinks: counts of links that carry the mtimes of the pages
\* are the counts of their links, whatever threads and processes scan, save
\* and drop while pages change.
THEOREM BacklinkCountsAreFresh == Spec => []BacklinkHitsAreFresh
  BY TalliesHold, TalliesAreFresh, PTL

-----------------------------------------------------------------------------
(* The corpus *)

LEMMA RemoveAtIsShorter ==
    ASSUME NEW S, NEW s \in Seq(S), NEW i \in DOMAIN s
    PROVE  /\ RemoveAt(s, i) \in Seq(S) /\ Len(RemoveAt(s, i)) = Len(s) - 1
           /\ \A j \in 1..Len(s) - 1 : RemoveAt(s, i)[j] = IF j < i THEN s[j] ELSE s[j + 1]
<1>. DEFINE l == SubSeq(s, 1, i - 1)
            r == SubSeq(s, i + 1, Len(s))
<1>0. Len(s) \in Nat /\ i \in 1..Len(s)
  OBVIOUS
<1>1. l \in Seq(S) /\ Len(l) = i - 1 /\ \A j \in 1..i - 1 : l[j] = s[j]
  BY <1>0
<1>2. r \in Seq(S) /\ Len(r) = Len(s) - i /\ \A j \in 1..Len(s) - i : r[j] = s[i + j]
  BY <1>0
<1>3. RemoveAt(s, i) = l \o r
  BY DEF RemoveAt
<1>. HIDE DEF l, r
<1>4. l \o r \in Seq(S) /\ Len(l \o r) = Len(s) - 1
  BY <1>0, <1>1, <1>2
<1>5. ASSUME NEW j \in 1..Len(s) - 1
      PROVE  (l \o r)[j] = IF j < i THEN s[j] ELSE s[j + 1]
  <2>1. CASE j < i
    BY <1>0, <1>1, <1>2, <2>1
  <2>2. CASE ~(j < i)
    <3>1. (l \o r)[j] = r[j - Len(l)]
      <4>1. j \in 1..Len(l) + Len(r) /\ ~(j <= Len(l))
        BY <1>0, <1>1, <1>2, <2>2
      <4>. QED
        BY <1>1, <1>2, <4>1, ConcatProperties
    <3>2. j - Len(l) \in 1..Len(s) - i /\ i + (j - Len(l)) = j + 1
      BY <1>0, <1>1, <2>2
    <3>. QED
      BY <1>2, <2>2, <3>1, <3>2
  <2>. QED
    BY <2>1, <2>2
<1>. QED
  BY <1>3, <1>4, <1>5

LEMMA HoldingIsFinite ==
    ASSUME NEW docs \in Seq(Docs), NEW w
    PROVE  IsFiniteSet(Holding(docs, w)) /\ Cardinality(Holding(docs, w)) \in Nat
<1>1. 1 \in Int /\ Len(docs) \in Int
  OBVIOUS
<1>2. IsFiniteSet(1..Len(docs))
  BY <1>1, FS_Interval, Zenon
<1>3. Holding(docs, w) \in SUBSET (1..Len(docs))
  BY DEF Holding
<1>. HIDE DEF Holding
<1>. QED
  BY <1>2, <1>3, FS_Subset, FS_CardinalityType

\* Whatever is one to one and onto has as many.
LEMMA AsMany ==
    ASSUME NEW S, NEW T, IsFiniteSet(S), NEW f \in [S -> T],
           \A a, b \in S : f[a] = f[b] => a = b,
           \A t \in T : \E a \in S : f[a] = t
    PROVE  Cardinality(T) = Cardinality(S)
<1>1. f \in Bijection(S, T)
  BY DEF Bijection, Injection, Surjection, IsInjective
<1>2. ExistsBijection(S, T)
  BY <1>1 DEF ExistsBijection
<1>. QED
  BY <1>2, FS_Bijection

\* A document that is removed takes one from the count of each of its words.
LEMMA RemovingCounts ==
    ASSUME NEW docs \in Seq(Docs), NEW i \in DOMAIN docs, NEW w
    PROVE  Cardinality(Holding(RemoveAt(docs, i), w)) =
                Cardinality(Holding(docs, w)) - (IF w \in docs[i].words THEN 1 ELSE 0)
<1>. DEFINE rest == RemoveAt(docs, i)
            n == Len(docs)
            H == Holding(docs, w)
            R == Holding(rest, w)
            f == [j \in R |-> IF j < i THEN j ELSE j + 1]
<1>1. n \in Nat /\ i \in 1..n /\ DOMAIN docs = 1..n
  OBVIOUS
<1>2. /\ rest \in Seq(Docs) /\ Len(rest) = n - 1
      /\ \A j \in 1..n - 1 : rest[j] = IF j < i THEN docs[j] ELSE docs[j + 1]
  BY RemoveAtIsShorter
<1>. HIDE DEF rest
<1>3. DOMAIN rest = 1..n - 1
  BY <1>1, <1>2
<1>. HIDE DEF n
<1>4. IsFiniteSet(R) /\ IsFiniteSet(H) /\ Cardinality(H) \in Nat
  BY <1>2, HoldingIsFinite
<1>5. \A j : j \in H <=> j \in 1..n /\ w \in docs[j].words
  BY <1>1 DEF Holding
<1>6. \A j : j \in R <=> j \in 1..n - 1 /\ w \in rest[j].words
  BY <1>3 DEF Holding
<1>. HIDE DEF H, R
<1>7. ASSUME NEW j \in R
      PROVE  f[j] \in H \ {i}
  BY <1>1, <1>2, <1>5, <1>6
<1>8. ASSUME NEW a \in R, NEW b \in R, f[a] = f[b]
      PROVE  a = b
  <2>1. a \in Nat /\ b \in Nat
    BY <1>6
  <2>. QED
    BY <1>1, <1>8, <2>1
<1>9. ASSUME NEW j \in H \ {i}
      PROVE  \E a \in R : f[a] = j
  <2>1. CASE j < i
    <3>1. j \in R /\ f[j] = j
      BY <1>1, <1>2, <1>5, <1>6, <2>1
    <3>. QED
      BY <3>1
  <2>2. CASE ~(j < i)
    <3>1. j - 1 \in 1..n - 1 /\ ~(j - 1 < i) /\ j - 1 + 1 = j
      BY <1>1, <1>5, <2>2
    <3>2. j - 1 \in R
      BY <1>2, <1>5, <1>6, <3>1
    <3>3. f[j - 1] = j
      BY <3>1, <3>2
    <3>. QED
      BY <3>2, <3>3
  <2>. QED
    BY <2>1, <2>2
<1>10. f \in [R -> H \ {i}]
  BY <1>7
<1>. HIDE DEF f
<1>11. Cardinality(H \ {i}) = Cardinality(R)
  BY <1>4, <1>8, <1>9, <1>10, AsMany
<1>12. Cardinality(H \ {i}) = IF i \in H THEN Cardinality(H) - 1 ELSE Cardinality(H)
  BY <1>4, FS_RemoveElement
<1>13. i \in H <=> w \in docs[i].words
  BY <1>1, <1>5
<1>14. Cardinality(R) = Cardinality(H) - (IF w \in docs[i].words THEN 1 ELSE 0)
  BY <1>4, <1>11, <1>12, <1>13
<1>. QED
  BY <1>14 DEF R, H, rest

\* One that is appended adds one to it.
LEMMA AppendingCounts ==
    ASSUME NEW docs \in Seq(Docs), NEW d \in Docs, NEW w
    PROVE  Cardinality(Holding(Append(docs, d), w)) =
                Cardinality(Holding(docs, w)) + (IF w \in d.words THEN 1 ELSE 0)
<1>. DEFINE n == Len(docs)
            H == Holding(docs, w)
            more == Append(docs, d)
            A == Holding(more, w)
<1>1. n \in Nat /\ DOMAIN docs = 1..n
  OBVIOUS
<1>2. /\ more \in Seq(Docs) /\ Len(more) = n + 1 /\ more[n + 1] = d
      /\ \A i \in 1..n : more[i] = docs[i]
  BY AppendProperties
<1>. HIDE DEF more
<1>3. DOMAIN more = 1..n + 1
  BY <1>1, <1>2
<1>. HIDE DEF n
<1>4. IsFiniteSet(H) /\ Cardinality(H) \in Nat
  BY HoldingIsFinite
<1>5. \A j : j \in H <=> j \in 1..n /\ w \in docs[j].words
  BY <1>1 DEF Holding
<1>6. \A j : j \in A <=> j \in 1..n + 1 /\ w \in more[j].words
  BY <1>3 DEF Holding
<1>. HIDE DEF H, A
<1>7. n + 1 \notin H
  BY <1>1, <1>5
<1>8. A = IF w \in d.words THEN H \cup {n + 1} ELSE H
  <2>1. \A j : j \in 1..n + 1 <=> j \in 1..n \/ j = n + 1
    BY <1>1
  <2>2. \A j : j \in A <=> j \in H \/ (j = n + 1 /\ w \in d.words)
    BY <1>2, <1>5, <1>6, <1>7, <2>1
  <2>. QED
    BY <2>2
<1>9. Cardinality(H \cup {n + 1}) = Cardinality(H) + 1
  BY <1>4, <1>7, FS_AddElement
<1>10. Cardinality(A) = Cardinality(H) + (IF w \in d.words THEN 1 ELSE 0)
  BY <1>4, <1>8, <1>9
<1>. QED
  BY <1>10 DEF A, H, more

\* _remove_bm25_doc: the document of the page goes, and what it counted.
LEMMA RemovingKeepsCorpus ==
    ASSUME NEW corpus, Corpus(corpus), NEW p \in Pages
    PROVE  LET rest == _remove_bm25_doc(corpus, p)
           IN Corpus(rest) /\ \A i \in DOMAIN rest.docs : rest.docs[i].page # p
<1>. DEFINE docs == corpus.docs
            found == {i \in DOMAIN docs : docs[i].page = p}
            i == CHOOSE j \in found : \A k \in found : j <= k
            rest == _remove_bm25_doc(corpus, p)
<1>1. /\ docs \in Seq(Docs) /\ corpus.df \in [Words -> Nat]
      /\ corpus.n = Len(docs) /\ Len(docs) \in Nat /\ DOMAIN docs = 1..Len(docs)
      /\ \A a, b \in DOMAIN docs : docs[a].page = docs[b].page => a = b
      /\ \A w \in Words : corpus.df[w] = Cardinality(Holding(docs, w))
  BY DEF Corpus
<1>2. rest = IF found = {} THEN corpus
             ELSE [docs |-> RemoveAt(docs, i),
                   df |-> [w \in Words |-> IF w \in docs[i].words /\ corpus.df[w] > 0
                                           THEN corpus.df[w] - 1 ELSE corpus.df[w]],
                   n |-> corpus.n - 1]
  BY DEF _remove_bm25_doc
<1>. HIDE DEF rest, docs
<1>3. CASE found = {}
  <2>1. rest = corpus /\ \A j \in DOMAIN docs : docs[j].page # p
    BY <1>2, <1>3
  <2>. QED
    BY <2>1 DEF rest, docs
<1>4. CASE found # {}
  <2>1. PICK k \in found : TRUE
    BY <1>4
  <2>2. \A j \in found : j = k /\ k <= j
    BY <1>1, <2>1
  <2>3. i = k
    BY <2>1, <2>2
  <2>4. i \in DOMAIN docs /\ docs[i].page = p /\ \A j \in DOMAIN docs : docs[j].page = p => j = i
    BY <2>1, <2>2, <2>3
  <2>. DEFINE cut == RemoveAt(docs, i)
              df == [w \in Words |-> IF w \in docs[i].words /\ corpus.df[w] > 0
                                     THEN corpus.df[w] - 1 ELSE corpus.df[w]]
  <2>5. rest = [docs |-> cut, df |-> df, n |-> corpus.n - 1]
    BY <1>2, <1>4
  <2>. HIDE DEF i, found
  <2>6. /\ cut \in Seq(Docs) /\ Len(cut) = Len(docs) - 1
        /\ \A j \in 1..Len(docs) - 1 : cut[j] = IF j < i THEN docs[j] ELSE docs[j + 1]
    BY <1>1, <2>4, RemoveAtIsShorter
  <2>7. DOMAIN cut = 1..Len(docs) - 1 /\ Len(docs) - 1 \in Nat
    <3>1. DOMAIN cut = 1..Len(cut)
      BY <2>6
    <3>2. Len(docs) - 1 \in Nat
      BY <1>1, <2>4
    <3>. QED
      BY <2>6, <3>1, <3>2
  <2>8. ASSUME NEW w \in Words
        PROVE  df[w] = Cardinality(Holding(cut, w)) /\ df[w] \in Nat
    <3>1. Cardinality(Holding(cut, w)) = corpus.df[w] - (IF w \in docs[i].words THEN 1 ELSE 0)
      BY <1>1, <2>4, RemovingCounts
    <3>2. corpus.df[w] \in Nat /\ Cardinality(Holding(cut, w)) \in Nat
      BY <1>1, <2>6, HoldingIsFinite
    <3>. QED
      BY <3>1, <3>2
  <2>9. df \in [Words -> Nat]
    BY <2>8
  <2>. HIDE DEF cut, df
  <2>10. ASSUME NEW a \in DOMAIN cut
         PROVE  /\ cut[a] = docs[IF a < i THEN a ELSE a + 1]
                /\ (IF a < i THEN a ELSE a + 1) \in DOMAIN docs
                /\ (IF a < i THEN a ELSE a + 1) # i
    BY <1>1, <2>4, <2>6, <2>7
  <2>11. ASSUME NEW a \in DOMAIN cut, NEW b \in DOMAIN cut, cut[a].page = cut[b].page
         PROVE  a = b
    <3>1. (IF a < i THEN a ELSE a + 1) = (IF b < i THEN b ELSE b + 1)
      BY <1>1, <2>10, <2>11
    <3>2. a \in Nat /\ b \in Nat /\ i \in Nat
      BY <1>1, <2>4, <2>7
    <3>. QED
      BY <3>1, <3>2
  <2>12. \A a \in DOMAIN cut : cut[a].page # p
    BY <2>4, <2>10
  <2>13. Corpus(rest)
    <3>1. corpus.n - 1 = Len(cut) /\ corpus.n - 1 \in Nat
      BY <1>1, <2>6, <2>7
    <3>2. rest \in [docs : Seq(Docs), df : [Words -> Nat], n : Nat]
      BY <2>5, <2>6, <2>9, <3>1
    <3>. QED
      BY <2>5, <2>8, <2>11, <3>1, <3>2 DEF Corpus
  <2>. QED
    BY <2>5, <2>12, <2>13 DEF rest
<1>. QED
  BY <1>3, <1>4 DEF rest

\* _replace_bm25_doc: the page has its new document, if it has a word.
LEMMA ReplacingKeepsCorpus ==
    ASSUME NEW corpus, Corpus(corpus), NEW p \in Pages, NEW words \in SUBSET Words
    PROVE  Corpus(_replace_bm25_doc(corpus, p, words))
<1>. DEFINE rest == _remove_bm25_doc(corpus, p)
            d == [page |-> p, words |-> words]
            docs == rest.docs
            more == Append(docs, d)
            df == [w \in Words |-> rest.df[w] + (IF w \in words THEN 1 ELSE 0)]
            new == _replace_bm25_doc(corpus, p, words)
<1>1. Corpus(rest) /\ \A i \in DOMAIN docs : docs[i].page # p
  BY RemovingKeepsCorpus
<1>2. new = IF words = {} THEN rest ELSE [docs |-> more, df |-> df, n |-> rest.n + 1]
  BY DEF _replace_bm25_doc
<1>. HIDE DEF new, rest
<1>3. CASE words = {}
  BY <1>1, <1>2, <1>3 DEF new
<1>4. CASE words # {}
  <2>1. /\ docs \in Seq(Docs) /\ rest.df \in [Words -> Nat] /\ rest.n = Len(docs)
        /\ Len(docs) \in Nat /\ DOMAIN docs = 1..Len(docs)
        /\ \A a, b \in DOMAIN docs : docs[a].page = docs[b].page => a = b
        /\ \A w \in Words : rest.df[w] = Cardinality(Holding(docs, w))
    BY <1>1 DEF Corpus
  <2>2. d \in Docs /\ d.page = p /\ d.words = words
    BY DEF Docs
  <2>. HIDE DEF d, docs
  <2>3. /\ more \in Seq(Docs) /\ Len(more) = Len(docs) + 1 /\ more[Len(docs) + 1] = d
        /\ \A i \in 1..Len(docs) : more[i] = docs[i]
    BY <2>1, <2>2, AppendProperties
  <2>4. \A w \in Words : df[w] = Cardinality(Holding(more, w)) /\ df[w] \in Nat
    BY <2>1, <2>2, AppendingCounts
  <2>5. df \in [Words -> Nat]
    BY <2>4
  <2>. HIDE DEF more, df
  <2>6. DOMAIN more = 1..Len(docs) + 1
    <3>1. DOMAIN more = 1..Len(more)
      BY <2>3
    <3>. QED
      BY <2>3, <3>1
  <2>7. ASSUME NEW a \in DOMAIN more, NEW b \in DOMAIN more, more[a].page = more[b].page
        PROVE  a = b
    <3>1. \A k \in DOMAIN more :
            \/ k \in DOMAIN docs /\ more[k] = docs[k] /\ more[k].page # p
            \/ k = Len(docs) + 1 /\ more[k].page = p
      BY <1>1, <2>1, <2>2, <2>3, <2>6 DEF docs
    <3>2. \/ a = Len(docs) + 1 /\ b = Len(docs) + 1
          \/ a \in DOMAIN docs /\ b \in DOMAIN docs /\ docs[a].page = docs[b].page
      BY <2>7, <3>1
    <3>. QED
      BY <2>1, <3>2
  <2>8. new \in [docs : Seq(Docs), df : [Words -> Nat], n : Nat] /\ new.n = Len(new.docs)
    BY <1>2, <1>4, <2>1, <2>3, <2>5
  <2>9. Corpus(new)
    BY <1>2, <1>4, <2>4, <2>7, <2>8 DEF Corpus
  <2>. QED
    BY <2>9 DEF new
<1>. QED
  BY <1>3, <1>4

\* _build_bm25_corpus: a document for every page that has a word.
LEMMA BuildingIsCorpus ==
    ASSUME NEW shot \in Shots
    PROVE  Corpus(build_bm25_corpus(shot))
<1>. DEFINE S == {p \in Pages : WordsIn(shot[p]) # {}}
            n == Cardinality(S)
            with == SortedPages(S)
            docs == [i \in DOMAIN with |-> [page |-> with[i], words |-> WordsIn(shot[with[i]])]]
            Pgs(w) == {p \in Pages : w \in WordsIn(shot[p])}
            df == [w \in Words |-> Cardinality(Pgs(w))]
            new == build_bm25_corpus(shot)
<1>1. \A p \in Pages : WordsIn(shot[p]) \in SUBSET Words
  BY TextParts DEF Shots
<1>2. new = [docs |-> docs, df |-> df, n |-> Len(with)]
  BY DEF build_bm25_corpus
<1>. HIDE DEF new
<1>3. /\ n \in Nat /\ with \in [1..n -> S]
      /\ \A i, j \in 1..n : with[i] = with[j] => i = j
      /\ \A p \in S : \E i \in 1..n : with[i] = p
  BY SortedPagesListsAll
<1>4. \A p : p \in S <=> p \in Pages /\ WordsIn(shot[p]) # {}
  OBVIOUS
<1>. HIDE DEF S, n, with
<1>5. DOMAIN with = 1..n /\ Len(with) = n
  BY <1>3
<1>6. docs \in [1..n -> Docs]
  BY <1>1, <1>3, <1>4, <1>5 DEF Docs
<1>7. docs \in Seq(Docs) /\ Len(docs) = n /\ DOMAIN docs = 1..n
  BY <1>3, <1>6
<1>8. \A i \in 1..n : docs[i].page = with[i] /\ docs[i].words = WordsIn(shot[with[i]])
  BY <1>5
<1>. HIDE DEF docs
<1>9. ASSUME NEW w \in Words
      PROVE  df[w] = Cardinality(Holding(docs, w)) /\ df[w] \in Nat
  <2>. DEFINE H == Holding(docs, w)
              P == Pgs(w)
              f == [i \in H |-> with[i]]
  <2>1. IsFiniteSet(H) /\ Cardinality(H) \in Nat
    BY <1>7, HoldingIsFinite
  <2>2. \A i : i \in H <=> i \in 1..n /\ w \in WordsIn(shot[with[i]])
    BY <1>7, <1>8 DEF Holding
  <2>. HIDE DEF H
  <2>3. f \in [H -> P] /\ \A a, b \in H : f[a] = f[b] => a = b
    BY <1>3, <1>4, <2>2
  <2>4. ASSUME NEW p \in P
        PROVE  \E i \in H : f[i] = p
    <3>1. p \in S
      BY <1>4, <2>4
    <3>. QED
      BY <1>3, <2>2, <3>1
  <2>. HIDE DEF P, f
  <2>5. Cardinality(P) = Cardinality(H)
    BY <2>1, <2>3, <2>4, AsMany
  <2>6. df[w] = Cardinality(P)
    BY DEF P
  <2>. QED
    BY <2>1, <2>5, <2>6 DEF H
<1>10. df \in [Words -> Nat]
  BY <1>9
<1>. HIDE DEF df
<1>11. \A i, j \in 1..n : docs[i].page = docs[j].page => i = j
  BY <1>3, <1>8
<1>12. new \in [docs : Seq(Docs), df : [Words -> Nat], n : Nat] /\ new.n = Len(new.docs)
  BY <1>2, <1>3, <1>5, <1>7, <1>10
<1>13. Corpus(new)
  BY <1>2, <1>7, <1>9, <1>11, <1>12 DEF Corpus
<1>. QED
  BY <1>13 DEF new

\* In a process one thread at a time is at work under the lock.
LEMMA OneAtWork ==
    ASSUME Callings, NEW c \in Callers, NEW d \in Callers, Home[c] = Home[d], pc[d] \in Locked
    PROVE  glock[Home[c]] # None /\ (pc[c] \in Locked => c = d)
  BY IndexAssumption DEF Callings, IndexAssumption

\* A step of c's at the corpus of his process, which he has alone.
LEMMA CorporaOf ==
    ASSUME NEW c \in Callers, NEW e, Callings, Corpora,
           bm25' = [bm25 EXCEPT ![Home[c]] = e], e # None => Cached(e),
           \A d \in Callers \ {c} : pc'[d] = pc[d],
           pc'[c] = "stampBm25" => Cached(e),
           pc[c] \in Locked \/ glock[Home[c]] = None
    PROVE  Corpora'
<1>1. Home[c] \in Procs /\ \A d \in Callers : Home[d] \in Procs
  BY IndexAssumption DEF IndexAssumption
<1>2. /\ DOMAIN bm25' = Procs /\ bm25'[Home[c]] = e
      /\ \A x \in Procs \ {Home[c]} : bm25'[x] = bm25[x]
  BY <1>1 DEF Corpora
<1>3. \A x \in Procs : bm25'[x] # None => Cached(bm25'[x])
  BY <1>2 DEF Corpora
<1>4. ASSUME NEW d \in Callers, pc'[d] = "stampBm25"
      PROVE  Cached(bm25'[Home[d]])
  <2>1. CASE d = c
    BY <1>2, <1>4, <2>1
  <2>2. CASE d # c
    <3>1. pc[d] = "stampBm25" /\ Cached(bm25[Home[d]])
      BY <1>4, <2>2 DEF Corpora
    <3>2. Home[d] # Home[c]
      BY <2>2, <3>1, OneAtWork DEF Locked
    <3>. QED
      BY <1>1, <1>2, <3>1, <3>2
  <2>. QED
    BY <2>1, <2>2
<1>. QED
  BY <1>2, <1>3, <1>4 DEF Corpora, Cached, Corpus

\* A step that leaves the corpora alone.
LEMMA CorporaStay ==
    ASSUME NEW c \in Callers, Corpora, bm25' = bm25, pc'[c] # "stampBm25",
           \A d \in Callers \ {c} : pc'[d] = pc[d]
    PROVE  Corpora'
<1>1. \A d \in Callers : pc'[d] = "stampBm25" => pc[d] = "stampBm25"
  OBVIOUS
<1>2. /\ DOMAIN bm25' = Procs /\ \A x \in Procs : bm25'[x] # None => Cached(bm25'[x])
      /\ \A d \in Callers : pc'[d] = "stampBm25" => Cached(bm25'[Home[d]])
  BY <1>1 DEF Corpora
<1>. QED
  BY <1>2 DEF Corpora, Cached, Corpus

LEMMA CorporaStep == Graph /\ Callings /\ Corpora /\ [Next]_vars => Corpora'
<1>. SUFFICES ASSUME Graph, Callings, Corpora, [Next]_vars PROVE Corpora'
  OBVIOUS
<1>0. /\ DOMAIN pc = Callers /\ DOMAIN bm25 = Procs /\ \A c \in Callers : Home[c] \in Procs
      /\ content \in Shots /\ \A c \in Callers : job[c].page \in Pages /\ job[c].shot \in Shots
  BY IndexAssumption DEF Graph, Callings, Corpora, IndexAssumption, Jobs
<1>1. CASE UNCHANGED <<bm25, pc>>
  <2>1. /\ DOMAIN bm25' = Procs /\ \A x \in Procs : bm25'[x] # None => Cached(bm25'[x])
        /\ \A d \in Callers : pc'[d] = "stampBm25" => Cached(bm25'[Home[d]])
    BY <1>1 DEF Corpora
  <2>. QED
    BY <2>1 DEF Corpora, Cached, Corpus
<1>2. CASE UNCHANGED vars
  BY <1>1, <1>2 DEF vars, caches
<1>3. ASSUME NEW p \in Pages, Edit(p)
      PROVE  Corpora'
  BY <1>1, <1>3 DEF Edit, caches
<1>4. ASSUME NEW c \in Callers, ReadPage(c)
      PROVE  Corpora'
  BY <1>1, <1>4 DEF ReadPage, caches
<1>5. ASSUME NEW c \in Callers, NEW to, pc' = [pc EXCEPT ![c] = to], to # "stampBm25", bm25' = bm25
      PROVE  Corpora'
  <2>1. pc'[c] = to /\ \A d \in Callers \ {c} : pc'[d] = pc[d]
    BY <1>0, <1>5
  <2>. QED
    BY <1>5, <2>1, CorporaStay
<1>6. ASSUME NEW c \in Callers, BuildAlias(c) \/ BuildBm25(c) \/ LoadCounts(c)
      PROVE  Corpora'
  <2>1. bm25' = bm25 /\ (pc' = pc \/ \E to \in {"alias", "bm25", "onDisk"} : pc' = [pc EXCEPT ![c] = to])
    BY <1>6 DEF BuildAlias, BuildBm25, LoadCounts, caches
  <2>. QED
    BY <1>1, <1>5, <2>1
<1>7. ASSUME NEW c \in Callers, NEW p \in Pages, WritePage(c, p)
      PROVE  Corpora'
  BY <1>5, <1>7 DEF WritePage, caches
<1>8. ASSUME NEW c \in Callers, AliasBuilt(c) \/ StampAlias(c) \/ Gc(c) \/ StampGc(c)
      PROVE  Corpora'
  <2>1. bm25' = bm25 /\ \E to \in {"idle", "patchBm25", "stampGc"} : pc' = [pc EXCEPT ![c] = to]
    BY <1>8 DEF AliasBuilt, StampAlias, Gc, StampGc, Returns, Goes
  <2>. QED
    BY <1>5, <2>1
<1>9. ASSUME NEW c \in Callers, PatchAlias(c)
      PROVE  Corpora'
  <2>1. bm25' = bm25 /\ \E to \in {"patchBm25", "stampAlias"} : pc' = [pc EXCEPT ![c] = to]
    BY <1>9 DEF PatchAlias, Goes
  <2>. QED
    BY <1>5, <2>1
<1>10. ASSUME NEW c \in Callers,
              PopCounts(c) \/ UnlinkCounts(c) \/ LoadDisk(c) \/ SaveDisk(c) \/ KeepCounts(c)
       PROVE  Corpora'
  <2>1. bm25' = bm25 /\ \E to \in {"unlink", "idle", "links", "keep"} : pc' = [pc EXCEPT ![c] = to]
    BY <1>10 DEF PopCounts, UnlinkCounts, LoadDisk, SaveDisk, KeepCounts, Returns, Goes
  <2>. QED
    BY <1>5, <2>1
<1>11. ASSUME NEW c \in Callers, Bm25Built(c)
       PROVE  Corpora'
  <2>. DEFINE new == build_bm25_corpus(job[c].shot)
              e == IF Home[c] \in Resident THEN [sig |-> Signature, corpus |-> new] ELSE bm25[Home[c]]
  <2>1. /\ pc[c] = "bm25" /\ pc' = [pc EXCEPT ![c] = "idle"]
        /\ bm25' = [bm25 EXCEPT ![Home[c]] = e]
    BY <1>11 DEF Bm25Built, Scanned, Returns
  <2>2. Corpus(new)
    BY <1>0, BuildingIsCorpus
  <2>. HIDE DEF new
  <2>3. e # None => Cached(e)
    BY <1>0, <2>2 DEF Corpora, Cached
  <2>. HIDE DEF e
  <2>4. pc'[c] = "idle" /\ \A d \in Callers \ {c} : pc'[d] = pc[d]
    BY <1>0, <2>1
  <2>. QED
    BY <2>1, <2>3, <2>4, CorporaOf DEF Locked
<1>12. ASSUME NEW c \in Callers, PatchBm25(c)
       PROVE  Corpora'
  <2>1. CASE bm25[Home[c]] = None
    BY <1>5, <1>12, <2>1 DEF PatchBm25, Goes
  <2>2. CASE bm25[Home[c]] # None
    <3>. DEFINE r == bm25[Home[c]]
                new == _replace_bm25_doc(r.corpus, job[c].page, WordsIn(content[job[c].page]))
                e == [r EXCEPT !.corpus = new]
    <3>1. DOMAIN r = {"sig", "corpus"} /\ Corpus(r.corpus)
      BY <1>0, <2>2 DEF Corpora, Cached
    <3>2. WordsIn(content[job[c].page]) \in SUBSET Words
      BY <1>0, TextParts DEF Shots
    <3>3. Corpus(new)
      BY <1>0, <3>1, <3>2, ReplacingKeepsCorpus
    <3>4. /\ pc[c] = "patchBm25" /\ pc' = [pc EXCEPT ![c] = "stampBm25"]
          /\ bm25' = [bm25 EXCEPT ![Home[c]] = e]
      BY <1>12, <2>2 DEF PatchBm25, Goes
    <3>. HIDE DEF new, r
    <3>5. DOMAIN e = {"sig", "corpus"} /\ e.corpus = new
      BY <3>1
    <3>. HIDE DEF e
    <3>6. Cached(e)
      BY <3>3, <3>5 DEF Cached
    <3>7. pc'[c] = "stampBm25" /\ \A d \in Callers \ {c} : pc'[d] = pc[d]
      BY <1>0, <3>4
    <3>. QED
      BY <3>4, <3>6, <3>7, CorporaOf DEF Locked
  <2>. QED
    BY <2>1, <2>2
<1>13. ASSUME NEW c \in Callers, StampBm25(c)
       PROVE  Corpora'
  <2>. DEFINE r == bm25[Home[c]]
              e == [r EXCEPT !.sig[job[c].page] = mtime[job[c].page]]
  <2>1. /\ pc[c] = "stampBm25" /\ pc' = [pc EXCEPT ![c] = "pop"]
        /\ bm25' = [bm25 EXCEPT ![Home[c]] = e]
    BY <1>13 DEF StampBm25, Goes
  <2>2. Cached(r)
    BY <2>1 DEF Corpora
  <2>. HIDE DEF r
  <2>3. DOMAIN e = {"sig", "corpus"} /\ e.corpus = r.corpus
    BY <2>2 DEF Cached
  <2>. HIDE DEF e
  <2>4. Cached(e)
    BY <2>2, <2>3 DEF Cached
  <2>5. pc'[c] = "pop" /\ \A d \in Callers \ {c} : pc'[d] = pc[d]
    BY <1>0, <2>1
  <2>. QED
    BY <2>1, <2>4, <2>5, CorporaOf DEF Locked
<1>14. ASSUME NEW c \in Callers, Clear(c)
       PROVE  Corpora'
  <2>1. pc' = pc /\ pc[c] = "idle" /\ glock[Home[c]] = None /\ bm25' = [bm25 EXCEPT ![Home[c]] = None]
    BY <1>14 DEF Clear, Calls
  <2>. QED
    BY <2>1, CorporaOf
<1>. QED
  BY <1>2, <1>3, <1>4, <1>6, <1>7, <1>8, <1>9, <1>10, <1>11, <1>12, <1>13, <1>14 DEF Next

LEMMA CorporaHold == Spec => []Corpora
<1>1. Init => Corpora
  BY DEF Init, Corpora
<1>2. Graph /\ Callings /\ Tallies /\ Corpora /\ [Next]_vars => Corpora'
  BY CorporaStep
<1>. QED
  BY <1>1, <1>2, TalliesHold, PTL DEF Spec

LEMMA CorporaCount == Corpora => CorpusCounts
  BY DEF Corpora, Cached, Corpus, CorpusCounts, Holding

\* _build_bm25_corpus, _replace_bm25_doc, _remove_bm25_doc: the corpus a process
\* keeps has one document for a page, and its counts of the words are those of
\* its documents, after whatever was patched in and out.
THEOREM CorpusStaysCounted == Spec => []CorpusCounts
  BY CorporaHold, CorporaCount, PTL

-----------------------------------------------------------------------------
(* What the operations make of an alias index *)

LEMMA BuiltType ==
    ASSUME NEW shot \in Shots
    PROVE  build_alias_index(shot) \in AliasIndex
<1>1. \A p \in Pages : AliasesIn(shot[p]) \in SUBSET Titles
  BY TextParts DEF Shots
<1>2. \A k \in Titles : Keeper(shot, k) \in Pages \cup {None}
  BY ForemostIsFirst DEF Keeper
<1>3. Live(shot) \in SUBSET Pages
  BY DEF Live
<1>. QED
  BY <1>1, <1>2, <1>3 DEF build_alias_index, AliasIndex

LEMMA BuiltIndex ==
    ASSUME Graph
    PROVE  LET idx == build_alias_index(content)
           IN /\ idx \in AliasIndex /\ Owned(idx)
              /\ \A p \in Pages : Agrees(idx, p) /\ (content[p] = NoPage => Blank(idx, p))
<1>. DEFINE idx == build_alias_index(content)
            Claiming(k) == {p \in Pages : k \in AliasesIn(content[p])}
<1>1. \A p \in Pages : AliasesIn(content[p]) \in SUBSET Titles
  BY TextParts DEF Graph, Shots
<1>2. \A k \in Titles : Keeper(content, k) = IF Claiming(k) = {} THEN None ELSE Foremost(Claiming(k))
  BY DEF Keeper
<1>3. \A k \in Titles : Claiming(k) # {} => Foremost(Claiming(k)) \in Claiming(k)
  BY ForemostIsFirst
<1>4. None \notin Pages
  BY IndexAssumption DEF IndexAssumption
<1>5. \A k \in Titles : /\ Keeper(content, k) \in Pages \cup {None}
                        /\ Keeper(content, k) # None => k \in AliasesIn(content[Keeper(content, k)])
                        /\ Keeper(content, k) = None => \A p \in Pages : k \notin AliasesIn(content[p])
  BY <1>2, <1>3, <1>4
<1>6. /\ idx = [known |-> Live(content), names |-> [p \in Pages |-> AliasesIn(content[p])],
                claim |-> [k \in Titles |-> Keeper(content, k)]]
      /\ Live(content) \in SUBSET Pages
  BY DEF build_alias_index, Live
<1>. HIDE DEF idx
<1>7. idx \in AliasIndex
  BY <1>1, <1>5, <1>6 DEF AliasIndex
<1>8. Owned(idx)
  <2>1. \A k \in Titles : idx.claim[k] # None => k \in idx.names[idx.claim[k]]
    BY <1>5, <1>6
  <2>2. \A p \in Pages : idx.names[p] \subseteq claimed[p]
    BY <1>6 DEF Graph
  <2>3. \A p \in Pages : \A k \in idx.names[p] : idx.claim[k] # None
    BY <1>1, <1>5, <1>6
  <2>4. \A p \in Pages \ idx.known : idx.names[p] = {}
    BY <1>6 DEF Live, AliasesIn
  <2>. QED
    BY <2>1, <2>2, <2>3, <2>4 DEF Owned
<1>9. \A p \in Pages : Agrees(idx, p) /\ (content[p] = NoPage => Blank(idx, p))
  BY <1>6 DEF Live, Agrees, Blank, AliasesIn
<1>. QED
  BY <1>7, <1>8, <1>9 DEF idx

\* A page is taken out and put in again as it is now.
LEMMA PatchedIndex ==
    ASSUME NEW idx \in AliasIndex, NEW p \in Pages, Graph
    PROVE  LET new == index_aliases_from_file(remove_page_from_alias_index(idx, p), p, content[p])
           IN /\ new \in AliasIndex /\ Agrees(new, p)
              /\ \A q \in Pages \ {p} : /\ Agrees(idx, q) => Agrees(new, q)
                                        /\ Blank(idx, q) => Blank(new, q)
              /\ Owned(idx) => Owned(new)
<1>. DEFINE t == content[p]
            rest == remove_page_from_alias_index(idx, p)
            new == index_aliases_from_file(rest, p, t)
<1>1. AliasesIn(t) \in SUBSET Titles /\ AliasesIn(t) \subseteq claimed[p] /\ t = content[p]
  BY TextParts DEF Graph, Shots
<1>2. None \notin Pages /\ p # None
  BY IndexAssumption DEF IndexAssumption
<1>3. /\ idx.known \in SUBSET Pages /\ idx.names \in [Pages -> SUBSET Titles]
      /\ idx.claim \in [Titles -> Pages \cup {None}]
  BY DEF AliasIndex
<1>4. /\ rest \in AliasIndex /\ rest.known = idx.known \ {p}
      /\ rest.names[p] = {} /\ \A q \in Pages \ {p} : rest.names[q] = idx.names[q]
      /\ \A k \in Titles : rest.claim[k] = IF idx.claim[k] = p THEN None ELSE idx.claim[k]
  BY <1>3 DEF remove_page_from_alias_index, AliasIndex
<1>5. new = IF t = NoPage THEN rest
            ELSE [known |-> rest.known \cup {p}, names |-> [rest.names EXCEPT ![p] = t.aliases],
                  claim |-> [k \in Titles |->
                                IF k \in t.aliases /\ rest.claim[k] = None THEN p ELSE rest.claim[k]]]
  BY DEF index_aliases_from_file
<1>. HIDE DEF rest, new, t
<1>6. /\ new \in AliasIndex
      /\ new.known = (idx.known \ {p}) \cup (IF t = NoPage THEN {} ELSE {p})
      /\ new.names[p] = AliasesIn(t) /\ \A q \in Pages \ {p} : new.names[q] = idx.names[q]
      /\ \A k \in Titles : new.claim[k] = IF k \in AliasesIn(t) /\ rest.claim[k] = None
                                          THEN p ELSE rest.claim[k]
  <2>1. CASE t = NoPage
    BY <1>4, <1>5, <2>1 DEF AliasesIn
  <2>2. CASE t # NoPage
    <3>1. t.aliases = AliasesIn(t) /\ t.aliases \in SUBSET Titles
      BY <1>1, <2>2 DEF AliasesIn
    <3>2. /\ rest.known \cup {p} \in SUBSET Pages
          /\ [rest.names EXCEPT ![p] = t.aliases] \in [Pages -> SUBSET Titles]
          /\ [k \in Titles |-> IF k \in t.aliases /\ rest.claim[k] = None THEN p ELSE rest.claim[k]]
                \in [Titles -> Pages \cup {None}]
      BY <1>4, <3>1 DEF AliasIndex
    <3>3. new \in AliasIndex
      BY <1>5, <2>2, <3>2 DEF AliasIndex
    <3>4. rest.names \in [Pages -> SUBSET Titles]
      BY <1>4 DEF AliasIndex
    <3>. QED
      BY <1>4, <1>5, <2>2, <3>1, <3>3, <3>4
  <2>. QED
    BY <2>1, <2>2
<1>7. Agrees(new, p)
  BY <1>1, <1>6 DEF Agrees
<1>8. \A q \in Pages \ {p} : /\ Agrees(idx, q) => Agrees(new, q)
                             /\ Blank(idx, q) => Blank(new, q)
  BY <1>6 DEF Agrees, Blank
<1>9. ASSUME Owned(idx)
      PROVE  Owned(new)
  <2>1. ASSUME NEW k \in Titles, new.claim[k] # None
        PROVE  k \in new.names[new.claim[k]]
    <3>1. CASE new.claim[k] = p
      <4>1. k \in AliasesIn(t)
        BY <1>2, <1>4, <1>6, <3>1
      <4>. QED
        BY <1>6, <3>1, <4>1
    <3>2. CASE new.claim[k] # p
      <4>1. new.claim[k] = idx.claim[k] /\ idx.claim[k] \in Pages \ {p}
        BY <1>3, <1>4, <1>6, <2>1, <3>2
      <4>2. k \in idx.names[idx.claim[k]]
        BY <1>9, <2>1, <4>1 DEF Owned
      <4>. QED
        BY <1>6, <4>1, <4>2
    <3>. QED
      BY <3>1, <3>2
  <2>2. ASSUME NEW q \in Pages
        PROVE  new.names[q] \subseteq claimed[q]
    BY <1>1, <1>6, <1>9 DEF Owned
  <2>3. ASSUME NEW q \in Pages, NEW k \in new.names[q], new.claim[k] = None
        PROVE  \E r \in Pages \ {q} : k \in claimed[r]
    <3>1. k \in Titles
      BY <1>6 DEF AliasIndex
    <3>2. rest.claim[k] = None /\ k \notin AliasesIn(t)
      BY <1>2, <1>6, <2>3, <3>1
    <3>3. q # p /\ k \in idx.names[q]
      BY <1>6, <3>2
    <3>4. CASE idx.claim[k] = None
      BY <1>9, <3>3, <3>4 DEF Owned
    <3>5. CASE idx.claim[k] = p
      <4>1. k \in idx.names[p]
        BY <1>2, <1>9, <3>1, <3>5 DEF Owned
      <4>2. k \in claimed[p]
        BY <1>9, <4>1 DEF Owned
      <4>. QED
        BY <3>3, <4>2
    <3>. QED
      BY <1>4, <3>1, <3>2, <3>4, <3>5
  <2>4. \A q \in Pages \ new.known : new.names[q] = {}
    BY <1>6, <1>9 DEF Owned, AliasesIn
  <2>. QED
    BY <2>1, <2>2, <2>3, <2>4 DEF Owned
<1>. QED
  BY <1>6, <1>7, <1>8, <1>9 DEF new, rest, t

\* The pages that are gone go.
LEMMA PurgedIndex ==
    ASSUME NEW idx \in AliasIndex, Graph
    PROVE  LET new == purge_stale_alias_entries(idx, Live(content))
           IN /\ new \in AliasIndex
              /\ Owned(idx) => Owned(new) /\ \A p \in Pages \ Live(content) : Blank(new, p)
              /\ \A p \in Pages : /\ p \in Live(content) /\ Agrees(idx, p) => Agrees(new, p)
                                  /\ Blank(idx, p) => Blank(new, p)
<1>. DEFINE live == Live(content)
            new == purge_stale_alias_entries(idx, live)
<1>1. None \notin Pages /\ live \in SUBSET Pages
  BY IndexAssumption DEF IndexAssumption, Live
<1>2. /\ idx.known \in SUBSET Pages /\ idx.names \in [Pages -> SUBSET Titles]
      /\ idx.claim \in [Titles -> Pages \cup {None}]
  BY DEF AliasIndex
<1>. HIDE DEF live
<1>3. /\ new \in AliasIndex /\ new.known = idx.known \cap live
      /\ \A p \in Pages : new.names[p] = IF p \in idx.known \ live THEN {} ELSE idx.names[p]
      /\ \A k \in Titles : new.claim[k] = IF idx.claim[k] \in live THEN idx.claim[k] ELSE None
  BY <1>1, <1>2 DEF purge_stale_alias_entries, AliasIndex
<1>. HIDE DEF new
<1>4. ASSUME Owned(idx)
      PROVE  Owned(new) /\ \A p \in Pages \ live : Blank(new, p)
  <2>1. \A p \in Pages \ live : Blank(new, p)
    BY <1>3, <1>4 DEF Owned, Blank
  <2>2. ASSUME NEW k \in Titles, new.claim[k] # None
        PROVE  k \in new.names[new.claim[k]]
    <3>1. new.claim[k] = idx.claim[k] /\ idx.claim[k] \in live
      BY <1>3, <2>2
    <3>2. k \in idx.names[idx.claim[k]]
      BY <1>4, <2>2, <3>1 DEF Owned
    <3>. QED
      BY <1>1, <1>3, <3>1, <3>2
  <2>3. \A p \in Pages : new.names[p] \subseteq claimed[p]
    BY <1>3, <1>4 DEF Owned
  <2>4. ASSUME NEW p \in Pages, NEW k \in new.names[p], new.claim[k] = None
        PROVE  \E q \in Pages \ {p} : k \in claimed[q]
    <3>1. k \in Titles /\ k \in idx.names[p] /\ p \in live
      BY <1>3, <2>1, <2>4 DEF AliasIndex, Blank
    <3>2. CASE idx.claim[k] = None
      BY <1>4, <3>1, <3>2 DEF Owned
    <3>3. CASE idx.claim[k] # None
      <4>1. idx.claim[k] \in Pages \ live
        BY <1>1, <1>2, <1>3, <2>4, <3>1, <3>3
      <4>2. k \in idx.names[idx.claim[k]]
        BY <1>4, <3>1, <3>3 DEF Owned
      <4>3. k \in claimed[idx.claim[k]]
        BY <1>4, <4>1, <4>2 DEF Owned
      <4>. QED
        BY <3>1, <4>1, <4>3
    <3>. QED
      BY <3>2, <3>3
  <2>5. \A p \in Pages \ new.known : new.names[p] = {}
    BY <1>3, <1>4 DEF Owned
  <2>. QED
    BY <2>1, <2>2, <2>3, <2>4, <2>5 DEF Owned
<1>5. ASSUME NEW p \in Pages
      PROVE  /\ p \in live /\ Agrees(idx, p) => Agrees(new, p)
             /\ Blank(idx, p) => Blank(new, p)
  BY <1>3 DEF Agrees, Blank
<1>. QED
  BY <1>3, <1>4, <1>5 DEF new, live

-----------------------------------------------------------------------------
(* The alias index of a process *)

Working == {"alias", "stampAlias", "stampGc"}

\* Nobody works on the index of process x, or those who do stay as they are.
LEMMA AliasedStays ==
    ASSUME NEW x \in Procs, Aliased(x), UNCHANGED graph,
           alias'[x] = alias[x], x \in raced' <=> x \in raced,
           \A d \in Callers : Home[d] = x => \/ pc'[d] = pc[d] /\ job'[d] = job[d]
                                             \/ pc[d] \notin Working /\ pc'[d] \notin Working
    PROVE  Aliased(x)'
<1>1. UNCHANGED <<content, mtime, claimed, created, edits>>
  BY DEF graph
<1>2. /\ alias'[x] # None => /\ alias'[x] \in [sig : Sigs, idx : AliasIndex]
                             /\ \A p \in Pages : alias'[x].sig[p] <= edits' + 1
      /\ \A d \in Callers : Home[d] = x /\ pc'[d] \in {"stampAlias", "stampGc"} => alias'[x] # None
  BY <1>1 DEF Aliased, Working
<1>3. Building(x) <=> Building(x)'
  BY DEF Building, Working
<1>4. \A p \in Pages : Patched(x, p) => Patched(x, p)'
  BY DEF Patched, Working
<1>5. AliasHit(x) <=> AliasHit(x)'
  BY <1>1 DEF AliasHit, Signature
<1>6. Owned(alias[x].idx) => Owned(alias[x].idx)'
  BY <1>1 DEF Owned
<1>7. \A p \in Pages : Synced(x, p) => Synced(x, p)'
  <2>1. ASSUME NEW p \in Pages, Synced(x, p)
        PROVE  Synced(x, p)'
    BY <1>1, <1>4, <2>1 DEF Synced, Agrees, Blank
  <2>. QED
    BY <2>1
<1>8. ASSUME NEW d \in Callers, Home[d] = x, Doing(d)
      PROVE  Doing(d)'
  BY <1>1, <1>8 DEF Doing, Agrees, Blank, Live, Working
<1>. QED
  BY <1>2, <1>3, <1>5, <1>6, <1>7, <1>8 DEF Aliased

\* What the index e of a process may be when one of its threads has come to
\* place "to" with job j, and is alone at work.
Fits(e, to, j) ==
    /\ e # None /\ to = "alias" => e.sig # mtime
    /\ e # None /\ to # "alias" =>
        /\ Owned(e.idx)
        /\ \A p \in Pages :
            /\ e.sig[p] # 0 /\ e.sig[p] = mtime[p] => Agrees(e.idx, p)
            /\ e.sig[p] = 0 => Blank(e.idx, p) \/ (to = "stampAlias" /\ j.page = p)
    /\ to = "alias" => \A p \in Pages : p \in j.todo \/ j.shot[p] = content[p]
    /\ to = "stampAlias" => Agrees(e.idx, j.page)
    /\ to = "stampGc" => \A p \in Pages \ Live(content) : Blank(e.idx, p)

Kept(e) ==
    e # None => /\ e \in [sig : Sigs, idx : AliasIndex]
                /\ \A p \in Pages : e.sig[p] <= edits + 1

\* A step of c's at the index of his process, which he has alone.
LEMMA AliasesAfter ==
    ASSUME NEW c \in Callers, NEW e, NEW to, NEW j, Callings, Aliases, UNCHANGED graph,
           pc[c] \in Locked \/ glock[Home[c]] = None,
           pc'[c] = to, job'[c] = j, \A d \in Callers \ {c} : pc'[d] = pc[d] /\ job'[d] = job[d],
           alias' = [alias EXCEPT ![Home[c]] = e] \/ (alias' = alias /\ e = alias[Home[c]]),
           \A y \in Procs \ {Home[c]} : y \in raced' <=> y \in raced,
           Kept(e), to \in {"stampAlias", "stampGc"} => e # None,
           Home[c] \notin raced' => Fits(e, to, j)
    PROVE  Aliases'
<1>. DEFINE x == Home[c]
<1>1. x \in Procs /\ UNCHANGED <<content, mtime, claimed, created, edits>>
  BY IndexAssumption DEF IndexAssumption, graph
<1>2. DOMAIN alias' = Procs /\ alias'[x] = e /\ \A y \in Procs \ {x} : alias'[y] = alias[y]
  BY <1>1 DEF Aliases
<1>3. \A y \in Procs \ {x} : Aliased(y)'
  BY <1>2, AliasedStays DEF Aliases
<1>4. \A d \in Callers \ {c} : Home[d] = x => pc'[d] \notin Working
  BY OneAtWork DEF Working, Locked
<1>5. \A d \in Callers : Home[d] = x /\ pc'[d] \in Working => d = c
  BY <1>4
<1>. HIDE DEF x
<1>6. x = Home[c]
  BY DEF x
<1>7. /\ alias'[x] # None => /\ alias'[x] \in [sig : Sigs, idx : AliasIndex]
                             /\ \A p \in Pages : alias'[x].sig[p] <= edits' + 1
      /\ \A d \in Callers : Home[d] = x /\ pc'[d] \in {"stampAlias", "stampGc"} => alias'[x] # None
  BY <1>1, <1>2, <1>5 DEF Kept, Working
<1>8. Building(x)' <=> to = "alias"
  BY <1>5, <1>6 DEF Building, Working
<1>9. \A p \in Pages : to = "stampAlias" /\ j.page = p => Patched(x, p)'
  BY <1>6 DEF Patched
<1>10. ASSUME x \notin raced'
       PROVE  /\ alias'[x] # None /\ Building(x)' => ~AliasHit(x)'
              /\ alias'[x] # None /\ ~Building(x)' =>
                    Owned(alias[x].idx)' /\ \A p \in Pages : Synced(x, p)'
              /\ \A d \in Callers : Home[d] = x => Doing(d)'
  <2>1. Fits(e, to, j)
    BY <1>6, <1>10
  <2>2. alias'[x] # None /\ Building(x)' => ~AliasHit(x)'
    BY <1>1, <1>2, <1>8, <2>1 DEF Fits, AliasHit, Signature
  <2>3. ASSUME alias'[x] # None, ~Building(x)'
        PROVE  Owned(alias[x].idx)' /\ \A p \in Pages : Synced(x, p)'
    <3>1. e # None /\ to # "alias" /\ Owned(e.idx)
      BY <1>2, <1>8, <2>1, <2>3 DEF Fits
    <3>2. Owned(alias[x].idx)'
      BY <1>1, <1>2, <3>1 DEF Owned
    <3>3. ASSUME NEW p \in Pages
          PROVE  Synced(x, p)'
      BY <1>1, <1>2, <1>9, <2>1, <3>1 DEF Fits, Synced, Agrees, Blank
    <3>. QED
      BY <3>2, <3>3
  <2>4. ASSUME NEW d \in Callers, Home[d] = x
        PROVE  Doing(d)'
    <3>1. CASE d = c
      BY <1>1, <1>2, <1>6, <2>1, <3>1 DEF Fits, Doing, Agrees, Blank, Live
    <3>2. CASE d # c
      BY <1>4, <1>6, <2>4, <3>2 DEF Doing, Working
    <3>. QED
      BY <3>1, <3>2
  <2>. QED
    BY <2>2, <2>3, <2>4
<1>11. Aliased(x)'
  BY <1>7, <1>10 DEF Aliased
<1>. QED
  BY <1>2, <1>3, <1>11 DEF Aliases

\* A step of a caller who is at something else.
LEMMA AliasesStay ==
    ASSUME NEW c \in Callers, Aliases, UNCHANGED <<graph, alias, raced>>,
           pc[c] \notin Working, pc'[c] \notin Working,
           \A d \in Callers \ {c} : pc'[d] = pc[d] /\ job'[d] = job[d]
    PROVE  Aliases'
<1>1. \A d \in Callers : \/ pc'[d] = pc[d] /\ job'[d] = job[d]
                         \/ pc[d] \notin Working /\ pc'[d] \notin Working
  OBVIOUS
<1>2. \A x \in Procs : Aliased(x)'
  BY <1>1, AliasedStays DEF Aliases
<1>. QED
  BY <1>2 DEF Aliases

\* A page changes: an index that is being worked on counts as raced, and the
\* mtime of the page is one that no index has.
LEMMA ChangeKeepsAliases ==
    ASSUME NEW p \in Pages, NEW t \in Texts \cup {NoPage}, Graph, Aliases, Change(p, t),
           alias' = alias, \A d \in Callers : pc'[d] \in Working => pc'[d] = pc[d]
    PROVE  Aliases'
<1>1. /\ edits' = edits + 1 /\ edits \in Nat
      /\ mtime'[p] = (IF t = NoPage THEN 0 ELSE edits + 2)
      /\ \A q \in Pages \ {p} : content'[q] = content[q] /\ mtime'[q] = mtime[q]
      /\ \A q \in Pages : claimed[q] \subseteq claimed'[q]
  BY ChangeKeepsGraph DEF Graph
<1>2. raced' = raced \cup {Home[c] : c \in {d \in Callers : pc[d] \in Working}}
  BY DEF Change, Working
<1>3. ASSUME NEW x \in Procs
      PROVE  Aliased(x)'
  <2>1. Aliased(x) /\ alias'[x] = alias[x]
    BY DEF Aliases
  <2>2. ASSUME alias[x] # None
        PROVE  /\ alias[x] \in [sig : Sigs, idx : AliasIndex]
               /\ \A q \in Pages : alias[x].sig[q] \in Nat /\ alias[x].sig[q] <= edits + 1
               /\ \A q \in Pages : alias[x].sig[q] <= edits' + 1
    <3>1. alias[x] \in [sig : Sigs, idx : AliasIndex] /\ \A q \in Pages : alias[x].sig[q] <= edits + 1
      BY <2>1, <2>2 DEF Aliased
    <3>2. \A q \in Pages : alias[x].sig[q] \in Nat
      BY <3>1 DEF Sigs
    <3>. QED
      BY <1>1, <3>1, <3>2
  <2>3. \A c \in Callers : Home[c] = x /\ pc'[c] \in {"stampAlias", "stampGc"} => alias'[x] # None
    BY <2>1 DEF Aliased, Working
  <2>4. ASSUME x \notin raced'
        PROVE  /\ alias'[x] # None /\ Building(x)' => ~AliasHit(x)'
               /\ alias'[x] # None /\ ~Building(x)' =>
                    Owned(alias[x].idx)' /\ \A q \in Pages : Synced(x, q)'
               /\ \A c \in Callers : Home[c] = x => Doing(c)'
    <3>1. x \notin raced /\ \A c \in Callers : Home[c] = x => pc[c] \notin Working
      BY <1>2, <2>4
    <3>2. \A c \in Callers : Home[c] = x => pc'[c] \notin Working
      BY <3>1
    <3>3. ~Building(x) /\ ~Building(x)'
      BY <3>1, <3>2 DEF Building, Working
    <3>4. \A c \in Callers : Home[c] = x => Doing(c)'
      BY <3>2 DEF Doing, Working
    <3>5. ASSUME alias[x] # None
          PROVE  Owned(alias[x].idx)' /\ \A q \in Pages : Synced(x, q)'
      <4>1. Owned(alias[x].idx) /\ \A q \in Pages : Synced(x, q)
        BY <2>1, <3>1, <3>3, <3>5 DEF Aliased
      <4>2. Owned(alias[x].idx)'
        BY <1>1, <2>1, <4>1 DEF Owned
      <4>3. ASSUME NEW q \in Pages
            PROVE  Synced(x, q)'
        <5>1. ~Patched(x, q)
          BY <3>1 DEF Patched, Working
        <5>2. CASE q = p
          <6>1. alias[x].sig[p] # 0 => alias[x].sig[p] # mtime'[p]
            BY <1>1, <2>2, <3>5
          <6>2. alias[x].sig[p] = 0 => Blank(alias[x].idx, p)
            BY <4>1, <5>1, <5>2 DEF Synced
          <6>. QED
            BY <2>1, <5>2, <6>1, <6>2 DEF Synced, Blank
        <5>3. CASE q # p
          BY <1>1, <2>1, <4>1, <5>1, <5>3 DEF Synced, Blank, Agrees
        <5>. QED
          BY <5>2, <5>3
      <4>. QED
        BY <4>2, <4>3
    <3>. QED
      BY <2>1, <3>3, <3>4, <3>5
  <2>5. alias'[x] # None => /\ alias'[x] \in [sig : Sigs, idx : AliasIndex]
                            /\ \A q \in Pages : alias'[x].sig[q] <= edits' + 1
    BY <2>1, <2>2
  <2>. QED
    BY <2>3, <2>4, <2>5 DEF Aliased
<1>. QED
  BY <1>3 DEF Aliases

LEMMA AliasesStep == Graph /\ Callings /\ Aliases /\ [Next]_vars => Aliases'
<1>. SUFFICES ASSUME Graph, Callings, Aliases, [Next]_vars PROVE Aliases'
  OBVIOUS
<1>0. /\ DOMAIN pc = Callers /\ DOMAIN alias = Procs /\ \A c \in Callers : Home[c] \in Procs
      /\ content \in Shots /\ mtime \in Sigs /\ edits \in Nat
      /\ \A p \in Pages : mtime[p] <= edits + 1 /\ (mtime[p] = 0 <=> content[p] = NoPage)
      /\ \A c \in Callers : job[c] \in Jobs /\ job[c].page \in Pages /\ job[c].shot \in Shots
      /\ DOMAIN job = Callers
  BY IndexAssumption DEF Graph, Callings, Aliases, IndexAssumption, Jobs
<1>1. ASSUME NEW c \in Callers
      PROVE  Aliased(Home[c])
  BY <1>0 DEF Aliases
<1>2. CASE UNCHANGED <<graph, alias, raced, pc, job>>
  BY <1>2, AliasedStays DEF Aliases
<1>3. CASE UNCHANGED vars
  BY <1>2, <1>3 DEF vars, caches
<1>4. ASSUME NEW p \in Pages, Edit(p)
      PROVE  Aliases'
  BY <1>4, ChangeKeepsAliases DEF Edit, caches
<1>5. ASSUME NEW c \in Callers, NEW p \in Pages, WritePage(c, p)
      PROVE  Aliases'
  <2>1. PICK t \in Texts \cup {NoPage} : Change(p, t)
    BY <1>5 DEF WritePage
  <2>2. \A d \in Callers : pc'[d] \in Working => pc'[d] = pc[d]
    BY <1>0, <1>5 DEF WritePage, Working
  <2>. QED
    BY <1>5, <2>1, <2>2, ChangeKeepsAliases DEF WritePage, caches
\* A caller at something else moves on.
<1>6. ASSUME NEW c \in Callers, NEW to, UNCHANGED <<graph, alias, raced>>,
             pc[c] \notin Working, to \notin Working, pc' = [pc EXCEPT ![c] = to],
             \A d \in Callers \ {c} : job'[d] = job[d]
      PROVE  Aliases'
  <2>1. pc'[c] = to /\ \A d \in Callers \ {c} : pc'[d] = pc[d]
    BY <1>0, <1>6
  <2>. QED
    BY <1>6, <2>1, AliasesStay
<1>7. ASSUME NEW c \in Callers, LoadCounts(c) \/ BuildBm25(c)
      PROVE  Aliases'
  <2>1. /\ UNCHANGED <<graph, alias, raced>> /\ pc[c] = "idle"
        /\ \A d \in Callers \ {c} : job'[d] = job[d]
        /\ UNCHANGED <<pc, job>> \/ \E to \in {"bm25", "onDisk"} : pc' = [pc EXCEPT ![c] = to]
    BY <1>0, <1>7 DEF LoadCounts, BuildBm25, Calls, Scan, caches
  <2>. QED
    BY <1>2, <1>6, <2>1 DEF Working
<1>8. ASSUME NEW c \in Callers, Bm25Built(c) \/ PopCounts(c) \/ UnlinkCounts(c) \/ KeepCounts(c)
      PROVE  Aliases'
  <2>1. /\ UNCHANGED <<graph, alias, raced>> /\ pc[c] \in {"bm25", "pop", "unlink", "keep"}
        /\ \A d \in Callers \ {c} : job'[d] = job[d]
        /\ \E to \in {"idle", "unlink"} : pc' = [pc EXCEPT ![c] = to]
    BY <1>0, <1>8 DEF Bm25Built, PopCounts, UnlinkCounts, KeepCounts, Scanned, Returns, Goes
  <2>. QED
    BY <1>6, <2>1 DEF Working
<1>9. ASSUME NEW c \in Callers, LoadDisk(c) \/ SaveDisk(c)
      PROVE  Aliases'
  <2>1. /\ UNCHANGED <<graph, alias, raced>> /\ pc[c] \in {"onDisk", "links"}
        /\ \A d \in Callers \ {c} : job'[d] = job[d]
        /\ \E to \in {"idle", "links", "keep"} : pc' = [pc EXCEPT ![c] = to]
    BY <1>0, <1>9 DEF LoadDisk, SaveDisk, Scanned, Returns, Scan
  <2>. QED
    BY <1>6, <2>1 DEF Working
<1>10. ASSUME NEW c \in Callers, PatchBm25(c) \/ StampBm25(c)
       PROVE  Aliases'
  <2>1. /\ UNCHANGED <<graph, alias, raced>> /\ pc[c] \in {"patchBm25", "stampBm25"}
        /\ \A d \in Callers \ {c} : job'[d] = job[d]
        /\ \E to \in {"pop", "stampBm25"} : pc' = [pc EXCEPT ![c] = to]
    BY <1>0, <1>10 DEF PatchBm25, StampBm25, Goes
  <2>. QED
    BY <1>6, <2>1 DEF Working
\* The index c works on, when it counts for something.
<1>11. ASSUME NEW c \in Callers
       PROVE  /\ Kept(alias[Home[c]])
              /\ pc[c] \in {"stampAlias", "stampGc"} => alias[Home[c]] # None
              /\ Home[c] \notin raced => Doing(c)
              /\ Home[c] \notin raced /\ pc[c] # "alias" /\ alias[Home[c]] # None
                 /\ (pc[c] \in Locked \/ glock[Home[c]] = None) =>
                    /\ Owned(alias[Home[c]].idx) /\ \A p \in Pages : Synced(Home[c], p)
                    /\ \A p \in Pages : Patched(Home[c], p) =>
                            pc[c] = "stampAlias" /\ job[c].page = p
  <2>. DEFINE x == Home[c]
  <2>1. Aliased(x)
    BY <1>1
  <2>2. Kept(alias[x])
    BY <2>1 DEF Aliased, Kept
  <2>3. ASSUME x \notin raced, pc[c] # "alias", alias[x] # None, pc[c] \in Locked \/ glock[x] = None
        PROVE  /\ Owned(alias[x].idx) /\ \A p \in Pages : Synced(x, p)
               /\ \A p \in Pages : Patched(x, p) => pc[c] = "stampAlias" /\ job[c].page = p
    <3>1. \A d \in Callers : Home[d] = x /\ pc[d] \in Locked => d = c
      BY <2>3, OneAtWork
    <3>2. ~Building(x)
      BY <2>3, <3>1 DEF Building, Locked
    <3>3. \A p \in Pages : Patched(x, p) => pc[c] = "stampAlias" /\ job[c].page = p
      BY <3>1 DEF Patched, Locked
    <3>. QED
      BY <2>1, <2>3, <3>2, <3>3 DEF Aliased
  <2>. QED
    BY <2>1, <2>2, <2>3 DEF Aliased
<1>12. ASSUME NEW c \in Callers, NEW to, NEW j, pc' = [pc EXCEPT ![c] = to],
              job' = [job EXCEPT ![c] = j]
       PROVE  pc'[c] = to /\ job'[c] = j /\ \A d \in Callers \ {c} : pc'[d] = pc[d] /\ job'[d] = job[d]
  BY <1>0, <1>12
<1>13. ASSUME NEW c \in Callers, NEW to, pc' = [pc EXCEPT ![c] = to], job' = job
       PROVE  /\ pc'[c] = to /\ job'[c] = job[c]
              /\ \A d \in Callers \ {c} : pc'[d] = pc[d] /\ job'[d] = job[d]
  BY <1>0, <1>13
<1>14. ASSUME NEW c \in Callers, ReadPage(c)
       PROVE  Aliases'
  <2>1. PICK p \in Pages, j \in Jobs :
            /\ job' = [job EXCEPT ![c] = j] /\ p \in job[c].todo
            /\ j.sig = job[c].sig /\ j.page = job[c].page
            /\ j.todo = job[c].todo \ {p}
            /\ j.shot = [job[c].shot EXCEPT ![p] = content[p]]
    BY <1>14, ReadingIsJob
  <2>2. /\ pc' = pc /\ pc[c] \in Scans /\ job'[c] = j /\ UNCHANGED <<graph, alias, raced>>
        /\ \A d \in Callers \ {c} : pc'[d] = pc[d] /\ job'[d] = job[d]
    BY <1>0, <1>14, <2>1 DEF ReadPage, caches
  <2>3. CASE pc[c] # "alias"
    BY <2>2, <2>3, AliasesStay DEF Scans, Working
  <2>4. CASE pc[c] = "alias"
    <3>. DEFINE e == alias[Home[c]]
    <3>1. alias' = alias
      BY <2>2
    <3>2. Kept(e)
      BY <1>11
    <3>3. ASSUME Home[c] \notin raced
          PROVE  Fits(e, "alias", j)
      <4>1. Doing(c)
        BY <1>11, <3>3
      <4>2. \A q \in Pages : q \in j.todo \/ j.shot[q] = content[q]
        BY <1>0, <2>1, <2>4, <4>1 DEF Doing, Shots
      <4>3. e # None => e.sig # mtime
        BY <1>1, <2>4, <3>3 DEF Aliased, AliasHit, Signature, Building
      <4>. QED
        BY <4>2, <4>3 DEF Fits
    <3>4. e = alias[Home[c]]
      OBVIOUS
    <3>. HIDE DEF e
    <3>. QED
      BY <2>2, <2>4, <3>1, <3>2, <3>3, <3>4, AliasesAfter DEF Locked
  <2>. QED
    BY <2>3, <2>4
<1>15. ASSUME NEW c \in Callers, BuildAlias(c)
       PROVE  Aliases'
  <2>1. CASE UNCHANGED <<glock, pc, job, raced>>
    BY <1>2, <1>15, <2>1 DEF BuildAlias, caches
  <2>2. CASE /\ ~AliasHit(Home[c]) /\ Scan(c, Signature)
             /\ pc' = [pc EXCEPT ![c] = "alias"] /\ raced' = raced \ {Home[c]}
    <3>. DEFINE e == alias[Home[c]]
                j == [NoJob EXCEPT !.sig = mtime, !.todo = Live(content)]
    <3>1. job' = [job EXCEPT ![c] = j] /\ j.todo = Live(content) /\ j.shot = NoShot
      BY <1>0, <2>2, ScanIsJob DEF Scan, Signature
    <3>2. alias' = alias /\ e = alias[Home[c]] /\ UNCHANGED graph /\ glock[Home[c]] = None
      BY <1>15 DEF BuildAlias, caches
    <3>3. Kept(e)
      BY <1>11
    <3>4. e # None => e.sig # mtime
      BY <2>2 DEF AliasHit, Signature
    <3>. HIDE DEF j, e
    <3>5. Fits(e, "alias", j)
      BY <3>1, <3>4 DEF Fits, Live, NoShot
    <3>6. \A y \in Procs \ {Home[c]} : y \in raced' <=> y \in raced
      BY <2>2
    <3>7. /\ pc'[c] = "alias" /\ job'[c] = j
          /\ \A d \in Callers \ {c} : pc'[d] = pc[d] /\ job'[d] = job[d]
      BY <1>12, <2>2, <3>1
    <3>. QED
      BY <3>2, <3>3, <3>5, <3>6, <3>7, AliasesAfter
  <2>. QED
    BY <1>15, <2>1, <2>2 DEF BuildAlias
<1>16. ASSUME NEW c \in Callers, AliasBuilt(c)
       PROVE  Aliases'
  <2>. DEFINE x == Home[c]
              idx == build_alias_index(job[c].shot)
              e == [sig |-> mtime, idx |-> idx]
  <2>1. /\ pc[c] = "alias" /\ job[c].todo = {} /\ pc' = [pc EXCEPT ![c] = "idle"]
        /\ job' = [job EXCEPT ![c] = NoJob] /\ alias' = [alias EXCEPT ![x] = e]
        /\ UNCHANGED <<graph, raced>>
    BY <1>16 DEF AliasBuilt, Scanned, Returns, Signature
  <2>2. idx \in AliasIndex
    BY <1>0, BuiltType
  <2>3. Kept(e)
    BY <1>0, <2>2 DEF Kept
  <2>4. ASSUME x \notin raced
        PROVE  Fits(e, "idle", NoJob)
    <3>1. \A p \in Pages : job[c].shot[p] = content[p]
      BY <1>11, <2>1, <2>4 DEF Doing
    <3>2. job[c].shot = content
      BY <1>0, <3>1 DEF Shots
    <3>3. Owned(idx) /\ \A p \in Pages : Agrees(idx, p) /\ (content[p] = NoPage => Blank(idx, p))
      BY <3>2, BuiltIndex
    <3>. HIDE DEF idx
    <3>. QED
      BY <1>0, <3>3 DEF Fits
  <2>5. /\ pc'[c] = "idle" /\ job'[c] = NoJob /\ pc[c] \in Locked
        /\ \A d \in Callers \ {c} : pc'[d] = pc[d] /\ job'[d] = job[d]
    BY <1>12, <2>1 DEF Locked
  <2>6. UNCHANGED graph /\ \A y \in Procs \ {Home[c]} : y \in raced' <=> y \in raced
    BY <2>1
  <2>7. alias' = [alias EXCEPT ![Home[c]] = e] /\ (Home[c] \notin raced' => Fits(e, "idle", NoJob))
    BY <2>1, <2>4
  <2>. HIDE DEF e, x, idx
  <2>. QED
    BY <2>3, <2>5, <2>6, <2>7, AliasesAfter
<1>17. ASSUME NEW c \in Callers, PatchAlias(c)
       PROVE  Aliases'
  <2>. DEFINE x == Home[c]
              p == job[c].page
              r == alias[x]
              new == index_aliases_from_file(remove_page_from_alias_index(r.idx, p), p, content[p])
              e == [r EXCEPT !.idx = new]
  <2>1. pc[c] = "patchAlias" /\ job' = job /\ UNCHANGED <<graph, raced>>
    BY <1>17 DEF PatchAlias, Goes
  <2>2. CASE r = None
    <3>1. alias' = alias /\ pc' = [pc EXCEPT ![c] = "patchBm25"]
      BY <1>17, <2>2 DEF PatchAlias, Goes
    <3>. QED
      BY <1>6, <2>1, <3>1 DEF Working
  <2>3. CASE r # None
    <3>1. alias' = [alias EXCEPT ![x] = e] /\ pc' = [pc EXCEPT ![c] = "stampAlias"]
      BY <1>17, <2>3 DEF PatchAlias, Goes
    <3>2. r \in [sig : Sigs, idx : AliasIndex] /\ \A q \in Pages : r.sig[q] <= edits + 1
      BY <1>11, <2>3 DEF Kept
    <3>3. /\ new \in AliasIndex /\ Agrees(new, p)
          /\ \A q \in Pages \ {p} : /\ Agrees(r.idx, q) => Agrees(new, q)
                                    /\ Blank(r.idx, q) => Blank(new, q)
          /\ Owned(r.idx) => Owned(new)
      BY <1>0, <3>2, PatchedIndex
    <3>4. x \notin raced => Owned(r.idx) /\ \A q \in Pages : Synced(x, q) /\ ~Patched(x, q)
      BY <1>11, <2>1, <2>3 DEF Locked
    <3>. HIDE DEF new
    <3>5. e \in [sig : Sigs, idx : AliasIndex] /\ e.sig = r.sig /\ e.idx = new
      BY <3>2, <3>3
    <3>6. x \notin raced => \A q \in Pages \ {p} :
                /\ r.sig[q] # 0 /\ r.sig[q] = mtime[q] => Agrees(r.idx, q)
                /\ r.sig[q] = 0 => Blank(r.idx, q)
      BY <3>4 DEF Synced
    <3>. HIDE DEF e, r
    <3>7. Kept(e) /\ e # None
      BY <3>2, <3>5, IndexAssumption DEF Kept, IndexAssumption, Sigs
    <3>8. x \notin raced => Fits(e, "stampAlias", job[c])
      BY <3>3, <3>4, <3>5, <3>6 DEF Fits
    <3>. QED
      BY <1>13, <2>1, <3>1, <3>7, <3>8, AliasesAfter DEF Locked
  <2>. QED
    BY <2>2, <2>3
<1>18. ASSUME NEW c \in Callers, StampAlias(c)
       PROVE  Aliases'
  <2>. DEFINE x == Home[c]
              p == job[c].page
              r == alias[x]
              e == [r EXCEPT !.sig[p] = mtime[p]]
  <2>1. /\ pc[c] = "stampAlias" /\ job' = job /\ UNCHANGED <<graph, raced>>
        /\ alias' = [alias EXCEPT ![x] = e] /\ pc' = [pc EXCEPT ![c] = "patchBm25"]
    BY <1>18 DEF StampAlias, Goes
  <2>2. /\ r # None /\ r \in [sig : Sigs, idx : AliasIndex]
        /\ \A q \in Pages : r.sig[q] <= edits + 1
    BY <1>11, <2>1 DEF Kept
  <2>3. x \notin raced => /\ Owned(r.idx) /\ \A q \in Pages : Synced(x, q)
                          /\ \A q \in Pages : Patched(x, q) => q = p
                          /\ Agrees(r.idx, p)
    BY <1>11, <2>1, <2>2 DEF Locked, Doing
  <2>4. x \notin raced => \A q \in Pages \ {p} :
                /\ r.sig[q] # 0 /\ r.sig[q] = mtime[q] => Agrees(r.idx, q)
                /\ r.sig[q] = 0 => Blank(r.idx, q)
    BY <2>3 DEF Synced
  <2>. HIDE DEF r
  <2>5. /\ e \in [sig : Sigs, idx : AliasIndex] /\ e.idx = r.idx /\ e.sig[p] = mtime[p]
        /\ \A q \in Pages \ {p} : e.sig[q] = r.sig[q]
    <3>1. [r.sig EXCEPT ![p] = mtime[p]] \in Sigs
      BY <1>0, <2>2 DEF Sigs
    <3>2. e = [r EXCEPT !.sig = [r.sig EXCEPT ![p] = mtime[p]]]
      OBVIOUS
    <3>. HIDE DEF e
    <3>3. e \in [sig : Sigs, idx : AliasIndex] /\ e.idx = r.idx /\ e.sig = [r.sig EXCEPT ![p] = mtime[p]]
      BY <2>2, <3>1, <3>2
    <3>. QED
      BY <1>0, <2>2, <3>3 DEF Sigs
  <2>. HIDE DEF e
  <2>6. Kept(e)
    BY <1>0, <2>2, <2>5 DEF Kept
  <2>7. ASSUME x \notin raced
        PROVE  Fits(e, "patchBm25", job[c])
    <3>1. content[p] = NoPage => Blank(r.idx, p)
      BY <2>3, <2>7 DEF Agrees, Blank, AliasesIn
    <3>. QED
      BY <1>0, <2>3, <2>4, <2>5, <2>7, <3>1 DEF Fits
  <2>8. /\ pc'[c] = "patchBm25" /\ job'[c] = job[c]
        /\ \A d \in Callers \ {c} : pc'[d] = pc[d] /\ job'[d] = job[d]
    BY <1>13, <2>1
  <2>. QED
    BY <2>1, <2>6, <2>7, <2>8, AliasesAfter DEF Locked
<1>19. ASSUME NEW c \in Callers, Gc(c)
       PROVE  Aliases'
  <2>. DEFINE x == Home[c]
              r == alias[x]
              new == purge_stale_alias_entries(r.idx, Live(content))
              e == [r EXCEPT !.idx = new]
  <2>1. /\ pc[c] = "idle" /\ glock[x] = None /\ r # None /\ job' = job /\ UNCHANGED <<graph, raced>>
        /\ alias' = [alias EXCEPT ![x] = e] /\ pc' = [pc EXCEPT ![c] = "stampGc"]
    BY <1>19 DEF Gc, Calls, TakesLock
  <2>2. r \in [sig : Sigs, idx : AliasIndex] /\ \A q \in Pages : r.sig[q] <= edits + 1
    BY <1>11, <2>1 DEF Kept
  <2>3. /\ new \in AliasIndex
        /\ Owned(r.idx) => Owned(new) /\ \A p \in Pages \ Live(content) : Blank(new, p)
        /\ \A p \in Pages : /\ p \in Live(content) /\ Agrees(r.idx, p) => Agrees(new, p)
                            /\ Blank(r.idx, p) => Blank(new, p)
    BY <2>2, PurgedIndex
  <2>4. x \notin raced => Owned(r.idx) /\ \A q \in Pages : Synced(x, q) /\ ~Patched(x, q)
    BY <1>11, <2>1
  <2>. HIDE DEF new
  <2>5. e \in [sig : Sigs, idx : AliasIndex] /\ e.sig = r.sig /\ e.idx = new
    BY <2>2, <2>3
  <2>6. x \notin raced => \A q \in Pages :
                /\ r.sig[q] # 0 /\ r.sig[q] = mtime[q] => Agrees(r.idx, q) /\ q \in Live(content)
                /\ r.sig[q] = 0 => Blank(r.idx, q)
    BY <1>0, <2>4 DEF Synced, Live
  <2>. HIDE DEF e, r
  <2>7. Kept(e) /\ e # None
    BY <2>2, <2>5, IndexAssumption DEF Kept, IndexAssumption, Sigs
  <2>8. x \notin raced => Fits(e, "stampGc", job[c])
    BY <2>3, <2>4, <2>5, <2>6 DEF Fits
  <2>. QED
    BY <1>13, <2>1, <2>7, <2>8, AliasesAfter
<1>20. ASSUME NEW c \in Callers, StampGc(c)
       PROVE  Aliases'
  <2>. DEFINE x == Home[c]
              r == alias[x]
              e == [r EXCEPT !.sig = mtime]
  <2>1. /\ pc[c] = "stampGc" /\ job' = job /\ UNCHANGED graph
        /\ alias' = [alias EXCEPT ![x] = e] /\ pc' = [pc EXCEPT ![c] = "idle"]
        /\ raced' = IF \E p \in Live(content) : r.sig[p] # mtime[p] THEN raced \cup {x} ELSE raced
    BY <1>20 DEF StampGc, Goes, Signature
  <2>2. r # None /\ r \in [sig : Sigs, idx : AliasIndex]
    BY <1>11, <2>1 DEF Kept
  <2>3. ASSUME x \notin raced'
        PROVE  /\ Owned(r.idx) /\ \A q \in Live(content) : Agrees(r.idx, q)
               /\ \A q \in Pages \ Live(content) : Blank(r.idx, q)
    <3>1. x \notin raced /\ \A q \in Live(content) : r.sig[q] = mtime[q]
      BY <2>1, <2>3
    <3>2. Owned(r.idx) /\ \A q \in Pages : Synced(x, q)
      BY <1>11, <2>1, <2>2, <3>1 DEF Locked
    <3>3. \A q \in Pages \ Live(content) : Blank(r.idx, q)
      BY <1>11, <2>1, <3>1 DEF Doing
    <3>4. \A q \in Live(content) : q \in Pages /\ mtime[q] # 0
      BY <1>0 DEF Live
    <3>. QED
      BY <3>1, <3>2, <3>3, <3>4 DEF Synced
  <2>. HIDE DEF r
  <2>4. e \in [sig : Sigs, idx : AliasIndex] /\ e.sig = mtime /\ e.idx = r.idx
    BY <1>0, <2>2
  <2>. HIDE DEF e
  <2>5. Kept(e)
    BY <1>0, <2>4 DEF Kept
  <2>6. x \notin raced' => Fits(e, "idle", job[c])
    BY <1>0, <2>3, <2>4 DEF Fits, Live
  <2>7. \A y \in Procs \ {x} : y \in raced' <=> y \in raced
    BY <2>1
  <2>. QED
    BY <1>13, <2>1, <2>5, <2>6, <2>7, AliasesAfter DEF Locked
<1>21. ASSUME NEW c \in Callers, Clear(c)
       PROVE  Aliases'
  <2>1. CASE UNCHANGED <<alias, raced>>
    BY <1>2, <1>21, <2>1 DEF Clear
  <2>2. CASE alias' = [alias EXCEPT ![Home[c]] = None] /\ raced' = raced \ {Home[c]}
    <3>1. /\ pc' = [pc EXCEPT ![c] = "idle"] /\ job' = job /\ UNCHANGED graph
          /\ glock[Home[c]] = None
      BY <1>21 DEF Clear, Calls, Callings
    <3>2. Kept(None) /\ Fits(None, "idle", job[c])
      BY DEF Kept, Fits
    <3>3. \A y \in Procs \ {Home[c]} : y \in raced' <=> y \in raced
      BY <2>2
    <3>. QED
      BY <1>13, <2>2, <3>1, <3>2, <3>3, AliasesAfter
  <2>. QED
    BY <1>21, <2>1, <2>2 DEF Clear
<1>. QED
  BY <1>3, <1>4, <1>5, <1>7, <1>8, <1>9, <1>10, <1>14, <1>15, <1>16, <1>17, <1>18, <1>19, <1>20, <1>21
     DEF Next

LEMMA AliasesHold == Spec => []Aliases
<1>1. Init => Aliases
  <2>1. Init => \A x \in Procs : alias[x] = None /\ \A c \in Callers : pc[c] = "idle"
    BY DEF Init
  <2>2. Init => DOMAIN alias = Procs
    BY DEF Init
  <2>. QED
    BY <2>1, <2>2 DEF Aliases, Aliased, Doing
<1>2. Graph /\ Callings /\ Tallies /\ Aliases /\ [Next]_vars => Aliases'
  BY AliasesStep
<1>. QED
  BY <1>1, <1>2, TalliesHold, PTL DEF Spec

\* An index that has the mtimes of all pages says of each what the page does.
LEMMA HitsResolve == Graph /\ Aliases => ResolvesAsPagesSay
<1>. SUFFICES ASSUME Graph, Aliases, NEW x \in Procs, AliasHit(x), x \notin raced, NEW k \in Titles
              PROVE  LET r == resolve(alias[x].idx, k) IN
                     /\ k \in Live(content) => r = k
                     /\ r # None => r = k \/ k \in AliasesIn(content[r])
                     /\ r = None => \A p \in Pages : k \in AliasesIn(content[p]) =>
                                        \E q \in Pages \ {p} : k \in claimed[q]
  BY DEF ResolvesAsPagesSay
<1>. DEFINE idx == alias[x].idx
<1>1. Aliased(x) /\ alias[x] # None /\ alias[x].sig = mtime
  BY DEF Aliases, AliasHit, Signature
<1>2. ~Building(x)
  BY <1>1 DEF Aliased
<1>3. Owned(idx) /\ idx \in AliasIndex /\ \A p \in Pages : Synced(x, p)
  BY <1>1, <1>2 DEF Aliased
<1>4. ASSUME NEW p \in Pages
      PROVE  Agrees(idx, p)
  <2>1. CASE mtime[p] # 0
    BY <1>1, <1>3, <2>1 DEF Synced
  <2>2. CASE mtime[p] = 0 /\ Blank(idx, p)
    BY <2>2 DEF Graph, Blank, Agrees, AliasesIn
  <2>3. CASE Patched(x, p)
    <3>1. PICK c \in Callers : Home[c] = x /\ pc[c] = "stampAlias" /\ job[c].page = p
      BY <2>3 DEF Patched
    <3>2. Doing(c)
      BY <1>1, <3>1 DEF Aliased
    <3>. QED
      BY <3>1, <3>2 DEF Doing
  <2>. QED
    BY <1>1, <1>3, <2>1, <2>2, <2>3 DEF Synced
<1>. HIDE DEF idx
<1>5. \A p \in Pages : (p \in idx.known <=> p \in Live(content)) /\ idx.names[p] = AliasesIn(content[p])
  BY <1>4 DEF Agrees, Live
<1>6. idx.known \in SUBSET Pages /\ idx.claim \in [Titles -> Pages \cup {None}] /\ None \notin Pages
  BY <1>3, IndexAssumption DEF AliasIndex, IndexAssumption
<1>. DEFINE r == resolve(idx, k)
<1>7. r = IF k \in idx.known THEN k ELSE idx.claim[k]
  BY DEF resolve
<1>. HIDE DEF r
<1>8. k \in Live(content) => r = k
  BY <1>5, <1>7 DEF Live
<1>9. r # None => r = k \/ k \in AliasesIn(content[r])
  BY <1>3, <1>5, <1>6, <1>7 DEF Owned
<1>10. r = None => \A p \in Pages : k \in AliasesIn(content[p]) => \E q \in Pages \ {p} : k \in claimed[q]
  BY <1>3, <1>5, <1>6, <1>7 DEF Owned
<1>. QED
  BY <1>8, <1>9, <1>10 DEF r, idx

\* cached_build_alias_index, patch_generational_caches_for_paths and
\* gc_generational_alias_cache: an alias index that counts as fresh, and that no
\* page was changed under, resolves names as the pages say, whatever was built,
\* patched and collected before by which threads.
THEOREM AliasesResolve == Spec => []ResolvesAsPagesSay
<1>1. Graph /\ Callings /\ Tallies /\ Aliases => ResolvesAsPagesSay
  BY HitsResolve
<1>. QED
  BY <1>1, TalliesHold, AliasesHold, PTL
=============================================================================
