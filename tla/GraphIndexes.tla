---------------------------- MODULE GraphIndexes ----------------------------
(***************************************************************************)
(* src/graph/generational_cache.py, alias_index.py and backlink_index.py:  *)
(* what a process remembers of the pages, keyed by their mtimes: the alias *)
(* index, the corpus of the text search and the counts of incoming links,  *)
(* the counts also in a file that processes share.                         *)
(*                                                                         *)
(* What is abstracted: a text is the sets of its aliases, links and words; *)
(* the mtimes of all pages are taken in one step; scores are left out.     *)
(* Any thread may call any function, as the tests of the module do; in the *)
(* repository the daemon patches and the MCP server searches.              *)
(***************************************************************************)
EXTENDS Naturals, Sequences, FiniteSets, SequencesExt

CONSTANTS
    Procs,
    Callers,        \* threads that use the indexes
    Home,           \* the process of each
    PageOrder,      \* the pages, sorted as a scan visits them
    Names, Words,
    Texts,          \* [aliases, links, words]: what a page may hold
    First,          \* what the pages may hold at the start
    NoPage, None,
    Resident,       \* processes that keep the corpus (MATRYCA_BM25_MODE)
    MaxEdits,       \* bound: changes of pages
    MaxCalls        \* bound: calls

Pages == ToSet(PageOrder)
Titles == Names \cup Pages      \* what a link or a caller may ask for

\* The pages, the aliases of each and who keeps an alias.
AliasIndex == [known : SUBSET Pages, names : [Pages -> SUBSET Titles],
               claim : [Titles -> Pages \cup {None}]]

ASSUME IndexAssumption ==
    /\ PageOrder \in Seq(Pages) /\ PageOrder # <<>> /\ None \notin Pages \cup Callers
    /\ None \notin [sig : [Pages -> Nat], idx : AliasIndex]
    /\ \A i, j \in DOMAIN PageOrder : PageOrder[i] = PageOrder[j] => i = j
    /\ Home \in [Callers -> Procs] /\ Resident \subseteq Procs
    /\ First \subseteq [Pages -> Texts \cup {NoPage}]
    /\ Texts \subseteq [aliases : SUBSET Titles, links : SUBSET Pages, words : SUBSET Words]

VARIABLES
    content,    \* the text of each page, NoPage when there is none
    mtime,      \* its mtime, 0 when there is none
    alias,      \* _alias_cache of each process: None or [sig, idx]
    bm25,       \* _bm25_cache of each process: None or [sig, corpus]
    memory,     \* _memory: the link counts of each process, None or [sig, counts]
    disk,       \* backlink_counts.json, the same
    glock,      \* _lock of generational_cache
    pc, job,    \* where each caller is, and its locals
    raced,      \* processes whose alias index was changed under the pages' feet
    claimed,    \* the names each page has claimed since the start
    created,    \* pages that have appeared since the start
    edits, calls

caches == <<alias, bm25, memory, disk>>
graph == <<content, mtime, claimed, created, edits>>
vars == <<caches, graph, glock, pc, job, raced, calls>>

NoIndex == [known |-> {}, names |-> [p \in Pages |-> {}], claim |-> [k \in Titles |-> None]]
NoShot == [p \in Pages |-> NoPage]
NoJob == [page |-> PageOrder[1], sig |-> [p \in Pages |-> 0], todo |-> {}, shot |-> NoShot]

Scans == {"alias", "bm25", "links"}

-----------------------------------------------------------------------------
(* The pages *)

AliasesIn(t) == IF t = NoPage THEN {} ELSE t.aliases
LinksIn(t) == IF t = NoPage THEN {} ELSE t.links
WordsIn(t) == IF t = NoPage THEN {} ELSE t.words
Live(shot) == {p \in Pages : shot[p] # NoPage}

\* Pages are sorted: which of them a scan comes to first, and all in order.
Place(p) == CHOOSE i \in DOMAIN PageOrder : PageOrder[i] = p
Foremost(pages) == CHOOSE p \in pages : \A q \in pages : Place(p) <= Place(q)
SortedPages(live) ==
    CHOOSE s \in [1..Cardinality(live) -> live] :
        \A i, j \in DOMAIN s : i < j => Place(s[i]) < Place(s[j])

\* generational_cache._signature, backlink_index._signature
Signature == mtime

Init ==
    /\ content \in First
    /\ mtime = [p \in Pages |-> IF content[p] = NoPage THEN 0 ELSE 1]
    /\ alias = [x \in Procs |-> None] /\ bm25 = [x \in Procs |-> None]
    /\ memory = [x \in Procs |-> None] /\ disk = None
    /\ glock = [x \in Procs |-> None]
    /\ pc = [c \in Callers |-> "idle"] /\ job = [c \in Callers |-> NoJob]
    /\ raced = {} /\ claimed = [p \in Pages |-> AliasesIn(content[p])] /\ created = {}
    /\ edits = 0 /\ calls = 0

\* A page is written, created or deleted; indexes being built miss it.
Change(p, t) ==
    /\ edits < MaxEdits /\ edits' = edits + 1 /\ t # content[p]
    /\ content' = [content EXCEPT ![p] = t]
    /\ mtime' = [mtime EXCEPT ![p] = IF t = NoPage THEN 0 ELSE edits + 2]
    /\ claimed' = [claimed EXCEPT ![p] = @ \cup AliasesIn(t)]
    /\ created' = IF content[p] = NoPage THEN created \cup {p} ELSE created
    /\ raced' = raced \cup {Home[c] : c \in {d \in Callers : pc[d] \in {"alias", "stampAlias", "stampGc"}}}

Edit(p) ==
    /\ \E t \in Texts \cup {NoPage} : Change(p, t)
    /\ UNCHANGED <<caches, glock, pc, job, calls>>

-----------------------------------------------------------------------------
(* The alias index *)

Keeper(shot, k) ==
    LET claiming == {p \in Pages : k \in AliasesIn(shot[p])}
    IN IF claiming = {} THEN None ELSE Foremost(claiming)

\* build_alias_index: the first page that claims a name keeps it.
build_alias_index(shot) ==
    [known |-> Live(shot), names |-> [p \in Pages |-> AliasesIn(shot[p])],
     claim |-> [k \in Titles |-> Keeper(shot, k)]]

\* Mutant: only the page's own row goes.
remove_page_only(idx, p) == [idx EXCEPT !.known = @ \ {p}, !.names[p] = {}]

remove_page_from_alias_index(idx, p) ==
    [known |-> idx.known \ {p}, names |-> [idx.names EXCEPT ![p] = {}],
     claim |-> [k \in Titles |-> IF idx.claim[k] = p THEN None ELSE idx.claim[k]]]

index_aliases_from_file(idx, p, t) ==
    IF t = NoPage THEN idx
    ELSE [known |-> idx.known \cup {p}, names |-> [idx.names EXCEPT ![p] = t.aliases],
          claim |-> [k \in Titles |->
                        IF k \in t.aliases /\ idx.claim[k] = None THEN p ELSE idx.claim[k]]]

purge_stale_alias_entries(idx, live) ==
    [known |-> idx.known \cap live,
     names |-> [p \in Pages |-> IF p \in idx.known \ live THEN {} ELSE idx.names[p]],
     claim |-> [k \in Titles |-> IF idx.claim[k] \in live THEN idx.claim[k] ELSE None]]

\* AliasIndex.resolve: a title before an alias; None: safe to create.
resolve(idx, k) == IF k \in idx.known THEN k ELSE idx.claim[k]

-----------------------------------------------------------------------------
(* The corpus *)

\* _build_bm25_corpus: pages without a word have no document.
build_bm25_corpus(shot) ==
    LET with == SortedPages({p \in Pages : WordsIn(shot[p]) # {}})
    IN [docs |-> [i \in DOMAIN with |-> [page |-> with[i], words |-> WordsIn(shot[with[i]])]],
        df |-> [w \in Words |-> Cardinality({p \in Pages : w \in WordsIn(shot[p])})],
        n |-> Len(with)]

_remove_bm25_doc(corpus, p) ==
    LET found == {i \in DOMAIN corpus.docs : corpus.docs[i].page = p}
        i == CHOOSE j \in found : \A k \in found : j <= k
    IN IF found = {} THEN corpus
       ELSE [docs |-> RemoveAt(corpus.docs, i),
             df |-> [w \in Words |-> IF w \in corpus.docs[i].words /\ corpus.df[w] > 0
                                     THEN corpus.df[w] - 1 ELSE corpus.df[w]],
             n |-> corpus.n - 1]

\* Mutant: the old document stays.
_append_bm25_doc(corpus, p, words) ==
    IF words = {} THEN corpus
    ELSE [docs |-> Append(corpus.docs, [page |-> p, words |-> words]),
          df |-> [w \in Words |-> corpus.df[w] + (IF w \in words THEN 1 ELSE 0)],
          n |-> corpus.n + 1]

_replace_bm25_doc(corpus, p, words) ==
    LET rest == _remove_bm25_doc(corpus, p)
    IN IF words = {} THEN rest
       ELSE [docs |-> Append(rest.docs, [page |-> p, words |-> words]),
             df |-> [w \in Words |-> rest.df[w] + (IF w \in words THEN 1 ELSE 0)],
             n |-> rest.n + 1]

-----------------------------------------------------------------------------
(* A call of a thread *)

Goes(c, here, there) == pc[c] = here /\ pc' = [pc EXCEPT ![c] = there]
Calls(c) == pc[c] = "idle" /\ calls < MaxCalls /\ calls' = calls + 1
TakesLock(c) == glock[Home[c]] = None /\ glock' = [glock EXCEPT ![Home[c]] = c]
Returns(c) == pc' = [pc EXCEPT ![c] = "idle"] /\ job' = [job EXCEPT ![c] = NoJob]
Unlocks(c) == glock' = [glock EXCEPT ![Home[c]] = None]

\* A scan begins: the pages are listed.
Scan(c, sig) ==
    job' = [job EXCEPT ![c] = [NoJob EXCEPT !.sig = sig, !.todo = Live(content)]]

\* The next page is read; one that is gone is skipped.
ReadPage(c) ==
    /\ pc[c] \in Scans /\ job[c].todo # {}
    /\ LET p == Foremost(job[c].todo)
       IN job' = [job EXCEPT ![c].todo = @ \ {p}, ![c].shot[p] = content[p]]
    /\ UNCHANGED <<caches, graph, glock, pc, raced, calls>>

Scanned(c, kind) == pc[c] = kind /\ job[c].todo = {}

\* cached_build_alias_index
AliasHit(x) == alias[x] # None /\ alias[x].sig = Signature

BuildAlias(c) ==
    LET x == Home[c] IN
    /\ Calls(c) /\ glock[x] = None
    /\ IF AliasHit(x)
       THEN UNCHANGED <<glock, pc, job, raced>>
       ELSE /\ TakesLock(c) /\ Scan(c, Signature)
            /\ pc' = [pc EXCEPT ![c] = "alias"]
            /\ raced' = raced \ {x}
    /\ UNCHANGED <<caches, graph>>

AliasBuilt(c) ==
    /\ Scanned(c, "alias")
    /\ alias' = [alias EXCEPT ![Home[c]] = [sig |-> Signature, idx |-> build_alias_index(job[c].shot)]]
    /\ Returns(c) /\ Unlocks(c)
    /\ UNCHANGED <<bm25, memory, disk, graph, raced, calls>>

\* get_cached_bm25_corpus
BuildBm25(c) ==
    LET x == Home[c] IN
    /\ Calls(c) /\ glock[x] = None
    /\ IF x \in Resident /\ bm25[x] # None /\ bm25[x].sig = Signature
       THEN UNCHANGED <<glock, pc, job>>
       ELSE TakesLock(c) /\ Scan(c, Signature) /\ pc' = [pc EXCEPT ![c] = "bm25"]
    /\ UNCHANGED <<caches, graph, raced>>

Bm25Built(c) ==
    /\ Scanned(c, "bm25")
    /\ bm25' = [bm25 EXCEPT ![Home[c]] =
                    IF Home[c] \in Resident
                    THEN [sig |-> Signature, corpus |-> build_bm25_corpus(job[c].shot)] ELSE @]
    /\ Returns(c) /\ Unlocks(c)
    /\ UNCHANGED <<alias, memory, disk, graph, raced, calls>>

-----------------------------------------------------------------------------
(* patch_generational_caches_for_paths, after a write of the caller's own *)

WritePage(c, p) ==
    /\ pc[c] = "idle" /\ calls < MaxCalls /\ calls' = calls + 1
    /\ TakesLock(c)
    /\ \E t \in Texts \cup {NoPage} : Change(p, t)
    /\ pc' = [pc EXCEPT ![c] = "patchAlias"] /\ job' = [job EXCEPT ![c] = [NoJob EXCEPT !.page = p]]
    /\ UNCHANGED caches

PatchAlias(c) ==
    LET x == Home[c]  p == job[c].page IN
    /\ Goes(c, "patchAlias", IF alias[x] = None THEN "patchBm25" ELSE "stampAlias")
    /\ alias' = IF alias[x] = None THEN alias
                ELSE [alias EXCEPT ![x].idx =
                        index_aliases_from_file(remove_page_from_alias_index(@, p), p, content[p])]
    /\ UNCHANGED <<bm25, memory, disk, graph, glock, job, raced, calls>>

\* _patch_signature
StampAlias(c) ==
    /\ Goes(c, "stampAlias", "patchBm25")
    /\ alias' = [alias EXCEPT ![Home[c]].sig[job[c].page] = mtime[job[c].page]]
    /\ UNCHANGED <<bm25, memory, disk, graph, glock, job, raced, calls>>

PatchBm25(c) ==
    LET x == Home[c]  p == job[c].page IN
    /\ Goes(c, "patchBm25", IF bm25[x] = None THEN "pop" ELSE "stampBm25")
    /\ IF bm25[x] = None THEN Unlocks(c) /\ UNCHANGED bm25
       ELSE /\ bm25' = [bm25 EXCEPT ![x].corpus = _replace_bm25_doc(@, p, WordsIn(content[p]))]
            /\ UNCHANGED glock
    /\ UNCHANGED <<alias, memory, disk, graph, job, raced, calls>>

StampBm25(c) ==
    /\ Goes(c, "stampBm25", "pop") /\ Unlocks(c)
    /\ bm25' = [bm25 EXCEPT ![Home[c]].sig[job[c].page] = mtime[job[c].page]]
    /\ UNCHANGED <<alias, memory, disk, graph, job, raced, calls>>

\* patch_backlink_index_for_paths
PopCounts(c) ==
    /\ Goes(c, "pop", "unlink")
    /\ memory' = [memory EXCEPT ![Home[c]] = None]
    /\ UNCHANGED <<alias, bm25, disk, graph, glock, job, raced, calls>>

UnlinkCounts(c) ==
    /\ pc[c] = "unlink" /\ Returns(c)
    /\ disk' = None
    /\ UNCHANGED <<alias, bm25, memory, graph, glock, raced, calls>>

\* gc_generational_alias_cache: deleted pages go, then every mtime is stamped.
Gc(c) ==
    LET x == Home[c] IN
    /\ Calls(c) /\ TakesLock(c) /\ alias[x] # None
    /\ alias' = [alias EXCEPT ![x].idx = purge_stale_alias_entries(@, Live(content))]
    /\ pc' = [pc EXCEPT ![c] = "stampGc"]
    /\ UNCHANGED <<bm25, memory, disk, graph, job, raced>>

StampGc(c) ==
    LET x == Home[c] IN
    /\ Goes(c, "stampGc", "idle") /\ Unlocks(c)
    /\ alias' = [alias EXCEPT ![x].sig = Signature]
    /\ raced' = IF \E p \in Live(content) : alias[x].sig[p] # mtime[p] THEN raced \cup {x} ELSE raced
    /\ UNCHANGED <<bm25, memory, disk, graph, job, calls>>

\* clear_generational_caches; release_bm25_corpus
Clear(c) ==
    LET x == Home[c] IN
    /\ Calls(c) /\ glock[x] = None
    /\ \/ alias' = [alias EXCEPT ![x] = None] /\ raced' = raced \ {x}
       \/ UNCHANGED <<alias, raced>>
    /\ bm25' = [bm25 EXCEPT ![x] = None]
    /\ UNCHANGED <<memory, disk, graph, glock, pc, job>>

-----------------------------------------------------------------------------
(* load_incoming_backlinks *)

LoadCounts(c) ==
    /\ Calls(c)
    /\ IF memory[Home[c]] # None /\ memory[Home[c]].sig = Signature
       THEN UNCHANGED <<pc, job>>
       ELSE /\ pc' = [pc EXCEPT ![c] = "onDisk"]
            /\ job' = [job EXCEPT ![c] = [NoJob EXCEPT !.sig = Signature]]
    /\ UNCHANGED <<caches, graph, glock, raced>>

\* _load_disk; _compute_incoming_full begins when it does not fit.
LoadDisk(c) ==
    /\ pc[c] = "onDisk"
    /\ IF disk # None /\ disk.sig = job[c].sig
       THEN memory' = [memory EXCEPT ![Home[c]] = disk] /\ Returns(c)
       ELSE pc' = [pc EXCEPT ![c] = "links"] /\ Scan(c, job[c].sig) /\ UNCHANGED memory
    /\ UNCHANGED <<alias, bm25, disk, graph, glock, raced, calls>>

\* _compute_incoming_full: links to pages that were read are counted.
compute_incoming_full(shot) ==
    [q \in Pages |-> Cardinality({p \in Live(shot) : q \in Live(shot) \cap LinksIn(shot[p])})]

\* Mutant: the counts are stamped after they were computed.
SaveDiskAfter(c) ==
    /\ Scanned(c, "links") /\ pc' = [pc EXCEPT ![c] = "keep"]
    /\ disk' = [sig |-> Signature, counts |-> compute_incoming_full(job[c].shot)]
    /\ UNCHANGED <<alias, bm25, memory, graph, glock, job, raced, calls>>

SaveDisk(c) ==
    /\ Scanned(c, "links") /\ pc' = [pc EXCEPT ![c] = "keep"]
    /\ disk' = [sig |-> job[c].sig, counts |-> compute_incoming_full(job[c].shot)]
    /\ UNCHANGED <<alias, bm25, memory, graph, glock, job, raced, calls>>

KeepCounts(c) ==
    /\ pc[c] = "keep" /\ Returns(c)
    /\ memory' = [memory EXCEPT ![Home[c]] =
                    [sig |-> job[c].sig, counts |-> compute_incoming_full(job[c].shot)]]
    /\ UNCHANGED <<alias, bm25, disk, graph, glock, raced, calls>>

Next ==
    \/ \E p \in Pages : Edit(p)
    \/ \E c \in Callers :
        \/ ReadPage(c)
        \/ BuildAlias(c) \/ AliasBuilt(c) \/ BuildBm25(c) \/ Bm25Built(c)
        \/ \E p \in Pages : WritePage(c, p)
        \/ PatchAlias(c) \/ StampAlias(c) \/ PatchBm25(c) \/ StampBm25(c)
        \/ PopCounts(c) \/ UnlinkCounts(c)
        \/ Gc(c) \/ StampGc(c) \/ Clear(c)
        \/ LoadCounts(c) \/ LoadDisk(c) \/ SaveDisk(c) \/ KeepCounts(c)

Spec == Init /\ [][Next]_vars

-----------------------------------------------------------------------------
(* Properties *)

\* cached_build_alias_index, patch_generational_caches_for_paths, resolve: an
\* alias index that counts as fresh resolves every title of a page to the
\* page and an alias to a page that claims it, and calls a name safe to
\* create only when no page has or claims it.  (Excepted are indexes that
\* pages were changed under, and names that another page has claimed before.)
ResolvesAsPagesSay ==
    \A x \in Procs : AliasHit(x) /\ x \notin raced =>
        \A k \in Titles :
            LET r == resolve(alias[x].idx, k) IN
            /\ k \in Live(content) => r = k
            /\ r # None => r = k \/ k \in AliasesIn(content[r])
            /\ r = None => \A p \in Pages : k \in AliasesIn(content[p]) =>
                                \E q \in Pages \ {p} : k \in claimed[q]

\* _replace_bm25_doc, _remove_bm25_doc: whatever was patched in and out, a
\* corpus has one document for a page and counts each word's documents.
CorpusCounts ==
    \A x \in Procs : bm25[x] # None =>
        LET corpus == bm25[x].corpus IN
        /\ corpus.n = Len(corpus.docs)
        /\ \A i, j \in DOMAIN corpus.docs : corpus.docs[i].page = corpus.docs[j].page => i = j
        /\ \A w \in Words :
            corpus.df[w] = Cardinality({i \in DOMAIN corpus.docs : w \in corpus.docs[i].words})

\* load_incoming_backlinks: counts that carry the mtimes of the pages, in
\* memory or on disk, are the counts of their links, however scans, saves and
\* patches of threads and processes interleave with edits.  (Excepted is a
\* page that appeared during a scan and is gone again: no mtime tells of it.)
BacklinkHitsAreFresh ==
    created \subseteq Live(content) => \A e \in {memory[x] : x \in Procs} \cup {disk} :
        e # None /\ e.sig = Signature => e.counts = compute_incoming_full(content)
=============================================================================
