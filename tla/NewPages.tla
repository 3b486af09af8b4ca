------------------------------ MODULE NewPages ------------------------------
(***************************************************************************)
(* The operations that move blocks to another page or make pages: the      *)
(* plumber's auto split (run_auto_split) and dangling link healer          *)
(* (run_dangling_healer), the map of content (write_moc_page), the outline *)
(* written block by block (_headless_write_outline) and the split of long  *)
(* bullets into sentences (refactor_large_blocks).  The daemon runs the    *)
(* first two one after the other, the MCP server the others, while a human *)
(* edits the pages without any lock.                                       *)
(*                                                                         *)
(* A page is the sequence of its bullets with their depth; a bullet is a   *)
(* block or a link to a page, and stands for two lines: its own and its    *)
(* id::.  PageWrite models how a single commit reaches the disk.           *)
(***************************************************************************)
EXTENDS Naturals, Sequences, FiniteSets, SequencesExt, Functions

CONSTANTS
    None,
    Paths, Main,        \* page files; the one that is split and appended to
    ChildOf,            \* the page a block is split to, by title and snippet
    Target,             \* a page the healer finds a dangling link to
    Moc,                \* the map of content
    Start,              \* the bullets of Main at first
    NewBlocks,          \* blocks the human may write
    Under,              \* the block the outline goes below
    Outline,            \* its nodes, depth first, with their depth
    Threshold,          \* AutoSplitConfig.threshold
    Sentences,          \* the blocks made of the later sentences of a long one
    Fenced,             \* blocks that are text inside a code fence
    MaxBlocks,          \* max_blocks of refactor_large_blocks
    MaxEdits, MaxFaults, MaxCalls   \* bounds; MaxEdits is that of edits and faults together

Bullets(page) == {page[i].b : i \in DOMAIN page}
Nodes == Bullets(Outline)
LaterBlocks == UNION {Range(Sentences[b]) : b \in DOMAIN Sentences}
Names == Paths \cup NewBlocks \cup Nodes \cup LaterBlocks \cup Bullets(Start)
Lines == [b : Names, d : Nat, long : BOOLEAN]

\* The outline is a tree, depth first.  Its nodes are given ids of their own, the
\* block it goes below is one of the first page, and page titles are no ids.
ASSUME NewPagesAssumption ==
    /\ {Main, Target, Moc} \cup Range(ChildOf) \subseteq Paths /\ IsFiniteSet(Paths) /\ None \notin Paths
    /\ None \notin Seq(Lines)
    /\ Threshold \in Nat \ {0} /\ MaxBlocks \in Nat \ {0}
    /\ MaxEdits \in Nat /\ MaxFaults \in Nat /\ MaxCalls \in Nat
    /\ Sentences \in [DOMAIN Sentences -> Seq(Names) \ {<<>>}]
    /\ Start \in Seq(Lines)
    /\ \A i \in DOMAIN Start : Start[i].long => Start[i].b \in DOMAIN Sentences
    /\ \A i, j \in DOMAIN Start : Start[i].b = Under /\ Start[j].b = Under => i = j
    /\ Under \notin Paths \cup NewBlocks \cup Nodes \cup LaterBlocks
    /\ Outline \in Seq(Lines) \ {<<>>} /\ Outline[1].d = 0
    /\ \A i \in 1..Len(Outline) - 1 : Outline[i + 1].d <= Outline[i].d + 1
    /\ \A i, j \in DOMAIN Outline : Outline[i].b = Outline[j].b => i = j
    /\ Nodes \cap (Paths \cup NewBlocks \cup LaterBlocks \cup Bullets(Start)) = {}

VARIABLES
    pages,      \* the bullets of each page file, None when there is none
    mtime,      \* a stamp of its last write
    bak,        \* the .bak copy of each page file
    holder,     \* who holds the page's lock
    split, heal, moc, outline, large,   \* the five calls
    before, others,     \* history: Main when the outline captured it, and whether
                        \* the human or a split has written a page since
    deleted,            \* history: the blocks the human deleted
    edits, faults, calls            \* edits, crashes and calls so far

vars == <<pages, mtime, bak, holder, split, heal, moc, outline, large, before, others, deleted, edits, faults, calls>>
bounds == <<edits, faults, calls>>

Bullet(b, d) == [b |-> b, d |-> d, long |-> b \in DOMAIN Sentences]
Text(l) == {l.b} \cup (IF l.long THEN Range(Sentences[l.b]) ELSE {})
Blocks == UNION {Text(Start[i]) : i \in DOMAIN Start} \cup NewBlocks
On(p, b) == pages[p] # None /\ \E i \in DOMAIN pages[p] : pages[p][i].b = b
IndexOf(page, b) == CHOOSE i \in DOMAIN page : page[i].b = b

\* block_subtree_end, _deepest_line_end: the last bullet below bullet i.
SubtreeEnd(page, i) ==
    LET after == {j \in i + 1 .. Len(page) : page[j].d <= page[i].d}
    IN  IF after = {} THEN Len(page) ELSE (CHOOSE j \in after : \A k \in after : j <= k) - 1

Replaced(page, first, last, new) == SubSeq(page, 1, first - 1) \o new \o SubSeq(page, last + 1, Len(page))

Writes(p, content) ==
    /\ pages' = [pages EXCEPT ![p] = content]
    /\ mtime' = [mtime EXCEPT ![p] = @ + 1]

IdleSplit == [pc |-> "idle", base |-> 0, lines |-> <<>>, todo |-> {}, lone |-> {}, reused |-> FALSE, seen |-> 0]
IdleHeal == [pc |-> "idle", seen |-> 0]
IdleMoc == [pc |-> "idle", rows |-> {}, seen |-> 0]
IdleOutline == [pc |-> "idle", page |-> None, at |-> None, base |-> 0, next |-> 1,
                parent |-> <<>>, lines |-> <<>>]
IdleLarge == [pc |-> "idle", todo |-> <<>>, left |-> MaxBlocks, lines |-> <<>>, seen |-> 0]

Init ==
    /\ pages = [p \in Paths |-> IF p = Main THEN Start ELSE None]
    /\ mtime = [p \in Paths |-> 0]
    /\ bak = [p \in Paths |-> None] /\ holder = [p \in Paths |-> None]
    /\ split = IdleSplit /\ heal = IdleHeal /\ moc = IdleMoc /\ outline = IdleOutline /\ large = IdleLarge
    /\ before = <<>> /\ others = FALSE /\ deleted = {}
    /\ edits = 0 /\ faults = 0 /\ calls = 0

Locks(p, who) == holder[p] = None /\ holder' = [holder EXCEPT ![p] = who]
Unlocks(p) == holder' = [holder EXCEPT ![p] = None]
Starts == calls < MaxCalls /\ calls' = calls + 1 /\ UNCHANGED <<edits, faults>>

-----------------------------------------------------------------------------
(* Auto split *)

splitOnly == <<pages, mtime, bak, heal, moc, outline, large, before, others, deleted>>

\* occ_snapshot, before the lock.
SplitBegin ==
    /\ split.pc = "idle" /\ heal.pc = "idle" /\ pages[Main] # None /\ Starts
    /\ split' = [split EXCEPT !.pc = "lock", !.base = mtime[Main]]
    /\ UNCHANGED <<splitOnly, holder>>

\* The candidates have Threshold bullets or more; the ends are those of the
\* page as it was read.
Candidates(page) ==
    LET big == {i \in DOMAIN page : page[i].b \in DOMAIN ChildOf /\ SubtreeEnd(page, i) - i + 1 >= Threshold}
    IN  {[first |-> i, last |-> SubtreeEnd(page, i), child |-> ChildOf[page[i].b]] : i \in big}

\* The last candidate is taken first.
Current == CHOOSE c \in split.todo : \A d \in split.todo : d.first <= c.first

SplitLocks ==
    /\ split.pc = "lock" /\ Locks(Main, "split")
    /\ split' = IF mtime[Main] # split.base THEN [IdleSplit EXCEPT !.pc = "unlock"]
                ELSE [split EXCEPT !.pc = IF Candidates(pages[Main]) = {} THEN "unlock" ELSE "look",
                                   !.lines = pages[Main], !.todo = Candidates(pages[Main])]
    /\ UNCHANGED <<splitOnly, bounds>>

\* The subtree becomes an embed of the child page, in memory: one element of the
\* list, with the id:: line after it that the slice may have left of its last
\* block.  Once a block inside is embedded, the end of the slice lies further
\* down than it was: it takes bullets that follow the subtree along.
Elements(k) == 2 * k - Cardinality({i \in 1..k : split.lines[i].b \in split.lone})
Reach(c) == Max({k \in c.first..Len(split.lines) : Elements(k - 1) < 2 * c.last})
Subtree(c) == SubSeq(split.lines, c.first, Reach(c))
Embed(c) == Replaced(split.lines, c.first, Reach(c), <<Bullet(c.child, split.lines[c.first].d)>>)
Taken == [split EXCEPT !.lines = Embed(Current), !.todo = @ \ {Current},
                       !.lone = IF Elements(Reach(Current)) > 2 * Current.last THEN @ ELSE @ \cup {Current.child},
                       !.pc = IF split.todo = {Current} THEN "check" ELSE "look"]

\* new_page_path.is_file(): a child that is there is not written.
SplitLooks ==
    LET c == Current IN
    /\ split.pc = "look"
    /\ split' = IF pages[c.child] = None
                THEN [split EXCEPT !.pc = "child", !.seen = mtime[c.child]]
                ELSE [Taken EXCEPT !.reused = TRUE]
    /\ UNCHANGED <<splitOnly, holder, bounds>>

\* Mutant: the child page gets the block and not what is below it.
SplitWritesBlock ==
    LET c == Current IN
    /\ split.pc = "child"
    /\ Writes(c.child, <<Bullet(Main, 0), split.lines[c.first]>>)
    /\ split' = [Taken EXCEPT !.reused = @ \/ split.seen # mtime[c.child]] /\ others' = TRUE
    /\ UNCHANGED <<bak, heal, moc, outline, large, before, deleted, holder, bounds>>

\* The child page is written without its lock and before the parent.
SplitWritesChild ==
    LET c == Current
        base == split.lines[c.first].d
        unindented(l) == [l EXCEPT !.d = IF @ < base THEN 0 ELSE @ - base]
    IN
    /\ split.pc = "child"
    /\ Writes(c.child, <<Bullet(Main, 0)>> \o [i \in DOMAIN Subtree(c) |-> unindented(Subtree(c)[i])])
    /\ split' = [Taken EXCEPT !.reused = @ \/ split.seen # mtime[c.child]] /\ others' = TRUE
    /\ UNCHANGED <<bak, heal, moc, outline, large, before, deleted, holder, bounds>>

\* atomic_write_bytes_if_unchanged: the children stay when the page drifted.
SplitChecks ==
    /\ split.pc = "check"
    /\ split' = IF mtime[Main] # split.base THEN [IdleSplit EXCEPT !.pc = "unlock"]
                ELSE [split EXCEPT !.pc = "replace", !.seen = mtime[Main]]
    /\ UNCHANGED <<splitOnly, holder, bounds>>

SplitReplaces ==
    /\ split.pc = "replace"
    /\ Writes(Main, split.lines) /\ others' = TRUE
    /\ split' = [IdleSplit EXCEPT !.pc = "unlock"]
    /\ UNCHANGED <<bak, heal, moc, outline, large, before, deleted, holder, bounds>>

SplitEnds ==
    /\ split.pc = "unlock" /\ Unlocks(Main)
    /\ split' = IdleSplit
    /\ UNCHANGED <<splitOnly, bounds>>

Split == SplitBegin \/ SplitLocks \/ SplitLooks \/ SplitWritesChild \/ SplitChecks \/ SplitReplaces \/ SplitEnds

-----------------------------------------------------------------------------
(* Dangling link healer *)

healOnly == <<bak, split, moc, outline, large, before, others, deleted>>

\* page_file_exists, before the model is asked for a seed.
HealBegin ==
    /\ split.pc = "idle" /\ heal.pc = "idle" /\ pages[Target] = None /\ Starts
    /\ heal' = [heal EXCEPT !.pc = "lock"]
    /\ UNCHANGED <<healOnly, pages, mtime, holder>>

\* new_path.is_file(), under the lock.
HealLocks ==
    /\ heal.pc = "lock"
    /\ IF pages[Target] # None
       THEN heal' = IdleHeal /\ holder[Target] = None /\ UNCHANGED holder
       ELSE heal' = [heal EXCEPT !.pc = "write", !.seen = mtime[Target]] /\ Locks(Target, "heal")
    /\ UNCHANGED <<healOnly, pages, mtime, bounds>>

HealWrites ==
    /\ heal.pc = "write"
    /\ Writes(Target, <<Bullet(Main, 0)>>) /\ Unlocks(Target)
    /\ heal' = IdleHeal
    /\ UNCHANGED <<healOnly, bounds>>

Heal == HealBegin \/ HealLocks \/ HealWrites

-----------------------------------------------------------------------------
(* Map of content *)

mocOnly == <<split, heal, outline, large, before, others, deleted>>

\* build_moc_markdown: the page is made from a scan, before the lock.
MocBegin ==
    /\ moc.pc = "idle" /\ Starts
    /\ moc' = [moc EXCEPT !.pc = "lock", !.rows = {p \in Paths : pages[p] # None}]
    /\ UNCHANGED <<mocOnly, pages, mtime, bak, holder>>

MocLocks ==
    /\ moc.pc = "lock" /\ Locks(Moc, "moc")
    /\ moc' = [moc EXCEPT !.pc = "copy"]
    /\ UNCHANGED <<mocOnly, pages, mtime, bak, bounds>>

\* shutil.copy2 over whatever the .bak held.
MocCopies ==
    /\ moc.pc = "copy"
    /\ bak' = IF pages[Moc] = None THEN bak ELSE [bak EXCEPT ![Moc] = pages[Moc]]
    /\ moc' = [moc EXCEPT !.pc = "write", !.seen = mtime[Moc]]
    /\ UNCHANGED <<mocOnly, pages, mtime, holder, bounds>>

MocWrites ==
    /\ moc.pc = "write"
    /\ Writes(Moc, [i \in 1..Cardinality(moc.rows) |-> Bullet(SetToSeq(moc.rows)[i], 0)])
    /\ Unlocks(Moc) /\ moc' = IdleMoc
    /\ UNCHANGED <<mocOnly, bak, bounds>>

MapOfContent == MocBegin \/ MocLocks \/ MocCopies \/ MocWrites

-----------------------------------------------------------------------------
(* Outline *)

outlineOnly == <<bak, split, heal, moc, large>>

\* The page the parser's registry has a block on: when an aborted split has
\* left a copy of the block, one of the two.
Host(b) == LET on == {p \in Paths : On(p, b)} IN IF on = {} THEN None ELSE CHOOSE p \in on : TRUE
Parent == Last(outline.parent)
Ends(how) == outline' = [outline EXCEPT !.pc = how]

\* The first load of the graph; OCCSnapshot.capture of the parent's page.
OutlineBegin ==
    /\ outline.pc = "idle" /\ Host(Under) # None /\ Starts
    /\ outline' = [outline EXCEPT !.pc = "look", !.page = Host(Under), !.at = Host(Under),
                                  !.base = mtime[Host(Under)], !.parent = <<Under>>]
    /\ before' = pages[Host(Under)] /\ others' = FALSE
    /\ UNCHANGED <<outlineOnly, pages, mtime, holder, deleted>>

\* _headless_append_child: the parent is looked up and its page compared
\* with the baseline, without the lock.
OutlineLooks ==
    /\ outline.pc = "look"
    /\ IF Host(Parent) = None THEN Ends("gone")
       ELSE IF mtime[outline.page] # outline.base THEN Ends("conflict")
       ELSE outline' = [outline EXCEPT !.pc = "lock", !.at = Host(Parent)]
    /\ UNCHANGED <<outlineOnly, pages, mtime, holder, before, others, deleted, bounds>>

\* Again under the lock; the block goes below the deepest line of its parent.
\* On another page the baseline compares with an mtime that is not its own.
Appended(page, b) ==
    LET i == IndexOf(page, Parent)
        end == SubtreeEnd(page, i)
    IN  Replaced(page, end + 1, end, <<Bullet(b, page[i].d + 1)>>)

OutlineLocks ==
    /\ outline.pc = "lock" /\ holder[outline.at] = None
    /\ IF mtime[outline.page] # outline.base THEN Ends("conflict") /\ UNCHANGED holder
       ELSE IF Host(Parent) # outline.page
       THEN Ends(IF Host(Parent) = None THEN "gone" ELSE "conflict") /\ UNCHANGED holder
       ELSE /\ outline' = [outline EXCEPT !.pc = "check",
                               !.lines = Appended(pages[outline.page], Outline[outline.next].b)]
            /\ Locks(outline.at, "outline")
    /\ UNCHANGED <<outlineOnly, pages, mtime, before, others, deleted, bounds>>

OutlineChecks ==
    /\ outline.pc = "check"
    /\ IF mtime[outline.page] # outline.base THEN Ends("conflict") /\ Unlocks(outline.at)
       ELSE Ends("replace") /\ UNCHANGED holder
    /\ UNCHANGED <<outlineOnly, pages, mtime, before, others, deleted, bounds>>

OutlineReplaces ==
    /\ outline.pc = "replace"
    /\ Writes(outline.page, outline.lines)
    /\ outline' = [outline EXCEPT !.pc = "refresh", !.lines = <<>>]
    /\ UNCHANGED <<outlineOnly, holder, before, others, deleted, bounds>>

\* Mutant: the baseline stays that of the capture.
OutlineKeepsBase ==
    /\ outline.pc = "refresh" /\ Unlocks(outline.at)
    /\ Ends("chain")
    /\ UNCHANGED <<outlineOnly, pages, mtime, before, others, deleted, bounds>>

\* refresh_after_own_write takes the mtime of whatever is there.
OutlineRefreshes ==
    /\ outline.pc = "refresh" /\ Unlocks(outline.at)
    /\ outline' = [outline EXCEPT !.pc = "chain", !.base = mtime[outline.page]]
    /\ UNCHANGED <<outlineOnly, pages, mtime, before, others, deleted, bounds>>

\* _resolve_chain_parent_uuid: the walk goes on below the new block or below
\* one of its ancestors.
OutlineChains ==
    LET new == Outline[outline.next].b IN
    /\ outline.pc = "chain"
    /\ IF Host(new) = None THEN Ends("unindexed")
       ELSE IF outline.next = Len(Outline) THEN Ends("ok")
       ELSE outline' = [outline EXCEPT !.pc = "look", !.next = @ + 1,
                            !.parent = SubSeq(Append(@, new), 1, Outline[outline.next + 1].d + 1)]
    /\ UNCHANGED <<outlineOnly, pages, mtime, holder, before, others, deleted, bounds>>

WriteOutline ==
    OutlineBegin \/ OutlineLooks \/ OutlineLocks \/ OutlineChecks \/ OutlineReplaces
      \/ OutlineRefreshes \/ OutlineChains

-----------------------------------------------------------------------------
(* Split of long bullets *)

largeOnly == <<split, heal, moc, outline, before, deleted>>

\* The long bullet that stands last, outside the protected places.
Splittable(page, protected) == {i \in DOMAIN page : page[i].long /\ i \notin protected}
_collect_candidates(page, protected) ==
    {i \in Splittable(page, protected) : \A j \in Splittable(page, protected) : j <= i}

\* The block keeps its first sentence and its id; the others become children
\* before those it has.
_apply_one_split(page, i) ==
    Replaced(page, i, i,
             <<[page[i] EXCEPT !.long = FALSE]>> \o
             [k \in DOMAIN Sentences[page[i].b] |-> Bullet(Sentences[page[i].b][k], page[i].d + 1)])

\* The protected places are those of the page as it was read: what stands below
\* a split moves down, out of them or into them.
_next_split(s, protected) ==
    IF _collect_candidates(s.lines, protected) = {} THEN s
    ELSE LET i == CHOOSE i \in _collect_candidates(s.lines, protected) : TRUE IN
         [lines |-> _apply_one_split(s.lines, i), left |-> s.left - 1]
_process_page(page, left) ==
    LET protected == {i \in DOMAIN page : page[i].b \in Fenced}
        done[k \in 0..left] == IF k = 0 THEN [lines |-> page, left |-> left]
                               ELSE _next_split(done[k - 1], protected)
    IN  done[left]

\* The page that is named, or all that have a file.
LargeBegin ==
    /\ large.pc = "idle" /\ pages[Main] # None /\ Starts
    /\ \E targets \in {<<Main>>, SetToSeq({p \in Paths : pages[p] # None})} :
        large' = [large EXCEPT !.pc = "read", !.todo = targets]
    /\ UNCHANGED <<largeOnly, pages, mtime, bak, holder, others>>

LargeGoesOn(left) ==
    large' = IF Len(large.todo) = 1 \/ left = 0 THEN IdleLarge
             ELSE [IdleLarge EXCEPT !.pc = "read", !.todo = Tail(large.todo), !.left = left]

\* read_page_lines, before the lock.  A page without a candidate is left alone.
LargeReads ==
    LET page == pages[Head(large.todo)] IN
    /\ large.pc = "read"
    /\ IF _process_page(page, large.left).lines = page THEN LargeGoesOn(large.left)
       ELSE large' = [large EXCEPT !.pc = "lock", !.lines = page]
    /\ UNCHANGED <<largeOnly, pages, mtime, bak, holder, others, bounds>>

LargeLocks ==
    LET done == _process_page(large.lines, large.left) IN
    /\ large.pc = "lock" /\ Locks(Head(large.todo), "large")
    /\ large' = [large EXCEPT !.pc = "copy", !.lines = done.lines, !.left = done.left]
    /\ UNCHANGED <<largeOnly, pages, mtime, bak, others, bounds>>

LargeCopies ==
    LET p == Head(large.todo) IN
    /\ large.pc = "copy"
    /\ bak' = [bak EXCEPT ![p] = pages[p]]
    /\ large' = [large EXCEPT !.pc = "write", !.seen = mtime[p]]
    /\ UNCHANGED <<largeOnly, pages, mtime, holder, others, bounds>>

\* The page is not compared with the one that was read.
LargeWrites ==
    /\ large.pc = "write"
    /\ Writes(Head(large.todo), large.lines) /\ others' = TRUE
    /\ Unlocks(Head(large.todo)) /\ LargeGoesOn(large.left)
    /\ UNCHANGED <<largeOnly, bak, bounds>>

SplitLarge == LargeBegin \/ LargeReads \/ LargeLocks \/ LargeCopies \/ LargeWrites

-----------------------------------------------------------------------------
(* The human, and processes that die *)

callsOnly == <<bak, holder, split, heal, moc, outline, large, before>>
Edits == edits + faults < MaxEdits /\ edits' = edits + 1 /\ others' = TRUE /\ UNCHANGED <<callsOnly, faults, calls>>

Adds ==
    /\ Edits
    /\ UNCHANGED deleted
    /\ \E p \in Paths, b \in NewBlocks \ deleted :
        /\ \A q \in Paths : ~On(q, b)
        /\ IF pages[p] = None THEN Writes(p, <<Bullet(b, 0)>>)
           ELSE \E i \in DOMAIN pages[p], deeper \in {0, 1} :
                  Writes(p, Replaced(pages[p], i + 1, i, <<Bullet(b, pages[p][i].d + deeper)>>))

Deletes ==
    /\ Edits
    /\ \E p \in Paths : \E i \in DOMAIN (IF pages[p] = None THEN <<>> ELSE pages[p]) :
        /\ SubtreeEnd(pages[p], i) = i /\ Writes(p, Replaced(pages[p], i, i, <<>>))
        /\ deleted' = deleted \cup Text(pages[p][i])

Frees(who) == holder' = [p \in Paths |-> IF holder[p] \in who THEN None ELSE holder[p]]
Faults == /\ faults < MaxFaults /\ edits + faults < MaxEdits /\ faults' = faults + 1
          /\ UNCHANGED <<pages, mtime, bak, before, others, deleted, edits, calls>>

DaemonDies ==
    /\ split.pc # "idle" \/ heal.pc # "idle"
    /\ Faults /\ Frees({"split", "heal"})
    /\ split' = IdleSplit /\ heal' = IdleHeal /\ UNCHANGED <<moc, outline, large>>

ServerDies ==
    /\ moc.pc # "idle" \/ large.pc # "idle" \/ outline.pc \notin {"idle", "ok", "conflict", "gone", "unindexed", "killed"}
    /\ Faults /\ Frees({"moc", "outline", "large"})
    /\ moc' = IdleMoc /\ large' = IdleLarge
    /\ outline' = [outline EXCEPT !.pc = IF @ = "idle" THEN @ ELSE "killed"]
    /\ UNCHANGED <<split, heal>>

Next == Split \/ Heal \/ MapOfContent \/ WriteOutline \/ SplitLarge \/ Adds \/ Deletes \/ DaemonDies \/ ServerDies
Spec == Init /\ [][Next]_vars

-----------------------------------------------------------------------------
(* Properties *)

Keeps(page) == IF page = None THEN {} ELSE UNION {Text(l) : l \in Range(page)}
Held == Blocks \cap UNION {Keeps(pages[p]) \cup Keeps(bak[p]) : p \in Paths}

\* run_auto_split, write_moc_page, run_dangling_healer, _headless_write_outline,
\* refactor_large_blocks: through aborted splits, retries, kills, stale reads and
\* each other's steps, a block and each sentence of it is in the graph or in a
\* .bak until the human deletes it.  It can only go where a split finds a page
\* under the child's title and trusts it, or has overwritten one there that a
\* human made meanwhile, where a .bak is copied over another,
\* and where the human saves a page after a writer has looked at it for the last
\* time.
Late ==
    \/ split.pc = "child" /\ split.seen # mtime[Current.child]
    \/ split.pc = "replace" /\ split.seen # mtime[Main]
    \/ heal.pc = "write" /\ heal.seen # mtime[Target]
    \/ moc.pc = "write" /\ moc.seen # mtime[Moc]
    \/ outline.pc = "replace" /\ outline.base # mtime[outline.page]
    \/ large.pc = "write" /\ large.seen # mtime[Head(large.todo)]
BlocksKept ==
    [][ \/ Held \ deleted' \subseteq Held'
        \/ SplitReplaces /\ split.reused
        \/ \E p \in Paths : bak[p] \notin {None, bak'[p]}
        \/ Late ]_vars

\* _headless_write_outline: when nobody else has written since the capture, an
\* outline ends with all its blocks on the page, in its order and at its depth
\* below the parent: only another writer can make it conflict with itself.
WithOutline(page) ==
    LET i == IndexOf(page, Under)
        end == SubtreeEnd(page, i)
    IN  Replaced(page, end + 1, end,
                 [k \in DOMAIN Outline |-> Bullet(Outline[k].b, page[i].d + 1 + Outline[k].d)])
OutlineWhole ==
    outline.pc \in {"ok", "conflict", "gone", "unindexed"} /\ ~others =>
        outline.pc = "ok" /\ pages[outline.page] = WithOutline(before)
=============================================================================
