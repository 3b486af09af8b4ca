--------------------------- MODULE NewPagesProofs ---------------------------
(***************************************************************************)
(* Theorems about NewPages, for every first page, outline and set of long  *)
(* blocks and all bounds: no block is lost but where BlocksKept says, and  *)
(* an outline nobody interferes with is written whole.  Both need the map  *)
(* of content to be a page of its own: it is written blindly.              *)
(***************************************************************************)
EXTENDS NewPages, FiniteSetTheorems, SequenceTheorems, WellFoundedInduction, TLAPS

MocIsNoChild == Moc \notin Range(ChildOf)
MocIsApart == Moc # Main /\ MocIsNoChild

-----------------------------------------------------------------------------
(* Types, and what a call has in hand at a step *)

GoodLines == {l \in Lines : l.long => l.b \in DOMAIN Sentences}
Texts == Seq(GoodLines)
Files == [Paths -> Texts \cup {None}]

SplitCalls == [pc : {"idle", "lock", "look", "child", "check", "replace", "unlock"},
               base : Nat, lines : Texts, todo : SUBSET [first : Nat, last : Nat, child : Range(ChildOf)],
               lone : SUBSET Range(ChildOf), reused : BOOLEAN, seen : Nat]
HealCalls == [pc : {"idle", "lock", "write"}, seen : Nat]
MocCalls == [pc : {"idle", "lock", "copy", "write"}, rows : SUBSET Paths, seen : Nat]
OutlineEnds == {"ok", "conflict", "gone", "unindexed", "killed"}
OutlineCalls == [pc : {"idle", "look", "lock", "check", "replace", "refresh", "chain"} \cup OutlineEnds,
                 page : Paths \cup {None}, at : Paths \cup {None}, base : Nat, next : DOMAIN Outline,
                 parent : Seq(Names), lines : Texts]
LargeCalls == [pc : {"idle", "read", "lock", "copy", "write"}, todo : Seq(Paths), left : Nat,
               lines : Texts, seen : Nat]

Types ==
    /\ pages \in Files /\ bak \in Files /\ mtime \in [Paths -> Nat] /\ before \in Texts
    /\ split \in SplitCalls /\ heal \in HealCalls /\ moc \in MocCalls
    /\ outline \in OutlineCalls /\ large \in LargeCalls
    /\ others \in BOOLEAN

\* The places of the blocks a split still has to take are in order in the page
\* as it is in memory, and the call has what its next step uses.
Splitting ==
    /\ \A c \in split.todo : c.first \in DOMAIN split.lines /\ c.first <= c.last
    /\ \A c, d \in split.todo : c.first = d.first => c = d
    /\ split.pc \in {"look", "child"} => split.todo # {}
    /\ split.pc = "idle" \/ heal.pc = "idle"
Paged ==
    /\ pages[Main] # None
    /\ outline.pc = "idle" => outline.next = 1
    /\ outline.pc # "idle" =>
        /\ outline.page \in Paths /\ outline.at \in Paths /\ pages[outline.page] # None
        /\ Len(outline.parent) = Outline[outline.next].d + 1
    /\ large.pc # "idle" =>
        large.todo # <<>> /\ \A i \in DOMAIN large.todo : pages[large.todo[i]] # None

\* What a writer has seen is not newer than the page, and a page of the mtime it
\* has seen is the page it has seen.
SplitSeen ==
    /\ split.pc \in {"lock", "look", "child", "check", "replace"} => split.base <= mtime[Main]
    /\ split.pc = "child" =>
        /\ split.seen <= mtime[Current.child]
        /\ split.seen = mtime[Current.child] => pages[Current.child] = None
    /\ split.pc = "replace" => split.seen = split.base
HealSeen ==
    heal.pc = "write" =>
        /\ heal.seen <= mtime[Target]
        /\ heal.seen = mtime[Target] => pages[Target] = None
MocSeen ==
    moc.pc = "write" =>
        /\ moc.seen <= mtime[Moc]
        /\ moc.seen = mtime[Moc] => pages[Moc] \in {None, bak[Moc]}
OutlineSeen ==
    /\ outline.pc # "idle" => outline.base <= mtime[outline.page]
    /\ outline.pc \in {"check", "replace"} /\ outline.base = mtime[outline.page] =>
        Keeps(pages[outline.page]) \subseteq Keeps(outline.lines)
LargeSeen ==
    large.pc = "write" =>
        /\ large.seen <= mtime[Head(large.todo)]
        /\ large.seen = mtime[Head(large.todo)] => pages[Head(large.todo)] = bak[Head(large.todo)]
Seen == SplitSeen /\ HealSeen /\ MocSeen /\ OutlineSeen /\ LargeSeen

\* A page has a block, and whoever is about to replace the page has it too.
Carries(p, x) ==
    /\ x \in Keeps(pages[p])
    /\ outline.pc \in {"check", "replace"} /\ outline.page = p => x \in Keeps(outline.lines)
    /\ large.pc \in {"lock", "copy", "write"} /\ Head(large.todo) = p => x \in Keeps(large.lines)

\* What a split has taken out of its page is on another one.
Carried ==
    split.pc \in {"look", "child", "check", "replace"} /\ split.base = mtime[Main] /\ ~split.reused =>
        \A x \in Keeps(pages[Main]) :
            \/ x \in Keeps(split.lines) \cup deleted
            \/ \E p \in Paths \ {Main, Moc} : Carries(p, x)

KeepInv == Types /\ Splitting /\ Paged /\ Seen /\ Carried
-----------------------------------------------------------------------------
(* The outline *)

\* The block the outline goes below is on a page at most once, and nobody has the
\* nodes before the outline is written.
Once(page) == \A i, j \in DOMAIN page : page[i].b = Under /\ page[j].b = Under => i = j
Clean(page) == Once(page) /\ (outline.pc = "idle" => Nodes \cap Bullets(page) = {})
Buffers == {split.lines, outline.lines, large.lines} \cup ({pages[p] : p \in Paths} \ {None})
AllClean == \A page \in Buffers : Clean(page)

\* The block is neither on the map of content nor on a page the healer is about
\* to make.
Without(p) ==
    /\ ~On(p, Under)
    /\ outline.pc # "idle" => outline.page # p
    /\ large.pc \in {"lock", "copy", "write"} /\ Head(large.todo) = p => Under \notin Bullets(large.lines)
Placed == Without(Moc) /\ (heal.pc # "idle" => Without(Target))

\* The other pages do not have the nodes while nobody else has written.
NodesApart ==
    outline.pc # "idle" /\ ~others =>
        \A p \in Paths \ {outline.page} : \A b \in Nodes : ~On(p, b)

\* The page with the first k nodes.
WithFirst(page, k) ==
    LET i == IndexOf(page, Under)
        end == SubtreeEnd(page, i)
    IN  Replaced(page, end + 1, end, [j \in 1..k |-> Bullet(Outline[j].b, page[i].d + 1 + Outline[j].d)])

\* The place m of the chain is the last node so far of depth m - 1, and what came
\* since is deeper.
Chain ==
    /\ outline.parent[1] = Under
    /\ \A m \in 1..Outline[outline.next].d :
        \E j \in 1..outline.next - 1 :
            /\ outline.parent[m + 1] = Outline[j].b /\ Outline[j].d = m - 1
            /\ \A k \in j + 1..outline.next - 1 : Outline[k].d >= m

Captured(page) == page \in Texts /\ Once(page) /\ Under \in Bullets(page) /\ Nodes \cap Bullets(page) = {}

Walk ==
    outline.pc \notin {"idle", "killed"} /\ ~others =>
        /\ outline.pc \notin {"conflict", "gone", "unindexed"}
        /\ Captured(before) /\ Host(Under) = outline.page
        /\ outline.pc # "refresh" => outline.base = mtime[outline.page]
        /\ outline.pc \in {"look", "lock", "check", "replace"} =>
            pages[outline.page] = WithFirst(before, outline.next - 1)
        /\ outline.pc \in {"check", "replace"} => outline.lines = WithFirst(before, outline.next)
        /\ outline.pc \in {"refresh", "chain"} => pages[outline.page] = WithFirst(before, outline.next)
        /\ outline.pc = "ok" => pages[outline.page] = WithOutline(before)
        /\ outline.pc # "ok" => Chain
WholeInv == AllClean /\ Placed /\ NodesApart /\ Walk


-----------------------------------------------------------------------------
(* What the operations make of a page *)

LEMMA NoneIsNoPage == None \notin Texts /\ Texts \subseteq Seq(Lines)
<1>1. GoodLines \subseteq Lines
  BY DEF GoodLines
<1>2. Texts \subseteq Seq(Lines)
  BY <1>1 DEF Texts
<1>. QED
  BY <1>2, NewPagesAssumption DEF NewPagesAssumption

LEMMA KeepsOf ==
    ASSUME NEW s \in Texts, NEW x
    PROVE  x \in Keeps(s) <=> \E i \in DOMAIN s : x \in Text(s[i])
BY NoneIsNoPage DEF Keeps, Range

LEMMA KeepsOfNone == Keeps(None) = {}
BY DEF Keeps

\* Replaced: what stands before and behind stays, the new lines come between.
Between(r, s, first, last, new, t) ==
    /\ r \in Texts /\ Len(r) = first - 1 + Len(new) + t
    /\ \A i \in 1..first - 1 : r[i] = s[i]
    /\ \A i \in 1..Len(new) : r[first - 1 + i] = new[i]
    /\ \A i \in 1..t : r[first - 1 + Len(new) + i] = s[last + i]

LEMMA ReplacedIs ==
    ASSUME NEW s \in Texts, NEW first \in 1..Len(s) + 1, NEW last \in Nat, last >= first - 1,
           NEW new \in Texts, NEW r, r = Replaced(s, first, last, new), NEW t \in Nat,
           last < Len(s) => last + t = Len(s), last >= Len(s) => t = 0
    PROVE  Between(r, s, first, last, new, t)
<1>. DEFINE a == SubSeq(s, 1, first - 1)
            z == SubSeq(s, last + 1, Len(s))
<1>. DEFINE S == GoodLines
<1>. HIDE DEF S
<1>0. s \in Seq(S) /\ new \in Seq(S)
  BY DEF S, Texts
<1>1. a \in Seq(S) /\ Len(a) = first - 1 /\ \A i \in 1..first - 1 : a[i] = s[i]
  BY <1>0
<1>2. z \in Seq(S) /\ Len(z) = t /\ \A i \in 1..t : z[i] = s[last + i]
  <2>1. CASE last < Len(s)
    BY <1>0, <2>1
  <2>2. CASE ~(last < Len(s))
    <3>1. z = <<>>
      BY <1>0, <2>2
    <3>. QED
      BY <2>2, <3>1
  <2>. QED
    BY <2>1, <2>2
<1>3. r = a \o new \o z
  BY DEF Replaced
<1>. HIDE DEF a, z
<1>4. a \o new \in Seq(S) /\ Len(a \o new) = first - 1 + Len(new)
  <2>1. a \o new \in Seq(S)
    BY <1>0, <1>1
  <2>2. Len(a \o new) = Len(a) + Len(new)
    BY <1>0, <1>1, ConcatProperties
  <2>. QED
    BY <1>1, <2>1, <2>2
<1>5. \A i \in 1..first - 1 : (a \o new)[i] = s[i]
  BY <1>0, <1>1
<1>6. \A i \in 1..Len(new) : (a \o new)[first - 1 + i] = new[i]
  BY <1>0, <1>1
<1>. DEFINE b == a \o new
<1>7. r = b \o z
  BY <1>3
<1>. HIDE DEF b
<1>8. b \in Seq(S) /\ Len(b) = first - 1 + Len(new) /\ Len(b) \in Nat /\ Len(z) \in Nat
  BY <1>2, <1>4 DEF b
<1>9. b \in Seq(S) /\ z \in Seq(S) /\ Len(z) = t
  BY <1>2, <1>8
<1>10. r \in Seq(S) /\ Len(r) = Len(b) + Len(z) /\ \A i \in 1..Len(r) : r[i] = IF i <= Len(b) THEN b[i] ELSE z[i - Len(b)]
  <2>1. /\ b \o z \in Seq(S) /\ Len(b \o z) = Len(b) + Len(z)
        /\ \A i \in 1..Len(b) + Len(z) : (b \o z)[i] = IF i <= Len(b) THEN b[i] ELSE z[i - Len(b)]
    BY <1>9, ConcatProperties, Zenon
  <2>. QED
    BY <1>7, <2>1, Zenon
<1>11. first \in Nat \ {0} /\ Len(new) \in Nat /\ Len(b) = first - 1 + Len(new) /\ Len(b) \in Nat /\ t \in Nat
  BY <1>0, <1>8, <1>9
<1>16. r \in Seq(S) /\ Len(r) = Len(b) + Len(z)
  BY <1>10
<1>17. Len(r) = Len(b) + t /\ Len(b) + t \in Nat
  BY <1>9, <1>11, <1>16
<1>12. r \in Seq(S) /\ Len(r) \in Nat /\ Len(r) = first - 1 + Len(new) + t
  BY <1>11, <1>16, <1>17
<1>13. ASSUME NEW i \in 1..first - 1  PROVE r[i] = s[i]
  <2>. HIDE DEF b
  <2>1. i <= Len(b)
    BY <1>11
  <2>3. i \in 1..Len(r)
    BY <1>11, <1>12
  <2>2. r[i] = b[i]
    BY <1>10, <2>1, <2>3
  <2>. QED
    BY <1>5, <2>2 DEF b
<1>14. ASSUME NEW i \in 1..Len(new)  PROVE r[first - 1 + i] = new[i]
  <2>1. first - 1 + i \in 1..Len(r) /\ first - 1 + i <= Len(b)
    <3>. HIDE DEF b
    <3>. QED
      BY <1>11, <1>12
  <2>2. r[first - 1 + i] = b[first - 1 + i]
    BY <1>10, <2>1
  <2>. QED
    BY <1>6, <2>2 DEF b
<1>15. ASSUME NEW i \in 1..t  PROVE r[first - 1 + Len(new) + i] = s[last + i]
  <2>. DEFINE n == first - 1 + Len(new) + i
  <2>1. n \in 1..Len(r) /\ ~(n <= Len(b)) /\ n - Len(b) = i
    BY <1>11, <1>12
  <2>2. r[n] = z[i]
    <3>. HIDE DEF n
    <3>. QED
      BY <1>10, <2>1
  <2>. QED
    BY <1>2, <2>2
<1>18. r \in Texts
  BY <1>12 DEF S, Texts
<1>. QED
  BY <1>12, <1>18, <1>13, <1>14, <1>15 DEF Between

LEMMA EndIsBelow ==
    ASSUME NEW s \in Texts, NEW i \in DOMAIN s
    PROVE  /\ SubtreeEnd(s, i) \in i..Len(s)
           /\ \A j \in i + 1..SubtreeEnd(s, i) : s[j].d > s[i].d
           /\ SubtreeEnd(s, i) < Len(s) => s[SubtreeEnd(s, i) + 1].d <= s[i].d
<1>. DEFINE after == {j \in i + 1..Len(s) : s[j].d <= s[i].d}
            least == CHOOSE j \in after : \A k \in after : j <= k
<1>0. Len(s) \in Nat /\ DOMAIN s = 1..Len(s) /\ \A j \in DOMAIN s : s[j].d \in Nat
  BY DEF Texts, GoodLines, Lines
<1>1. CASE after = {}
  <2>1. SubtreeEnd(s, i) = Len(s)
    BY <1>1 DEF SubtreeEnd
  <2>. QED
    BY <1>0, <1>1, <2>1
<1>2. CASE after # {}
  <2>1. after \subseteq Nat
    BY <1>0
  <2>2. \E j \in after : \A k \in after : j <= k
    <3>. HIDE DEF after
    <3>1. PICK j \in after : \A k \in after : ~(<<k, j>> \in OpToRel(<, Nat))
      BY <1>2, <2>1, NatLessThanWellFounded, WFMin
    <3>2. ASSUME NEW k \in after, k < j  PROVE FALSE
      <4>1. <<k, j>> \in OpToRel(<, Nat)
        BY <2>1, <3>2 DEF OpToRel
      <4>. QED
        BY <3>1, <4>1
    <3>. QED
      BY <2>1, <3>2
  <2>3. least \in after /\ \A k \in after : least <= k
    BY <2>2
  <2>4. SubtreeEnd(s, i) = least - 1
    BY <1>2 DEF SubtreeEnd
  <2>. HIDE DEF least
  <2>. QED
    BY <1>0, <2>3, <2>4
<1>. QED
  BY <1>1, <1>2

LEMMA RestIs ==
    ASSUME NEW n \in Nat, NEW last \in Nat
    PROVE  \E t \in Nat : (last < n => last + t = n) /\ (last >= n => t = 0)
<1>1. CASE last < n
  <2>1. n - last \in Nat /\ last + (n - last) = n
    BY <1>1
  <2>. QED
    BY <1>1, <2>1
<1>2. CASE ~(last < n)
  BY <1>2
<1>. QED
  BY <1>1, <1>2

\* The same by the lines that are on the page.
LEMMA ReplacedHas ==
    ASSUME NEW s \in Texts, NEW first \in 1..Len(s) + 1, NEW last \in Nat, last >= first - 1,
           NEW new \in Texts, NEW r, r = Replaced(s, first, last, new)
    PROVE  /\ r \in Texts
           /\ \A i \in DOMAIN new : \E j \in DOMAIN r : r[j] = new[i]
           /\ \A i \in DOMAIN s \ first..last : \E j \in DOMAIN r : r[j] = s[i]
           /\ \A j \in DOMAIN r : \/ \E i \in DOMAIN new : r[j] = new[i]
                                  \/ \E i \in DOMAIN s \ first..last : r[j] = s[i]
<1>1. s \in Seq(GoodLines) /\ new \in Seq(GoodLines) /\ Len(s) \in Nat /\ Len(new) \in Nat /\ first \in Nat \ {0}
  BY DEF Texts
<1>2. PICK t \in Nat : (last < Len(s) => last + t = Len(s)) /\ (last >= Len(s) => t = 0)
  BY <1>1, RestIs
<1>10. Between(r, s, first, last, new, t)
  BY <1>2, ReplacedIs, Zenon
<1>8. /\ r \in Texts /\ Len(r) = first - 1 + Len(new) + t
      /\ \A i \in 1..first - 1 : r[i] = s[i]
      /\ \A i \in 1..Len(new) : r[first - 1 + i] = new[i]
      /\ \A i \in 1..t : r[first - 1 + Len(new) + i] = s[last + i]
  BY <1>10 DEF Between
<1>3. r \in Seq(GoodLines) /\ Len(r) = first - 1 + Len(new) + t
  BY <1>8 DEF Texts
<1>4. DOMAIN r = 1..Len(r) /\ DOMAIN s = 1..Len(s) /\ DOMAIN new = 1..Len(new) /\ Len(r) \in Nat
  BY <1>1, <1>3
<1>9. /\ Len(r) = first - 1 + Len(new) + t /\ Len(r) \in Nat /\ DOMAIN r = 1..Len(r) /\ DOMAIN new = 1..Len(new)
      /\ t \in Nat /\ first \in Nat \ {0} /\ Len(new) \in Nat
  BY <1>1, <1>3, <1>4
<1>5. ASSUME NEW i \in DOMAIN new  PROVE \E j \in DOMAIN r : r[j] = new[i]
  <2>1. first - 1 + i \in DOMAIN r
    BY <1>9
  <2>. QED
    BY <1>4, <1>8, <2>1
<1>6. ASSUME NEW i \in DOMAIN s \ first..last  PROVE \E j \in DOMAIN r : r[j] = s[i]
  <2>1. CASE i < first
    <3>1. i \in DOMAIN r /\ i \in 1..first - 1
      BY <1>4, <1>9, <2>1
    <3>. QED
      BY <1>8, <3>1
  <2>2. CASE ~(i < first)
    <3>1. i \in Nat /\ last < i /\ i <= Len(s)
      BY <1>1, <1>4, <2>2
    <3>2. last + t = Len(s)
      BY <1>1, <1>2, <3>1
    <3>3. i - last \in 1..t /\ last + (i - last) = i
      BY <1>1, <1>2, <3>1, <3>2
    <3>4. first - 1 + Len(new) + (i - last) \in DOMAIN r
      BY <1>9, <3>1, <3>3
    <3>5. r[first - 1 + Len(new) + (i - last)] = s[last + (i - last)]
      BY <1>8, <3>3
    <3>. QED
      BY <3>3, <3>4, <3>5
  <2>. QED
    BY <2>1, <2>2
<1>7. ASSUME NEW j \in DOMAIN r
      PROVE  \/ \E i \in DOMAIN new : r[j] = new[i]
             \/ \E i \in DOMAIN s \ first..last : r[j] = s[i]
  <2>1. CASE j < first
    <3>1. j \in 1..first - 1 /\ j \in DOMAIN s /\ j \notin first..last
      BY <1>1, <1>4, <2>1
    <3>. QED
      BY <1>8, <3>1
  <2>2. CASE first <= j /\ j < first + Len(new)
    <3>1. j - first + 1 \in 1..Len(new) /\ first - 1 + (j - first + 1) = j
      BY <1>1, <1>4, <2>2
    <3>2. r[first - 1 + (j - first + 1)] = new[j - first + 1]
      BY <1>8, <3>1
    <3>. QED
      BY <1>4, <3>1, <3>2
  <2>3. CASE first + Len(new) <= j
    <3>. DEFINE k == j - (first - 1 + Len(new))
    <3>1. j \in Nat /\ j <= Len(r)
      BY <1>4
    <3>2. k \in 1..t /\ first - 1 + Len(new) + k = j
      BY <1>9, <2>3, <3>1
    <3>. HIDE DEF k
    <3>3. r[j] = s[last + k]
      BY <1>8, <3>2
    <3>4. last < Len(s)
      BY <1>1, <1>2, <3>2
    <3>5. last + k \in DOMAIN s \ first..last
      BY <1>1, <1>2, <1>4, <3>2, <3>4
    <3>. QED
      BY <3>3, <3>5
  <2>. QED
    BY <1>1, <1>4, <2>1, <2>2, <2>3
<1>. QED
  BY <1>3, <1>5, <1>6, <1>7 DEF Texts

LEMMA KeepsReplaced ==
    ASSUME NEW s \in Texts, NEW first \in 1..Len(s) + 1, NEW last \in Nat, last >= first - 1,
           NEW new \in Texts, NEW r, r = Replaced(s, first, last, new)
    PROVE  /\ r \in Texts /\ Keeps(new) \subseteq Keeps(r)
           /\ \A x \in Keeps(s) : x \in Keeps(r) \/ \E i \in DOMAIN s \cap first..last : x \in Text(s[i])
           /\ Bullets(new) \subseteq Bullets(r) /\ Bullets(r) \subseteq Bullets(s) \cup Bullets(new)
<1>1. /\ r \in Texts
      /\ \A i \in DOMAIN new : \E j \in DOMAIN r : r[j] = new[i]
      /\ \A i \in DOMAIN s \ first..last : \E j \in DOMAIN r : r[j] = s[i]
      /\ \A j \in DOMAIN r : \/ \E i \in DOMAIN new : r[j] = new[i]
                             \/ \E i \in DOMAIN s \ first..last : r[j] = s[i]
  BY ReplacedHas
<1>2. Keeps(new) \subseteq Keeps(r)
  BY <1>1, KeepsOf
<1>3. ASSUME NEW x \in Keeps(s), x \notin Keeps(r)
      PROVE  \E i \in DOMAIN s \cap first..last : x \in Text(s[i])
  <2>1. PICK i \in DOMAIN s : x \in Text(s[i])
    BY KeepsOf
  <2>2. i \in first..last
    BY <1>1, <1>3, <2>1, KeepsOf
  <2>. QED
    BY <2>1, <2>2
<1>4. Bullets(new) \subseteq Bullets(r)
  BY <1>1 DEF Bullets
<1>5. Bullets(r) \subseteq Bullets(s) \cup Bullets(new)
  BY <1>1 DEF Bullets
<1>. QED
  BY <1>1, <1>2, <1>3, <1>4, <1>5

LEMMA BulletIs ==
    ASSUME NEW b \in Names, NEW d \in Nat
    PROVE  Bullet(b, d) \in GoodLines /\ b \in Text(Bullet(b, d)) /\ Bullet(b, d).b = b
<1>. DEFINE l == b \in DOMAIN Sentences
<1>1. l \in BOOLEAN
  OBVIOUS
<1>2. l = TRUE => b \in DOMAIN Sentences
  OBVIOUS
<1>3. Bullet(b, d) = [b |-> b, d |-> d, long |-> l]
  BY DEF Bullet
<1>. HIDE DEF l
<1>4. Bullet(b, d) \in Lines /\ Bullet(b, d).b = b /\ Bullet(b, d).long = l
  BY <1>1, <1>3 DEF Lines
<1>. QED
  BY <1>1, <1>2, <1>4 DEF GoodLines, Text

LEMMA OneLine ==
    ASSUME NEW l \in GoodLines
    PROVE  <<l>> \in Texts /\ DOMAIN <<l>> = {1} /\ <<l>>[1] = l /\ Len(<<l>>) = 1 /\ Keeps(<<l>>) = Text(l)
           /\ Bullets(<<l>>) = {l.b}
<1>1. <<l>> \in Texts /\ DOMAIN <<l>> = {1} /\ <<l>>[1] = l /\ Len(<<l>>) = 1
  BY DEF Texts
<1>2. \A x : x \in Keeps(<<l>>) <=> x \in Text(l)
  BY <1>1, KeepsOf
<1>3. Bullets(<<l>>) = {l.b}
  BY <1>1 DEF Bullets
<1>. QED
  BY <1>1, <1>2, <1>3

Headed(r, l, b) ==
    /\ r \in Texts /\ DOMAIN r = 1..Len(b) + 1 /\ r[1] = l
    /\ \A i \in DOMAIN b : i + 1 \in DOMAIN r /\ r[i + 1] = b[i]
    /\ \A i \in DOMAIN r : i = 1 \/ (i - 1 \in DOMAIN b /\ r[i] = b[i - 1])

LEMMA HeadedIs ==
    ASSUME NEW l \in GoodLines, NEW b \in Texts, NEW r, r = <<l>> \o b
    PROVE  Headed(r, l, b)
<1>. DEFINE a == <<l>>
<1>1. a \in Seq(GoodLines) /\ b \in Seq(GoodLines) /\ Len(a) = 1 /\ a[1] = l
  BY OneLine DEF Texts
<1>2. r = a \o b
  OBVIOUS
<1>3. Len(b) \in Nat /\ DOMAIN b = 1..Len(b)
  BY <1>1
<1>. HIDE DEF a
<1>4. /\ r \in Seq(GoodLines) /\ Len(r) = Len(a) + Len(b)
      /\ \A i \in 1..Len(a) + Len(b) : r[i] = IF i <= Len(a) THEN a[i] ELSE b[i - Len(a)]
  BY <1>1, <1>2, ConcatProperties
<1>5. DOMAIN r = 1..Len(b) + 1
  BY <1>1, <1>3, <1>4
<1>6. \A i \in 1..Len(b) + 1 : r[i] = IF i <= 1 THEN a[i] ELSE b[i - 1]
  BY <1>1, <1>3, <1>4
<1>7. r[1] = l
  BY <1>1, <1>3, <1>6
<1>8. \A i \in DOMAIN b : i + 1 \in DOMAIN r /\ r[i + 1] = b[i]
  BY <1>3, <1>5, <1>6
<1>9. \A i \in DOMAIN r : i = 1 \/ (i - 1 \in DOMAIN b /\ r[i] = b[i - 1])
  BY <1>3, <1>5, <1>6
<1>. QED
  BY <1>4, <1>5, <1>7, <1>8, <1>9 DEF Headed, Texts

LEMMA EmptyIs == <<>> \in Texts /\ DOMAIN <<>> = {} /\ Len(<<>>) = 0 /\ Keeps(<<>>) = {} /\ Bullets(<<>>) = {}
<1>1. <<>> \in Texts /\ DOMAIN <<>> = {} /\ Len(<<>>) = 0
  BY DEF Texts
<1>. QED
  BY <1>1, KeepsOf DEF Bullets

\* Lines are added with names only: the pages, the blocks, the nodes.
LEMMA NamesAre ==
    /\ Paths \subseteq Names /\ NewBlocks \subseteq Names /\ Nodes \subseteq Names
    /\ \A b \in DOMAIN Sentences : Sentences[b] \in Seq(Names) /\ Sentences[b] # <<>>
    /\ {Main, Target, Moc} \subseteq Paths /\ Range(ChildOf) \subseteq Paths
    /\ None \notin Paths /\ Outline \in Seq(Lines) /\ Outline # <<>> /\ Start \in Texts
BY NewPagesAssumption DEF NewPagesAssumption, Names, Texts, GoodLines

\* Auto split: what a split takes out is what it writes to the child.
LEMMA CandidatesAre ==
    ASSUME NEW page \in Texts
    PROVE  /\ Candidates(page) \subseteq [first : Nat, last : Nat, child : Range(ChildOf)]
           /\ \A c \in Candidates(page) : c.first \in DOMAIN page /\ c.first <= c.last
           /\ \A c, d \in Candidates(page) : c.first = d.first => c = d
<1>. DEFINE rec(i) == [first |-> i, last |-> SubtreeEnd(page, i), child |-> ChildOf[page[i].b]]
<1>1. ASSUME NEW c \in Candidates(page)
      PROVE  \E i \in DOMAIN page : page[i].b \in DOMAIN ChildOf /\ c = rec(i)
  BY DEF Candidates
<1>2. ASSUME NEW i \in DOMAIN page, page[i].b \in DOMAIN ChildOf
      PROVE  rec(i) \in [first : Nat, last : Nat, child : Range(ChildOf)] /\ rec(i).first = i /\ rec(i).last >= i
  <2>1. i \in Nat /\ SubtreeEnd(page, i) \in Nat /\ SubtreeEnd(page, i) >= i
    <3>1. Len(page) \in Nat /\ DOMAIN page = 1..Len(page)
      BY DEF Texts
    <3>2. SubtreeEnd(page, i) \in i..Len(page)
      BY EndIsBelow
    <3>. QED
      BY <3>1, <3>2
  <2>2. ChildOf[page[i].b] \in Range(ChildOf)
    BY <1>2 DEF Range
  <2>. QED
    BY <2>1, <2>2
<1>. QED
  <2>1. Candidates(page) \subseteq [first : Nat, last : Nat, child : Range(ChildOf)]
    BY <1>1, <1>2
  <2>2. \A c \in Candidates(page) : c.first \in DOMAIN page /\ c.first <= c.last
    <3>1. TAKE c \in Candidates(page)
    <3>2. PICK i \in DOMAIN page : page[i].b \in DOMAIN ChildOf /\ c = rec(i)
      BY <1>1
    <3>3. c.first = i /\ c.last >= i /\ i \in Nat
      BY <1>2, <3>2 DEF Texts
    <3>4. c \in [first : Nat, last : Nat, child : Range(ChildOf)]
      BY <2>1
    <3>. QED
      BY <3>3, <3>4
  <2>3. \A c, d \in Candidates(page) : c.first = d.first => c = d
    BY <1>1
  <2>. QED
    BY <2>1, <2>2, <2>3

LEMMA CurrentIs ==
    ASSUME Types, Splitting, split.todo # {}
    PROVE  Current \in split.todo /\ \A d \in split.todo : d.first <= Current.first
<1>. DEFINE n == Len(split.lines)
            far == {n - c.first : c \in split.todo}
<1>1. n \in Nat /\ DOMAIN split.lines = 1..n
  BY DEF Types, SplitCalls, Texts
<1>2. \A c \in split.todo : c.first \in 1..n
  BY <1>1 DEF Splitting
<1>3. far \subseteq Nat /\ far # {}
  BY <1>1, <1>2
<1>4. PICK least \in far : \A k \in far : ~(<<k, least>> \in OpToRel(<, Nat))
  <2>. HIDE DEF far
  <2>. QED
    BY <1>3, NatLessThanWellFounded, WFMin
<1>5. PICK c \in split.todo : least = n - c.first
  OBVIOUS
<1>6. ASSUME NEW d \in split.todo  PROVE d.first <= c.first
  <2>1. d.first \in 1..n /\ c.first \in 1..n /\ n - d.first \in far
    BY <1>2
  <2>2. ~(n - d.first < least)
    <3>1. ASSUME n - d.first < least  PROVE FALSE
      <4>1. <<n - d.first, least>> \in OpToRel(<, Nat)
        BY <1>3, <2>1, <3>1 DEF OpToRel
      <4>. QED
        BY <1>4, <2>1, <4>1
    <3>. QED
      BY <3>1
  <2>. QED
    BY <1>1, <1>5, <2>1, <2>2
<1>. HIDE DEF far
<1>. QED
  BY <1>6 DEF Current

\* A slice has its block, and does not reach beyond the page.
LEMMA ReachIs ==
    ASSUME NEW n \in Nat, Len(split.lines) = n, NEW c, c.first \in 1..n, c.last \in Nat, c.first <= c.last
    PROVE  Reach(c) \in c.first..n
<1>. DEFINE S == {k \in c.first..n : Elements(k - 1) < 2 * c.last}
            far == {n - k : k \in S}
            early == {i \in 1..c.first - 1 : split.lines[i].b \in split.lone}
<1>1. c.first \in S
  <2>1. IsFiniteSet(1..c.first - 1)
    <3>1. c.first - 1 \in Int /\ 1 \in Int
      OBVIOUS
    <3>. QED
      BY <3>1, FS_Interval
  <2>2. early \subseteq 1..c.first - 1
    OBVIOUS
  <2>3. Cardinality(early) \in Nat
    <3>. HIDE DEF early
    <3>. QED
      BY <2>1, <2>2, FS_Subset, FS_CardinalityType
  <2>4. Elements(c.first - 1) = 2 * (c.first - 1) - Cardinality(early)
    BY DEF Elements
  <2>. HIDE DEF early
  <2>. QED
    BY <2>3, <2>4
<1>2. S \subseteq c.first..n /\ c.first \in Nat
  OBVIOUS
<1>. HIDE DEF S
<1>3. far \subseteq Nat /\ far # {}
  BY <1>1, <1>2
<1>4. PICK least \in far : \A k \in far : ~(<<k, least>> \in OpToRel(<, Nat))
  <2>. HIDE DEF far
  <2>. QED
    BY <1>3, NatLessThanWellFounded, WFMin
<1>5. PICK k \in S : least = n - k
  OBVIOUS
<1>6. ASSUME NEW j \in S  PROVE k >= j
  <2>1. j \in 1..n /\ k \in 1..n /\ n - j \in far
    BY <1>2
  <2>2. ~(n - j < least)
    <3>1. ASSUME n - j < least  PROVE FALSE
      <4>1. <<n - j, least>> \in OpToRel(<, Nat)
        BY <1>3, <2>1, <3>1 DEF OpToRel
      <4>. QED
        BY <1>4, <2>1, <4>1
    <3>. QED
      BY <3>1
  <2>. QED
    BY <1>5, <2>1, <2>2
<1>. HIDE DEF far
<1>7. Reach(c) = Max(S)
  BY DEF Reach, S
<1>8. Max(S) \in S
  BY <1>6 DEF Max
<1>. QED
  BY <1>2, <1>7, <1>8

\* A block that is on a page once is on it once when lines are replaced, unless
\* a new line has it.
LEMMA OnceReplaced ==
    ASSUME NEW s \in Texts, NEW first \in 1..Len(s) + 1, NEW last \in Nat, last >= first - 1,
           NEW new \in Texts, NEW r, r = Replaced(s, first, last, new), Once(s),
           \A j \in DOMAIN new : new[j].b = Under => j = 1 /\ first <= last /\ first \in DOMAIN s /\ s[first].b = Under
    PROVE  Once(r)
<1>1. Len(s) \in Nat /\ Len(new) \in Nat /\ first \in Nat \ {0} /\ DOMAIN s = 1..Len(s) /\ DOMAIN new = 1..Len(new)
  BY DEF Texts
<1>2. PICK t \in Nat : (last < Len(s) => last + t = Len(s)) /\ (last >= Len(s) => t = 0)
  BY <1>1, RestIs, Zenon
<1>3. Between(r, s, first, last, new, t)
  BY <1>2, ReplacedIs, Zenon
<1>4. /\ r \in Texts /\ Len(r) = first - 1 + Len(new) + t
      /\ \A i \in 1..first - 1 : r[i] = s[i]
      /\ \A i \in 1..Len(new) : r[first - 1 + i] = new[i]
      /\ \A i \in 1..t : r[first - 1 + Len(new) + i] = s[last + i]
  BY <1>3 DEF Between
<1>5. /\ Len(r) = first - 1 + Len(new) + t /\ Len(r) \in Nat /\ DOMAIN r = 1..Len(r)
      /\ t \in Nat /\ first \in Nat \ {0} /\ Len(new) \in Nat
  BY <1>1, <1>4 DEF Texts
<1>6. ASSUME NEW j \in DOMAIN r, r[j].b = Under
      PROVE  \E o \in DOMAIN s : /\ s[o].b = Under
                                 /\ \/ j = o /\ o < first
                                    \/ j = first /\ o = first /\ first <= last
                                    \/ o > last /\ j + last = o + (first - 1 + Len(new))
  <2>0. j \in Nat /\ j >= 1 /\ j <= Len(r)
    BY <1>5
  <2>1. CASE j < first
    <3>1. j \in 1..first - 1 /\ j \in DOMAIN s
      BY <1>1, <2>0, <2>1
    <3>2. s[j].b = Under
      BY <1>4, <1>6, <3>1
    <3>. QED
      BY <2>1, <3>1, <3>2
  <2>2. CASE first <= j /\ j < first + Len(new)
    <3>1. j - first + 1 \in 1..Len(new) /\ first - 1 + (j - first + 1) = j
      BY <1>1, <2>0, <2>2
    <3>2. r[first - 1 + (j - first + 1)] = new[j - first + 1]
      BY <1>4, <3>1
    <3>3. j - first + 1 = 1 /\ first <= last /\ first \in DOMAIN s /\ s[first].b = Under
      BY <1>1, <1>6, <3>1, <3>2
    <3>4. j = first
      BY <1>1, <2>0, <3>3
    <3>. QED
      BY <3>3, <3>4
  <2>3. CASE first + Len(new) <= j
    <3>. DEFINE k == j - (first - 1 + Len(new))
    <3>2. k \in 1..t /\ first - 1 + Len(new) + k = j
      BY <1>5, <2>0, <2>3
    <3>. HIDE DEF k
    <3>3. r[j] = s[last + k]
      BY <1>4, <3>2
    <3>7. t # 0
      BY <1>5, <3>2
    <3>4. last < Len(s)
      <4>1. ~(last >= Len(s))
        BY <1>2, <3>7
      <4>2. Len(s) \in Nat
        BY <1>1
      <4>. QED
        BY <4>1, <4>2
    <3>5. last + k \in DOMAIN s /\ last + k > last
      BY <1>1, <1>2, <3>2, <3>4
    <3>6. j + last = (last + k) + (first - 1 + Len(new))
      BY <1>1, <3>2
    <3>. QED
      BY <1>6, <3>3, <3>5, <3>6
  <2>. QED
    BY <1>1, <2>0, <2>1, <2>2, <2>3
<1>7. ASSUME NEW j \in DOMAIN r, NEW k \in DOMAIN r, r[j].b = Under, r[k].b = Under
      PROVE  j = k
  <2>1. PICK o \in DOMAIN s : /\ s[o].b = Under
                              /\ \/ j = o /\ o < first
                                 \/ j = first /\ o = first /\ first <= last
                                 \/ o > last /\ j + last = o + (first - 1 + Len(new))
    BY <1>6, <1>7
  <2>2. PICK q \in DOMAIN s : /\ s[q].b = Under
                              /\ \/ k = q /\ q < first
                                 \/ k = first /\ q = first /\ first <= last
                                 \/ q > last /\ k + last = q + (first - 1 + Len(new))
    BY <1>6, <1>7
  <2>3. o = q
    BY <2>1, <2>2 DEF Once
  <2>4. j \in Nat /\ k \in Nat /\ o \in Nat
    BY <1>1, <1>5
  <2>. HIDE DEF Once
  <2>. QED
    BY <1>1, <2>1, <2>2, <2>3, <2>4
<1>. QED
  BY <1>7 DEF Once

\* Split of long bullets: each split keeps the sentences, and so do all of them.
Reworks(lines, page) ==
    /\ lines \in Texts /\ Keeps(page) \subseteq Keeps(lines)
    /\ Bullets(lines) \subseteq Bullets(page) \cup LaterBlocks
    /\ Once(page) => Once(lines)

LEMMA ApplyOneSplitIs ==
    ASSUME NEW page \in Texts, NEW i \in DOMAIN page, page[i].long
    PROVE  Reworks(_apply_one_split(page, i), page)
<1>. DEFINE l == page[i]
            first == [l EXCEPT !.long = FALSE]
            later == [k \in DOMAIN Sentences[l.b] |-> Bullet(Sentences[l.b][k], l.d + 1)]
            new == <<first>> \o later
            r == _apply_one_split(page, i)
<1>1. l \in GoodLines /\ l.b \in DOMAIN Sentences /\ l.d \in Nat /\ i \in Nat /\ i >= 1 /\ i <= Len(page) /\ Len(page) \in Nat
  BY DEF Texts, GoodLines, Lines
<1>2. Sentences[l.b] \in Seq(Names)
  BY <1>1, NamesAre
<1>3. first \in GoodLines /\ first.b = l.b /\ Text(first) = {l.b}
  BY <1>1 DEF GoodLines, Lines, Text
<1>4. later \in Texts /\ Len(later) = Len(Sentences[l.b]) /\ DOMAIN later = DOMAIN Sentences[l.b]
  <2>1. DOMAIN Sentences[l.b] = 1..Len(Sentences[l.b]) /\ Len(Sentences[l.b]) \in Nat
    BY <1>2
  <2>2. \A k \in DOMAIN Sentences[l.b] : Bullet(Sentences[l.b][k], l.d + 1) \in GoodLines
    BY <1>1, <1>2, BulletIs
  <2>3. later \in [1..Len(Sentences[l.b]) -> GoodLines]
    BY <2>1, <2>2
  <2>. HIDE DEF later
  <2>4. later \in Texts
    BY <2>1, <2>3 DEF Texts
  <2>. QED
    BY <2>1, <2>3, <2>4 DEF Texts
<1>5. \A k \in DOMAIN later : later[k].b = Sentences[l.b][k] /\ Sentences[l.b][k] \in Text(later[k])
  BY <1>1, <1>2, <1>4, BulletIs
<1>6. new = <<first>> \o later
  OBVIOUS
<1>. HIDE DEF first, later, new
<1>7. /\ new \in Texts /\ new[1] = first /\ DOMAIN new = 1..Len(later) + 1
      /\ \A k \in DOMAIN later : k + 1 \in DOMAIN new /\ new[k + 1] = later[k]
      /\ \A k \in DOMAIN new : k = 1 \/ (k - 1 \in DOMAIN later /\ new[k] = later[k - 1])
  <2>1. Headed(new, first, later)
    BY <1>3, <1>4, <1>6, HeadedIs, Zenon
  <2>. QED
    BY <2>1 DEF Headed
<1>8. r = Replaced(page, i, i, new)
  BY DEF _apply_one_split, new, first, later
<1>. HIDE DEF r
<1>9. i \in 1..Len(page) + 1 /\ i \in Nat /\ i >= i - 1
  BY <1>1
<1>10. /\ r \in Texts /\ Keeps(new) \subseteq Keeps(r)
       /\ \A x \in Keeps(page) : x \in Keeps(r) \/ \E k \in DOMAIN page \cap i..i : x \in Text(page[k])
       /\ Bullets(new) \subseteq Bullets(r) /\ Bullets(r) \subseteq Bullets(page) \cup Bullets(new)
  BY <1>7, <1>8, <1>9, KeepsReplaced
<1>11. Text(l) \subseteq Keeps(new)
  <2>1. SUFFICES ASSUME NEW x \in Text(l)  PROVE x \in Keeps(new)
    OBVIOUS
  <2>2. CASE x = l.b
    BY <1>3, <1>7, <2>2, KeepsOf
  <2>3. CASE x # l.b
    <3>1. PICK k \in DOMAIN Sentences[l.b] : x = Sentences[l.b][k]
      BY <1>1, <2>3 DEF Text, Range
    <3>2. x \in Text(new[k + 1]) /\ k + 1 \in DOMAIN new
      BY <1>4, <1>5, <1>7, <3>1
    <3>. QED
      BY <1>7, <3>2, KeepsOf
  <2>. QED
    BY <2>2, <2>3
<1>12. Keeps(page) \subseteq Keeps(r)
  BY <1>1, <1>10, <1>11
<1>13. Bullets(new) \subseteq {l.b} \cup LaterBlocks
  <2>1. SUFFICES ASSUME NEW k \in DOMAIN new  PROVE new[k].b \in {l.b} \cup LaterBlocks
    BY DEF Bullets
  <2>2. CASE k = 1
    BY <1>3, <1>7, <2>2
  <2>3. CASE k # 1
    <3>1. k - 1 \in DOMAIN later /\ new[k].b = Sentences[l.b][k - 1]
      BY <1>5, <1>7, <2>3
    <3>2. Sentences[l.b][k - 1] \in LaterBlocks
      BY <1>1, <1>4, <3>1 DEF LaterBlocks, Range
    <3>. QED
      BY <3>1, <3>2
  <2>. QED
    BY <2>2, <2>3
<1>14. Bullets(r) \subseteq Bullets(page) \cup LaterBlocks
  BY <1>10, <1>13 DEF Bullets
<1>15. ASSUME Once(page)  PROVE Once(r)
  <2>1. Under \notin LaterBlocks
    BY NewPagesAssumption DEF NewPagesAssumption
  <2>2. ASSUME NEW k \in DOMAIN new, new[k].b = Under  PROVE k = 1
    <3>1. ASSUME k # 1  PROVE FALSE
      <4>1. k - 1 \in DOMAIN later /\ new[k].b = Sentences[l.b][k - 1]
        BY <1>5, <1>7, <3>1
      <4>2. Sentences[l.b][k - 1] \in LaterBlocks
        BY <1>1, <1>4, <4>1 DEF LaterBlocks, Range
      <4>. QED
        BY <2>1, <2>2, <4>1, <4>2
    <3>. QED
      BY <3>1
  <2>3. \A k \in DOMAIN new : new[k].b = Under => k = 1 /\ i <= i /\ i \in DOMAIN page /\ page[i].b = Under
    BY <1>1, <1>3, <1>7, <2>2
  <2>. QED
    BY <1>7, <1>8, <1>9, <1>15, <2>3, OnceReplaced
<1>. QED
  BY <1>10, <1>12, <1>14, <1>15 DEF Reworks, r

Fits(s, page, left, k) == Reworks(s.lines, page) /\ s.left \in Nat /\ s.left + k >= left

LEMMA NextSplitFits ==
    ASSUME NEW page \in Texts, NEW left \in Nat, NEW k \in 1..left, NEW s, Fits(s, page, left, k - 1), NEW protected
    PROVE  Fits(_next_split(s, protected), page, left, k)
<1>. DEFINE n == _next_split(s, protected)
            i == CHOOSE i \in _collect_candidates(s.lines, protected) : TRUE
<1>1. Reworks(s.lines, page) /\ s.left \in Nat /\ s.left + (k - 1) >= left
  BY DEF Fits
<1>2. s.left - 1 \in Nat /\ s.left - 1 + k >= left /\ s.left + k >= left
  BY <1>1
<1>3. CASE _collect_candidates(s.lines, protected) = {}
  <2>1. n = s
    BY <1>3 DEF _next_split
  <2>. QED
    BY <1>1, <1>2, <2>1 DEF Fits
<1>4. CASE _collect_candidates(s.lines, protected) # {}
  <2>1. n = [lines |-> _apply_one_split(s.lines, i), left |-> s.left - 1]
    BY <1>4 DEF _next_split
  <2>2. i \in _collect_candidates(s.lines, protected)
    BY <1>4
  <2>. HIDE DEF i, n
  <2>3. i \in DOMAIN s.lines /\ s.lines[i].long
    BY <2>2 DEF _collect_candidates, Splittable
  <2>4. Reworks(_apply_one_split(s.lines, i), s.lines)
    BY <1>1, <2>3, ApplyOneSplitIs DEF Reworks
  <2>5. Reworks(_apply_one_split(s.lines, i), page)
    BY <1>1, <2>4 DEF Reworks
  <2>6. n.lines = _apply_one_split(s.lines, i) /\ n.left = s.left - 1
    BY <2>1
  <2>7. Fits(n, page, left, k)
    BY <1>2, <2>5, <2>6 DEF Fits
  <2>. QED
    BY <2>7 DEF n
<1>. QED
  BY <1>3, <1>4

LEMMA ProcessPageIs ==
    ASSUME NEW page \in Texts, NEW left \in Nat
    PROVE  Reworks(_process_page(page, left).lines, page) /\ _process_page(page, left).left \in Nat
<1>. DEFINE protected == {i \in DOMAIN page : page[i].b \in Fenced}
            first == [lines |-> page, left |-> left]
            Unfolds(f, n) == f = [k \in 0..n |-> IF k = 0 THEN first ELSE _next_split(f[k - 1], protected)]
            done == CHOOSE f : f = [k \in 0..left |-> IF k = 0 THEN [lines |-> page, left |-> left]
                                                      ELSE _next_split(f[k - 1], protected)]
            missing == {n \in Nat : ~\E f : Unfolds(f, n)}
<1>1. _process_page(page, left) = done[left]
  BY DEF _process_page
\* The splits one after the other are a function on 0..left.
<1>2. \E f : Unfolds(f, left)
  <2>1. SUFFICES ASSUME missing # {}  PROVE FALSE
    OBVIOUS
  <2>2. PICK n \in missing : \A k \in missing : ~(<<k, n>> \in OpToRel(<, Nat))
    <3>1. missing \subseteq Nat
      OBVIOUS
    <3>. HIDE DEF missing
    <3>. QED
      BY <2>1, <3>1, NatLessThanWellFounded, WFMin
  <2>3. n \in Nat /\ ~\E f : Unfolds(f, n)
    OBVIOUS
  <2>4. CASE n = 0
    <3>. DEFINE f == [k \in 0..n |-> first]
    <3>1. Unfolds(f, n)
      <4>1. \A k \in 0..n : k = 0
        BY <2>4
      <4>. HIDE DEF first
      <4>. QED
        BY <4>1
    <3>. QED
      BY <2>3, <3>1
  <2>5. CASE n # 0
    <3>1. n - 1 \in Nat /\ n - 1 < n
      BY <2>3, <2>5
    <3>2. \E f : Unfolds(f, n - 1)
      <4>1. <<n - 1, n>> \in OpToRel(<, Nat)
        BY <2>3, <3>1 DEF OpToRel
      <4>2. n - 1 \notin missing
        <5>. HIDE DEF missing
        <5>. QED
          BY <2>2, <4>1
      <4>. QED
        BY <3>1, <4>2
    <3>3. PICK f : Unfolds(f, n - 1)
      BY <3>2
    <3>. DEFINE g == [k \in 0..n |-> IF k = n THEN _next_split(f[n - 1], protected) ELSE f[k]]
    <3>. HIDE DEF first, protected
    <3>4. ASSUME NEW k \in 0..n
          PROVE  g[k] = IF k = 0 THEN first ELSE _next_split(g[k - 1], protected)
      <4>1. CASE k = 0
        <5>1. g[k] = f[0] /\ 0 \in 0..n - 1
          BY <2>5, <3>1, <4>1
        <5>2. f[0] = first
          BY <3>3, <5>1
        <5>. QED
          BY <4>1, <5>1, <5>2
      <4>2. CASE k = n
        <5>1. k - 1 \in 0..n /\ k - 1 # n /\ k # 0
          BY <2>3, <2>5, <4>2
        <5>2. g[k - 1] = f[n - 1]
          BY <4>2, <5>1
        <5>. QED
          BY <4>2, <5>1, <5>2
      <4>3. CASE k # 0 /\ k # n
        <5>1. k \in 0..n - 1 /\ k - 1 \in 0..n /\ k - 1 # n
          BY <2>3, <4>3
        <5>2. g[k] = f[k] /\ g[k - 1] = f[k - 1]
          BY <4>3, <5>1
        <5>3. f[k] = _next_split(f[k - 1], protected)
          BY <3>3, <4>3, <5>1
        <5>. QED
          BY <4>3, <5>2, <5>3
      <4>. QED
        BY <4>1, <4>2, <4>3
    <3>5. g = [k \in 0..n |-> g[k]]
      OBVIOUS
    <3>. HIDE DEF g
    <3>6. Unfolds(g, n)
      BY <3>4, <3>5
    <3>. QED
      BY <2>3, <3>6
  <2>. QED
    BY <2>4, <2>5
<1>3. Unfolds(done, left)
  BY <1>2
<1>. HIDE DEF done, protected, first, missing
<1>4. done[0] = first /\ \A k \in 1..left : done[k] = _next_split(done[k - 1], protected)
  <2>1. \A k \in 0..left : done[k] = IF k = 0 THEN first ELSE _next_split(done[k - 1], protected)
    BY <1>3
  <2>2. 0 \in 0..left /\ \A k \in 1..left : k \in 0..left /\ k # 0
    OBVIOUS
  <2>. QED
    BY <2>1, <2>2
<1>. HIDE DEF Unfolds
<1>. DEFINE bad == {n \in 0..left : ~Fits(done[n], page, left, n)}
<1>5. ASSUME bad # {}  PROVE FALSE
  <2>2. PICK n \in bad : \A k \in bad : ~(<<k, n>> \in OpToRel(<, Nat))
    <3>1. bad \subseteq Nat
      OBVIOUS
    <3>. HIDE DEF bad
    <3>. QED
      BY <1>5, <3>1, NatLessThanWellFounded, WFMin
  <2>3. n \in 0..left /\ ~Fits(done[n], page, left, n)
    OBVIOUS
  <2>4. CASE n = 0
    <3>1. Reworks(page, page)
      BY DEF Reworks
    <3>2. done[0].lines = page /\ done[0].left = left
      BY <1>4 DEF first
    <3>3. left + 0 >= left
      OBVIOUS
    <3>. QED
      BY <2>3, <2>4, <3>1, <3>2, <3>3 DEF Fits
  <2>5. CASE n # 0
    <3>1. n - 1 \in 0..left /\ n - 1 < n /\ n \in 1..left /\ n \in Nat /\ n - 1 \in Nat
      BY <2>3, <2>5
    <3>2. n - 1 \notin bad
      <4>1. <<n - 1, n>> \in OpToRel(<, Nat)
        BY <3>1 DEF OpToRel
      <4>. HIDE DEF bad
      <4>. QED
        BY <2>2, <4>1
    <3>3. Fits(done[n - 1], page, left, n - 1)
      BY <3>1, <3>2
    <3>4. Fits(_next_split(done[n - 1], protected), page, left, n)
      BY <3>1, <3>3, NextSplitFits
    <3>. QED
      BY <1>4, <2>3, <3>1, <3>4
  <2>. QED
    BY <2>4, <2>5
<1>6. Fits(done[left], page, left, left)
  <2>1. left \in 0..left
    OBVIOUS
  <2>. QED
    BY <1>5, <2>1
<1>. QED
  BY <1>1, <1>6 DEF Fits

LEMMA SetToSeqIs ==
    ASSUME NEW S, IsFiniteSet(S)
    PROVE  SetToSeq(S) \in Seq(S) /\ Len(SetToSeq(S)) = Cardinality(S) /\ Cardinality(S) \in Nat
           /\ (S # {} => SetToSeq(S) # <<>>)
<1>1. Cardinality(S) \in Nat /\ ExistsBijection(1..Cardinality(S), S)
  BY FS_CardinalityType
<1>2. PICK f \in [1..Cardinality(S) -> S] : IsInjective(f)
  BY <1>1 DEF ExistsBijection, Bijection, Injection, IsInjective
<1>3. SetToSeq(S) \in [1..Cardinality(S) -> S]
  BY <1>2 DEF SetToSeq
<1>4. Len(SetToSeq(S)) = Cardinality(S) /\ SetToSeq(S) \in Seq(S)
  BY <1>1, <1>3
<1>5. ASSUME S # {}, SetToSeq(S) = <<>>  PROVE FALSE
  <2>1. Cardinality(S) = 0
    BY <1>4, <1>5
  <2>. QED
    BY <1>5, <2>1, FS_EmptySet
<1>. QED
  BY <1>1, <1>4, <1>5

-----------------------------------------------------------------------------
(* No block is lost.  A step goes about the pages gently: only a write changes *)
(* one and it changes the mtime with it, none goes away, and a .bak is a copy  *)
(* of the page as it is.                                                       *)

Gentle ==
    \A p \in Paths :
        /\ mtime'[p] >= mtime[p]
        /\ mtime'[p] = mtime[p] => pages'[p] = pages[p]
        /\ pages[p] # None => pages'[p] # None
        /\ bak'[p] \in {bak[p], pages[p]}

LEMMA WritesIs ==
    ASSUME Types, NEW p \in Paths, NEW content \in Texts, Writes(p, content)
    PROVE  /\ pages' \in Files /\ mtime' \in [Paths -> Nat]
           /\ pages'[p] = content /\ mtime'[p] = mtime[p] + 1 /\ content # None
           /\ \A q \in Paths : q # p => pages'[q] = pages[q] /\ mtime'[q] = mtime[q]
BY NoneIsNoPage DEF Types, Files, Writes

LEMMA WritesGently ==
    ASSUME Types, NEW p \in Paths, NEW content \in Texts, Writes(p, content), UNCHANGED bak
    PROVE  Gentle
<1>1. \A q \in Paths : mtime[q] \in Nat
  BY DEF Types
<1>. QED
  BY <1>1, WritesIs DEF Gentle

LEMMA CopiesGently ==
    ASSUME Types, UNCHANGED <<pages, mtime>>, NEW p \in Paths, bak' \in {bak, [bak EXCEPT ![p] = pages[p]]}
    PROVE  Gentle /\ bak' \in Files
<1>1. \A q \in Paths : mtime[q] \in Nat
  BY DEF Types
<1>2. bak' \in Files /\ \A q \in Paths : bak'[q] \in {bak[q], pages[q]}
  BY DEF Types, Files
<1>. QED
  BY <1>1, <1>2 DEF Gentle

LEMMA StillIsGentle ==
    ASSUME Types, UNCHANGED <<pages, mtime, bak>>
    PROVE  Gentle
<1>1. \A q \in Paths : mtime[q] \in Nat
  BY DEF Types
<1>. QED
  BY <1>1 DEF Gentle

\* What a caller knows of the pages stays true when another one takes a step.
LEMMA SplitSeenStays ==
    ASSUME Types, Splitting, SplitSeen, Gentle, mtime' \in [Paths -> Nat], UNCHANGED split
    PROVE  SplitSeen'
<1>1. Main \in Paths /\ split.base \in Nat /\ mtime[Main] \in Nat /\ mtime'[Main] \in Nat
  BY NamesAre DEF Types, SplitCalls
<1>2. mtime'[Main] >= mtime[Main]
  BY <1>1 DEF Gentle
<1>3. Current' = Current
  BY DEF Current
<1>4. ASSUME split.pc = "child"
      PROVE  /\ split.seen <= mtime'[Current.child]
             /\ split.seen = mtime'[Current.child] => pages'[Current.child] = None
  <2>1. Current \in split.todo
    BY <1>4, CurrentIs DEF Splitting
  <2>2. Current.child \in Paths
    BY <2>1, NamesAre DEF Types, SplitCalls
  <2>3. split.seen \in Nat /\ mtime[Current.child] \in Nat /\ mtime'[Current.child] \in Nat
    BY <2>2 DEF Types, SplitCalls
  <2>4. /\ split.seen <= mtime[Current.child]
        /\ split.seen = mtime[Current.child] => pages[Current.child] = None
    BY <1>4 DEF SplitSeen
  <2>5. /\ mtime'[Current.child] >= mtime[Current.child]
        /\ mtime'[Current.child] = mtime[Current.child] => pages'[Current.child] = pages[Current.child]
    BY <2>2 DEF Gentle
  <2>. QED
    BY <2>3, <2>4, <2>5
<1>. QED
  BY <1>1, <1>2, <1>3, <1>4 DEF SplitSeen

LEMMA HealSeenStays ==
    ASSUME Types, HealSeen, Gentle, mtime' \in [Paths -> Nat], UNCHANGED heal
    PROVE  HealSeen'
<1>1. Target \in Paths /\ heal.seen \in Nat /\ mtime[Target] \in Nat /\ mtime'[Target] \in Nat
  BY NamesAre DEF Types, HealCalls
<1>. QED
  BY <1>1 DEF HealSeen, Gentle

LEMMA MocSeenStays ==
    ASSUME Types, MocSeen, Gentle, mtime' \in [Paths -> Nat], UNCHANGED moc
    PROVE  MocSeen'
<1>1. Moc \in Paths /\ moc.seen \in Nat /\ mtime[Moc] \in Nat /\ mtime'[Moc] \in Nat
  BY NamesAre DEF Types, MocCalls
<1>. QED
  BY <1>1 DEF MocSeen, Gentle

LEMMA OutlineSeenStays ==
    ASSUME Types, Paged, OutlineSeen, Gentle, mtime' \in [Paths -> Nat], UNCHANGED outline
    PROVE  OutlineSeen'
<1>1. CASE outline.pc = "idle"
  BY <1>1 DEF OutlineSeen
<1>2. CASE outline.pc # "idle"
  <2>1. /\ outline.page \in Paths /\ outline.base \in Nat
        /\ mtime[outline.page] \in Nat /\ mtime'[outline.page] \in Nat
    BY <1>2 DEF Types, OutlineCalls, Paged
  <2>. QED
    BY <2>1 DEF OutlineSeen, Gentle
<1>. QED
  BY <1>1, <1>2

LEMMA HeadIsPath ==
    ASSUME Types, Paged, large.pc # "idle"
    PROVE  /\ Head(large.todo) \in Paths /\ pages[Head(large.todo)] \in Texts /\ pages[Head(large.todo)] # None
           /\ large.todo # <<>> /\ large.todo \in Seq(Paths) /\ 1 \in DOMAIN large.todo /\ Head(large.todo) = large.todo[1]
<1>1. large.todo \in Seq(Paths) /\ large.todo # <<>> /\ 1 \in DOMAIN large.todo /\ Head(large.todo) = large.todo[1]
  BY DEF Types, LargeCalls, Paged
<1>2. Head(large.todo) \in Paths
  BY <1>1
<1>3. pages[Head(large.todo)] # None
  BY <1>1 DEF Paged
<1>. QED
  BY <1>1, <1>2, <1>3 DEF Types, Files

LEMMA LargeSeenStays ==
    ASSUME Types, Paged, LargeSeen, Gentle, mtime' \in [Paths -> Nat], UNCHANGED large
    PROVE  LargeSeen'
<1>1. CASE large.pc # "write"
  BY <1>1 DEF LargeSeen
<1>2. CASE large.pc = "write"
  <2>. DEFINE p == Head(large.todo)
  <2>1. p \in Paths /\ large.seen \in Nat /\ mtime[p] \in Nat /\ mtime'[p] \in Nat
    BY <1>2, HeadIsPath DEF Types, LargeCalls
  <2>2. large.seen <= mtime[p] /\ (large.seen = mtime[p] => pages[p] = bak[p])
    BY <1>2 DEF LargeSeen
  <2>3. p' = p
    OBVIOUS
  <2>. HIDE DEF p
  <2>4. /\ mtime'[p] >= mtime[p] /\ (mtime'[p] = mtime[p] => pages'[p] = pages[p])
        /\ bak'[p] \in {bak[p], pages[p]}
    BY <2>1 DEF Gentle
  <2>5. large.seen <= mtime'[p] /\ (large.seen = mtime'[p] => pages'[p] = bak'[p])
    BY <2>1, <2>2, <2>4
  <2>. QED
    BY <1>2, <2>3, <2>5 DEF LargeSeen, p
<1>. QED
  BY <1>1, <1>2

LEMMA PagedStays ==
    ASSUME Types, Paged, Gentle, UNCHANGED <<outline, large>>
    PROVE  Paged'
<1>1. pages'[Main] # None
  BY NamesAre DEF Paged, Gentle
<1>2. ASSUME outline.pc # "idle"
      PROVE  /\ outline.page \in Paths /\ outline.at \in Paths /\ pages'[outline.page] # None
             /\ Len(outline.parent) = Outline[outline.next].d + 1
  BY <1>2 DEF Paged, Gentle
<1>3. ASSUME large.pc # "idle"
      PROVE  large.todo # <<>> /\ \A i \in DOMAIN large.todo : pages'[large.todo[i]] # None
  <2>1. large.todo \in Seq(Paths) /\ \A i \in DOMAIN large.todo : large.todo[i] \in Paths
    BY DEF Types, LargeCalls
  <2>. QED
    BY <1>3, <2>1 DEF Paged, Gentle
<1>4. outline.pc = "idle" => outline.next = 1
  BY DEF Paged
<1>. QED
  BY <1>1, <1>2, <1>3, <1>4 DEF Paged

\* So does what a split has moved, as long as the page it is on loses nothing.
LEMMA CarriedStays ==
    ASSUME KeepInv, Gentle, mtime' \in [Paths -> Nat], UNCHANGED split, deleted \subseteq deleted',
           split.pc # "idle" =>
               \A p \in Paths \ {Main, Moc} : \A x : Carries(p, x) => x \in deleted' \/ Carries(p, x)'
    PROVE  Carried'
<1>1. SUFFICES ASSUME split.pc \in {"look", "child", "check", "replace"}, split.base = mtime'[Main], ~split.reused,
                      NEW x \in Keeps(pages[Main])'
               PROVE  \/ x \in Keeps(split.lines) \cup deleted'
                      \/ \E p \in Paths \ {Main, Moc} : Carries(p, x)'
  BY DEF Carried
<1>2. Main \in Paths /\ split.base \in Nat /\ mtime[Main] \in Nat /\ mtime'[Main] \in Nat
  BY NamesAre DEF KeepInv, Types, SplitCalls
<1>3. split.base <= mtime[Main]
  BY <1>1 DEF KeepInv, Seen, SplitSeen
<1>4. mtime'[Main] = mtime[Main] /\ pages'[Main] = pages[Main]
  BY <1>1, <1>2, <1>3 DEF Gentle
<1>5. x \in Keeps(pages[Main])
  BY <1>1, <1>4 DEF Keeps
<1>6. \/ x \in Keeps(split.lines) \cup deleted
      \/ \E p \in Paths \ {Main, Moc} : Carries(p, x)
  BY <1>1, <1>4, <1>5 DEF KeepInv, Carried
<1>. QED
  BY <1>1, <1>6

LEMMA KeepInit == Init => KeepInv
<1>. SUFFICES ASSUME Init  PROVE KeepInv
  OBVIOUS
<1>1. Start \in Texts /\ <<>> \in Texts /\ Main \in Paths
  BY NamesAre, EmptyIs
<1>2. /\ pages = [p \in Paths |-> IF p = Main THEN Start ELSE None]
      /\ mtime = [p \in Paths |-> 0] /\ bak = [p \in Paths |-> None]
      /\ split = IdleSplit /\ heal = IdleHeal /\ moc = IdleMoc /\ outline = IdleOutline /\ large = IdleLarge
      /\ before = <<>> /\ others = FALSE
  BY DEF Init
<1>3. split \in SplitCalls
  BY <1>1, <1>2 DEF SplitCalls, IdleSplit
<1>4. heal \in HealCalls /\ moc \in MocCalls
  BY <1>2 DEF HealCalls, IdleHeal, MocCalls, IdleMoc
<1>5. outline \in OutlineCalls
  <2>1. 1 \in DOMAIN Outline
    BY NamesAre
  <2>2. <<>> \in Seq(Names)
    OBVIOUS
  <2>. QED
    BY <1>1, <1>2, <2>1, <2>2 DEF OutlineCalls, IdleOutline
<1>6. large \in LargeCalls
  <2>1. MaxBlocks \in Nat
    BY NewPagesAssumption DEF NewPagesAssumption
  <2>2. <<>> \in Seq(Paths)
    OBVIOUS
  <2>. QED
    BY <1>1, <1>2, <2>1, <2>2 DEF LargeCalls, IdleLarge
<1>7. pages \in Files /\ bak \in Files /\ mtime \in [Paths -> Nat]
  BY <1>1, <1>2 DEF Files
<1>8. Types
  BY <1>1, <1>2, <1>3, <1>4, <1>5, <1>6, <1>7 DEF Types
<1>9. split.pc = "idle" /\ split.todo = {} /\ heal.pc = "idle" /\ moc.pc = "idle" /\ outline.pc = "idle" /\ large.pc = "idle"
  BY <1>2 DEF IdleSplit, IdleHeal, IdleMoc, IdleOutline, IdleLarge
<1>10. Splitting
  BY <1>9 DEF Splitting
<1>11. Paged
  BY <1>1, <1>2, <1>9, NoneIsNoPage DEF Paged, IdleOutline
<1>12. Seen /\ Carried
  BY <1>9 DEF Seen, SplitSeen, HealSeen, MocSeen, OutlineSeen, LargeSeen, Carried
<1>. QED
  BY <1>8, <1>10, <1>11, <1>12 DEF KeepInv

\* The calls that take no part in a step.
LEMMA OthersStay ==
    ASSUME KeepInv, Gentle, pages' \in Files, bak' \in Files, mtime' \in [Paths -> Nat]
    PROVE  /\ UNCHANGED split => SplitSeen' /\ (UNCHANGED heal => Splitting')
           /\ UNCHANGED heal => HealSeen' /\ heal' \in HealCalls
           /\ UNCHANGED moc => MocSeen' /\ moc' \in MocCalls
           /\ UNCHANGED outline => OutlineSeen' /\ outline' \in OutlineCalls
           /\ UNCHANGED large => LargeSeen' /\ large' \in LargeCalls
           /\ UNCHANGED <<outline, large>> => Paged'
           /\ UNCHANGED split => split' \in SplitCalls
<1>1. Types /\ Splitting /\ Paged /\ SplitSeen /\ HealSeen /\ MocSeen /\ OutlineSeen /\ LargeSeen
  BY DEF KeepInv, Seen
<1>2. UNCHANGED <<split, heal>> => Splitting'
  BY <1>1 DEF Splitting
<1>. QED
  BY <1>1, <1>2, SplitSeenStays, HealSeenStays, MocSeenStays, OutlineSeenStays, LargeSeenStays, PagedStays DEF Types

\* The child page has what stood below the block in memory.
LEMMA ChildIs ==
    ASSUME split \in SplitCalls, NEW c, c.first \in DOMAIN split.lines, c.first \in Nat,
           Reach(c) \in c.first..Len(split.lines),
           NEW base, base = split.lines[c.first].d,
           NEW below, below = [i \in DOMAIN Subtree(c) |->
                                  [Subtree(c)[i] EXCEPT !.d = IF @ < base THEN 0 ELSE @ - base]]
    PROVE  /\ <<Bullet(Main, 0)>> \o below \in Texts
           /\ \A i \in DOMAIN split.lines \cap c.first..Reach(c) :
                  Text(split.lines[i]) \subseteq Keeps(<<Bullet(Main, 0)>> \o below)
           /\ Bullets(<<Bullet(Main, 0)>> \o below) \subseteq Paths \cup Bullets(split.lines)
           /\ Once(split.lines) => Once(<<Bullet(Main, 0)>> \o below)
<1>. DEFINE s == split.lines
            n == Reach(c)
            f == c.first
            sub == Subtree(c)
            head == <<Bullet(Main, 0)>>
            child == head \o below
            line(l) == [l EXCEPT !.d = IF @ < base THEN 0 ELSE @ - base]
<1>1. s \in Seq(GoodLines) /\ Len(s) \in Nat /\ DOMAIN s = 1..Len(s) /\ \A i \in DOMAIN s : s[i] \in GoodLines /\ s[i].d \in Nat
  BY DEF SplitCalls, Texts, GoodLines, Lines
<1>2. base \in Nat /\ n \in Nat /\ n <= Len(s)
  BY <1>1
<1>3. sub = SubSeq(s, f, n)
  BY DEF Subtree
<1>0. f \in Nat /\ f \in DOMAIN s /\ f >= 1 /\ f <= Len(s)
  BY <1>1
<1>. HIDE DEF s, n, sub, f
<1>4. sub \in Seq(GoodLines) /\ Len(sub) \in Nat /\ DOMAIN sub = 1..Len(sub) /\ \A i \in DOMAIN sub : sub[i] = s[f + i - 1]
  <2>1. f \in Int /\ n \in Int /\ \A i \in f..n : i \in 1..Len(s)
    BY <1>0, <1>1, <1>2
  <2>2. \A i \in f..n : s[i] \in GoodLines
    BY <1>1, <2>1, Zenon
  <2>3. /\ sub \in Seq(GoodLines) /\ Len(sub) = IF f <= n THEN n - f + 1 ELSE 0
        /\ \A i \in 1..n - f + 1 : sub[i] = s[f + i - 1]
    BY <1>3, <2>1, <2>2, SubSeqProperties
  <2>4. Len(sub) \in Nat /\ DOMAIN sub = 1..Len(sub)
    BY <2>3
  <2>5. \A i \in 1..Len(sub) : i \in 1..n - f + 1
    BY <2>1, <2>3
  <2>. QED
    BY <2>3, <2>4, <2>5, Zenon
<1>5. Len(sub) = IF f <= n THEN n - f + 1 ELSE 0
  BY <1>0, <1>1, <1>2, <1>3
<1>15. ASSUME NEW k \in DOMAIN sub  PROVE f + k - 1 \in DOMAIN s
  <2>1. k \in 1..Len(sub) /\ Len(sub) \in Nat
    BY <1>4
  <2>2. DOMAIN s = 1..Len(s) /\ Len(s) \in Nat
    BY <1>1
  <2>. QED
    BY <1>0, <1>2, <1>5, <2>1, <2>2, SMTT(30)
<1>6. ASSUME NEW l \in GoodLines
      PROVE  line(l) \in GoodLines /\ line(l).b = l.b /\ Text(line(l)) = Text(l)
  <2>. DEFINE d == IF l.d < base THEN 0 ELSE l.d - base
  <2>1. d \in Nat
    BY <1>2 DEF GoodLines, Lines
  <2>2. line(l) = [l EXCEPT !.d = d]
    OBVIOUS
  <2>. HIDE DEF d
  <2>3. line(l) \in GoodLines /\ line(l).b = l.b /\ line(l).long = l.long
    BY <2>1, <2>2, SMTT(30) DEF GoodLines, Lines
  <2>. HIDE DEF line
  <2>. QED
    BY <2>3 DEF Text
<1>7. below = [i \in DOMAIN sub |-> line(sub[i])]
  BY DEF sub
<1>. HIDE DEF line
<1>8. /\ below \in Texts /\ DOMAIN below = DOMAIN sub /\ Len(below) = Len(sub)
      /\ \A i \in DOMAIN sub : below[i].b = sub[i].b /\ Text(below[i]) = Text(sub[i])
  <2>1. \A i \in 1..Len(sub) : line(sub[i]) \in GoodLines
    BY <1>4, <1>6
  <2>2. below \in [1..Len(sub) -> GoodLines]
    BY <1>4, <1>7, <2>1
  <2>3. below \in Texts /\ DOMAIN below = DOMAIN sub /\ Len(below) = Len(sub)
    BY <1>4, <2>2 DEF Texts
  <2>4. \A i \in DOMAIN sub : sub[i] \in GoodLines /\ below[i] = line(sub[i])
    BY <1>4, <1>7
  <2>. QED
    BY <1>6, <2>3, <2>4, Zenon
<1>9. Bullet(Main, 0) \in GoodLines /\ Bullet(Main, 0).b = Main /\ Main \in Paths
  BY BulletIs, NamesAre
<1>10. child = <<Bullet(Main, 0)>> \o below
  OBVIOUS
<1>. HIDE DEF head, child
<1>16. /\ child \in Texts /\ DOMAIN child = 1..Len(below) + 1 /\ child[1] = Bullet(Main, 0)
       /\ \A i \in DOMAIN below : i + 1 \in DOMAIN child /\ child[i + 1] = below[i]
       /\ \A j \in DOMAIN child : j = 1 \/ (j - 1 \in DOMAIN below /\ child[j] = below[j - 1])
  <2>1. Headed(child, Bullet(Main, 0), below)
    BY <1>8, <1>9, <1>10, HeadedIs, Zenon
  <2>. QED
    BY <2>1, Zenon DEF Headed
<1>11. /\ child \in Texts /\ DOMAIN child = 1..1 + Len(sub) /\ child[1] = Bullet(Main, 0)
       /\ \A i \in DOMAIN sub : i + 1 \in DOMAIN child /\ child[i + 1] = below[i]
       /\ \A j \in DOMAIN child : j = 1 \/ (j - 1 \in DOMAIN sub /\ child[j] = below[j - 1])
  <2>1. 1..Len(below) + 1 = 1..1 + Len(sub)
    BY <1>4, <1>8
  <2>. QED
    BY <1>8, <1>16, <2>1
<1>12. ASSUME NEW i \in DOMAIN s \cap f..n  PROVE Text(s[i]) \subseteq Keeps(child)
  <2>1. i \in Nat /\ i >= f /\ i <= n
    BY <1>1, <1>2, <1>12
  <2>2. i - f + 1 \in DOMAIN sub /\ f + (i - f + 1) - 1 = i
    BY <1>0, <1>2, <1>4, <1>5, <2>1, SMTT(30)
  <2>4. sub[i - f + 1] = s[i]
    BY <1>4, <2>2
  <2>3. Text(child[(i - f + 1) + 1]) = Text(s[i]) /\ (i - f + 1) + 1 \in DOMAIN child
    BY <1>8, <1>11, <2>2, <2>4, Zenon
  <2>. QED
    BY <1>11, <2>3, KeepsOf
<1>13. Bullets(child) \subseteq Paths \cup Bullets(s)
  <2>1. SUFFICES ASSUME NEW j \in DOMAIN child  PROVE child[j].b \in Paths \cup Bullets(s)
    BY DEF Bullets
  <2>2. CASE j = 1
    BY <1>9, <1>11, <2>2
  <2>3. CASE j # 1
    <3>1. j - 1 \in DOMAIN sub /\ child[j].b = sub[j - 1].b
      BY <1>8, <1>11, <2>3, Zenon
    <3>2. f + (j - 1) - 1 \in DOMAIN s
      BY <3>1, <1>15
    <3>. QED
      BY <1>4, <3>1, <3>2 DEF Bullets
  <2>. QED
    BY <2>2, <2>3
<1>14. ASSUME Once(s)  PROVE Once(child)
  <2>1. Main # Under
    BY NamesAre, NewPagesAssumption DEF NewPagesAssumption
  <2>2. ASSUME NEW j \in DOMAIN child, child[j].b = Under
        PROVE  j \in Nat /\ j - 1 \in DOMAIN sub /\ s[f + (j - 1) - 1].b = Under /\ f + (j - 1) - 1 \in DOMAIN s
    <3>1. j - 1 \in DOMAIN sub /\ child[j].b = sub[j - 1].b
      BY <1>8, <1>9, <1>11, <2>1, <2>2, Zenon
    <3>2. f + (j - 1) - 1 \in DOMAIN s /\ j \in Nat
      <4>1. j \in 1..1 + Len(sub)
        BY <1>11
      <4>. QED
        BY <1>4, <1>15, <3>1, <4>1
    <3>. QED
      BY <1>4, <2>2, <3>1, <3>2
  <2>3. ASSUME NEW j \in DOMAIN child, NEW k \in DOMAIN child, child[j].b = Under, child[k].b = Under
        PROVE  j = k
    <3>1. f + (j - 1) - 1 = f + (k - 1) - 1
      BY <1>14, <2>2, <2>3 DEF Once
    <3>2. j \in Nat /\ k \in Nat
      BY <2>2, <2>3
    <3>. QED
      BY <1>0, <3>1, <3>2
  <2>. QED
    BY <2>3 DEF Once
<1>. QED
  BY <1>11, <1>12, <1>13, <1>14 DEF child, head, s, f, n

\* A split takes its last candidate: what stood below it is not in memory any more.
LEMMA TakenIs ==
    ASSUME KeepInv, split.pc \in {"look", "child"}
    PROVE  /\ Current \in split.todo /\ Current.child \in Paths /\ Current.child \in Range(ChildOf)
           /\ Current.first \in DOMAIN split.lines /\ Current.first \in Nat
           /\ Reach(Current) \in Current.first..Len(split.lines)
           /\ Taken \in SplitCalls /\ Taken.pc \in {"look", "check"} /\ Taken.base = split.base
           /\ Taken.lines = Embed(Current) /\ Taken.reused = split.reused
           /\ Taken.todo = split.todo \ {Current} /\ (Taken.pc = "look" => Taken.todo # {})
           /\ \A d \in Taken.todo : d.first \in DOMAIN Embed(Current)
           /\ \A x \in Keeps(split.lines) :
                  \/ x \in Keeps(Embed(Current))
                  \/ \E i \in DOMAIN split.lines \cap Current.first..Reach(Current) : x \in Text(split.lines[i])
           /\ Embed(Current) \in Texts
           /\ Bullets(Embed(Current)) \subseteq Bullets(split.lines) \cup Paths
           /\ Once(split.lines) => Once(Embed(Current))
<1>. DEFINE c == Current
            s == split.lines
            new == <<Bullet(c.child, s[c.first].d)>>
            r == Embed(c)
            n == Reach(c)
            lone == IF Elements(n) > 2 * c.last THEN split.lone ELSE split.lone \cup {c.child}
<1>0. Types /\ Splitting /\ split \in SplitCalls /\ s \in Texts
  BY DEF KeepInv, Types, SplitCalls
<1>1. c \in split.todo /\ \A d \in split.todo : d.first <= c.first
  BY <1>0, CurrentIs DEF Splitting
<1>. HIDE DEF c
<1>2. /\ c \in [first : Nat, last : Nat, child : Range(ChildOf)]
      /\ c.first \in DOMAIN s /\ c.first <= c.last
  BY <1>0, <1>1 DEF SplitCalls, Splitting
<1>3. c.child \in Range(ChildOf) /\ c.child \in Paths /\ c.child \in Names /\ c.first \in Nat /\ c.last \in Nat
  BY <1>2, NamesAre
<1>4. DOMAIN s = 1..Len(s) /\ Len(s) \in Nat /\ s[c.first] \in GoodLines /\ s[c.first].d \in Nat
  <2>1. DOMAIN s = 1..Len(s) /\ Len(s) \in Nat /\ s[c.first] \in GoodLines
    BY <1>0, <1>2 DEF Texts
  <2>. QED
    BY <2>1 DEF GoodLines, Lines
<1>reach. n \in c.first..Len(s) /\ n \in Nat
  <2>1. n \in c.first..Len(s)
    BY <1>2, <1>3, <1>4, ReachIs
  <2>. QED
    BY <1>3, <1>4, <2>1
<1>lone. lone \in SUBSET Range(ChildOf)
  BY <1>0, <1>3 DEF SplitCalls
<1>5. Bullet(c.child, s[c.first].d) \in GoodLines /\ Bullet(c.child, s[c.first].d).b = c.child
  BY <1>3, <1>4, BulletIs
<1>6. /\ new \in Texts /\ Len(new) = 1 /\ DOMAIN new = {1} /\ new[1].b = c.child /\ Bullets(new) = {c.child}
  BY <1>5, OneLine
<1>. HIDE DEF s
<1>7. r = Replaced(s, c.first, n, new)
  BY DEF Embed, s
<1>. HIDE DEF new, r, n, lone
<1>8. c.first \in 1..Len(s) + 1 /\ n >= c.first - 1
  BY <1>2, <1>3, <1>4, <1>reach
<1>9. /\ r \in Texts
      /\ \A x \in Keeps(s) : x \in Keeps(r) \/ \E i \in DOMAIN s \cap c.first..n : x \in Text(s[i])
      /\ Bullets(r) \subseteq Bullets(s) \cup Bullets(new)
  BY <1>0, <1>3, <1>6, <1>7, <1>8, <1>reach, KeepsReplaced
<1>10. Len(r) \in Nat /\ Len(r) >= c.first /\ DOMAIN r = 1..Len(r)
  <2>1. PICK t \in Nat : (n < Len(s) => n + t = Len(s)) /\ (n >= Len(s) => t = 0)
    BY <1>4, <1>reach, RestIs, Zenon
  <2>2. Between(r, s, c.first, n, new, t)
    <3>1. \E u \in {c.first} : u = c.first
      OBVIOUS
    <3>. QED
      BY <1>0, <1>3, <1>6, <1>7, <1>8, <1>reach, <2>1, ReplacedIs
  <2>3. Len(r) = c.first - 1 + Len(new) + t
    BY <2>2 DEF Between
  <2>. QED
    BY <1>3, <1>6, <1>9, <2>3, SMTT(30) DEF Texts
<1>11. ASSUME NEW d \in split.todo \ {c}  PROVE d.first \in DOMAIN r
  <2>1. d.first <= c.first /\ d.first \in DOMAIN s
    BY <1>0, <1>1 DEF Splitting, s
  <2>2. d.first \in Nat /\ d.first >= 1
    BY <1>4, <2>1
  <2>. QED
    BY <1>3, <1>10, <2>1, <2>2
<1>12. ASSUME Once(s)  PROVE Once(r)
  <2>1. Under \notin Paths
    BY NewPagesAssumption DEF NewPagesAssumption
  <2>2. \A j \in DOMAIN new : new[j].b # Under
    BY <1>3, <1>6, <2>1
  <2>. QED
    BY <1>0, <1>3, <1>6, <1>7, <1>8, <1>12, <1>reach, <2>2, OnceReplaced
<1>. DEFINE pc == IF split.todo = {c} THEN "check" ELSE "look"
<1>13. pc \in {"look", "check"} /\ (pc = "look" => split.todo \ {c} # {})
  BY <1>1
<1>14. Taken = [split EXCEPT !.lines = r, !.todo = @ \ {c}, !.lone = lone, !.pc = pc]
  BY DEF Taken, c, r, n, lone
<1>. HIDE DEF pc
<1>15. /\ Taken \in SplitCalls /\ Taken.pc = pc /\ Taken.base = split.base /\ Taken.lines = r
       /\ Taken.reused = split.reused /\ Taken.todo = split.todo \ {c}
  <2>1. split.todo \ {c} \in SUBSET [first : Nat, last : Nat, child : Range(ChildOf)]
    BY <1>0 DEF SplitCalls
  <2>2. pc \in {"idle", "lock", "look", "child", "check", "replace", "unlock"}
    BY <1>13
  <2>. QED
    BY <1>0, <1>9, <1>14, <1>lone, <2>1, <2>2 DEF SplitCalls
<1>. QED
  BY <1>1, <1>2, <1>3, <1>6, <1>9, <1>11, <1>12, <1>13, <1>15, <1>reach DEF c, s, r, n

LEMMA SplitKeeps ==
    ASSUME MocIsNoChild, KeepInv, Split
    PROVE  KeepInv'
<1>0. Types /\ Splitting /\ Paged /\ Seen /\ Carried
  BY DEF KeepInv
<1>1. /\ UNCHANGED <<heal, moc, outline, large, before, deleted, bak>>
      /\ split \in SplitCalls /\ Main \in Paths /\ pages[Main] \in Texts /\ mtime[Main] \in Nat
      /\ bak' \in Files
  <2>1. UNCHANGED <<heal, moc, outline, large, before, deleted, bak>>
    BY DEF Split, SplitBegin, SplitLocks, SplitLooks, SplitWritesChild, SplitChecks, SplitReplaces, SplitEnds, splitOnly
  <2>2. split \in SplitCalls /\ Main \in Paths /\ pages[Main] \in Texts /\ mtime[Main] \in Nat
    BY <1>0, NamesAre DEF Types, Files, Paged
  <2>. QED
    BY <1>0, <2>1, <2>2 DEF Types
\* What is left to show of a step: the split itself.
<1>2. ASSUME Gentle, pages' \in Files, mtime' \in [Paths -> Nat], others' \in BOOLEAN,
             split' \in SplitCalls, Splitting', SplitSeen', Carried'
      PROVE  KeepInv'
  <2>1. HealSeen' /\ MocSeen' /\ OutlineSeen' /\ LargeSeen' /\ Paged'
    BY <1>1, <1>2, OthersStay
  <2>2. Types'
    BY <1>0, <1>1, <1>2 DEF Types
  <2>. QED
    BY <1>2, <2>1, <2>2 DEF KeepInv, Seen
<1>. DEFINE Still == UNCHANGED <<pages, mtime, bak, others>>
<1>3. ASSUME Still, split' \in SplitCalls, Splitting', SplitSeen', Carried'
      PROVE  KeepInv'
  <2>1. Gentle
    BY <1>0, <1>3, StillIsGentle
  <2>2. pages' \in Files /\ mtime' \in [Paths -> Nat] /\ others' \in BOOLEAN
    BY <1>0, <1>3 DEF Types
  <2>. QED
    BY <1>2, <1>3, <2>1, <2>2
<1>4. IdleSplit \in SplitCalls /\ [IdleSplit EXCEPT !.pc = "unlock"] \in SplitCalls
  <2>1. <<>> \in Texts
    BY EmptyIs
  <2>. QED
    BY <2>1 DEF SplitCalls, IdleSplit
<1>5. ASSUME split' = IdleSplit \/ split' = [IdleSplit EXCEPT !.pc = "unlock"], split.pc # "idle"
      PROVE  split' \in SplitCalls /\ Splitting' /\ SplitSeen' /\ Carried'
  <2>1. split' \in SplitCalls
    BY <1>4, <1>5
  <2>2. split'.pc \in {"idle", "unlock"} /\ split'.todo = {}
    BY <1>5 DEF IdleSplit
  <2>3. heal'.pc = "idle"
    BY <1>0, <1>1, <1>5 DEF Splitting
  <2>. QED
    BY <2>1, <2>2, <2>3 DEF Splitting, SplitSeen, Carried
<1>6. CASE SplitBegin
  <2>1. Still /\ split' = [split EXCEPT !.pc = "lock", !.base = mtime[Main]] /\ split.pc = "idle" /\ heal.pc = "idle"
    BY <1>6 DEF SplitBegin, splitOnly
  <2>2. split' \in SplitCalls /\ split'.pc = "lock" /\ split'.base = mtime[Main] /\ split'.todo = split.todo /\ split'.lines = split.lines
    BY <1>1, <2>1 DEF SplitCalls
  <2>3. Splitting' /\ SplitSeen' /\ Carried'
    BY <1>0, <1>1, <2>1, <2>2 DEF Splitting, SplitSeen, Carried
  <2>. QED
    BY <1>3, <2>1, <2>2, <2>3
<1>7. CASE SplitLocks
  <2>. DEFINE page == pages[Main]
              pc == IF Candidates(page) = {} THEN "unlock" ELSE "look"
  <2>1. Still /\ split.pc = "lock" /\ split' = IF mtime[Main] # split.base THEN [IdleSplit EXCEPT !.pc = "unlock"]
                ELSE [split EXCEPT !.pc = pc, !.lines = page, !.todo = Candidates(page)]
    BY <1>7 DEF SplitLocks, splitOnly
  <2>2. CASE mtime[Main] # split.base
    BY <1>3, <1>5, <2>1, <2>2
  <2>3. CASE mtime[Main] = split.base
    <3>1. split' = [split EXCEPT !.pc = pc, !.lines = page, !.todo = Candidates(page)]
      BY <2>1, <2>3
    <3>2. /\ Candidates(page) \in SUBSET [first : Nat, last : Nat, child : Range(ChildOf)]
          /\ \A c \in Candidates(page) : c.first \in DOMAIN page /\ c.first <= c.last
          /\ \A c, d \in Candidates(page) : c.first = d.first => c = d
      BY <1>1, CandidatesAre
    <3>3. pc \in {"look", "unlock"} /\ (pc = "look" => Candidates(page) # {})
      OBVIOUS
    <3>4. page' = page /\ mtime' = mtime
      BY <2>1
    <3>. HIDE DEF pc
    <3>5. /\ split' \in SplitCalls /\ split'.pc = pc /\ split'.base = split.base /\ split'.lines = page
          /\ split'.todo = Candidates(page)
      BY <1>1, <3>1, <3>2, <3>3 DEF SplitCalls
    <3>6. Splitting'
      <4>1. heal'.pc = "idle"
        BY <1>0, <1>1, <2>1 DEF Splitting
      <4>. QED
        BY <3>2, <3>3, <3>5, <4>1 DEF Splitting
    <3>7. SplitSeen'
      BY <1>1, <2>3, <3>3, <3>4, <3>5 DEF SplitSeen
    <3>8. Carried'
      <4>1. Keeps(pages[Main])' = Keeps(page)
        BY <3>4 DEF Keeps
      <4>. QED
        BY <3>5, <4>1 DEF Carried
    <3>. QED
      BY <1>3, <2>1, <3>5, <3>6, <3>7, <3>8
  <2>. QED
    BY <2>2, <2>3
<1>8. CASE SplitLooks
  <2>1. /\ Still /\ split.pc = "look"
        /\ split' = IF pages[Current.child] = None THEN [split EXCEPT !.pc = "child", !.seen = mtime[Current.child]]
                    ELSE [Taken EXCEPT !.reused = TRUE]
    BY <1>8 DEF SplitLooks, splitOnly
  <2>2. CASE pages[Current.child] = None
    <3>1. split' = [split EXCEPT !.pc = "child", !.seen = mtime[Current.child]]
      BY <2>1, <2>2
    <3>2. Current \in split.todo /\ Current.child \in Paths /\ mtime[Current.child] \in Nat
      BY <1>0, <2>1, TakenIs DEF Types
    <3>3. /\ split' \in SplitCalls /\ split'.pc = "child" /\ split'.base = split.base /\ split'.lines = split.lines
          /\ split'.todo = split.todo /\ split'.seen = mtime[Current.child] /\ split'.reused = split.reused
      BY <1>1, <3>1, <3>2 DEF SplitCalls
    <3>4. Current' = Current
      BY <3>3 DEF Current
    <3>5. Splitting'
      BY <1>0, <1>1, <2>1, <3>3 DEF Splitting
    <3>6. SplitSeen'
      BY <1>0, <2>1, <2>2, <3>2, <3>3, <3>4 DEF Seen, SplitSeen
    <3>7. Carried'
      <4>1. /\ \A x : x \in Keeps(pages[Main])' <=> x \in Keeps(pages[Main])
            /\ \A x, p : Carries(p, x)' <=> Carries(p, x)
        BY <1>1, <2>1 DEF Keeps, Carries
      <4>. QED
        BY <1>0, <1>1, <2>1, <3>3, <4>1 DEF Carried
    <3>. QED
      BY <1>3, <2>1, <3>3, <3>5, <3>6, <3>7
  <2>3. CASE pages[Current.child] # None
    <3>1. split' = [Taken EXCEPT !.reused = TRUE]
      BY <2>1, <2>3
    <3>2. /\ split' \in SplitCalls /\ split'.pc = Taken.pc /\ split'.base = split.base /\ split'.lines = Taken.lines
          /\ split'.todo = Taken.todo /\ split'.reused = TRUE /\ Taken.pc \in {"look", "check"}
      BY <2>1, <3>1, TakenIs DEF SplitCalls
    <3>3. Splitting'
      BY <1>0, <1>1, <2>1, <3>2, TakenIs DEF Splitting
    <3>4. SplitSeen'
      BY <1>0, <2>1, <3>2 DEF Seen, SplitSeen
    <3>5. Carried'
      BY <3>2 DEF Carried
    <3>. QED
      BY <1>3, <2>1, <3>2, <3>3, <3>4, <3>5
  <2>. QED
    BY <2>2, <2>3
<1>9. CASE SplitWritesChild
  <2>. DEFINE c == Current
              base == split.lines[c.first].d
              unindented(l) == [l EXCEPT !.d = IF @ < base THEN 0 ELSE @ - base]
              below == [i \in DOMAIN Subtree(c) |-> unindented(Subtree(c)[i])]
              child == <<Bullet(Main, 0)>> \o below
              v == split.reused \/ split.seen # mtime[c.child]
  <2>1. /\ split.pc = "child" /\ others' = TRUE
        /\ Writes(c.child, child)
        /\ split' = [Taken EXCEPT !.reused = @ \/ split.seen # mtime[c.child]]
    BY <1>9 DEF SplitWritesChild
  <2>2. /\ c \in split.todo /\ c.child \in Paths /\ c.child \in Range(ChildOf) /\ c.first \in DOMAIN split.lines
        /\ c.first \in Nat /\ Reach(c) \in c.first..Len(split.lines)
    BY <2>1, TakenIs
  <2>3. child \in Texts /\ \A i \in DOMAIN split.lines \cap c.first..Reach(c) : Text(split.lines[i]) \subseteq Keeps(child)
    <3>. HIDE DEF c
    <3>1. /\ split \in SplitCalls /\ c.first \in DOMAIN split.lines /\ c.first \in Nat
          /\ Reach(c) \in c.first..Len(split.lines)
          /\ base = split.lines[c.first].d
          /\ below = [i \in DOMAIN Subtree(c) |-> [Subtree(c)[i] EXCEPT !.d = IF @ < base THEN 0 ELSE @ - base]]
      BY <1>1, <2>2
    <3>. HIDE DEF base, below
    <3>. QED
      BY <3>1, ChildIs
  <2>. HIDE DEF child
  <2>4. Gentle /\ pages' \in Files /\ mtime' \in [Paths -> Nat] /\ pages'[c.child] = child /\ mtime'[c.child] = mtime[c.child] + 1
        /\ \A q \in Paths : q # c.child => pages'[q] = pages[q] /\ mtime'[q] = mtime[q]
    <3>. HIDE DEF c
    <3>. QED
      BY <1>0, <1>1, <2>1, <2>2, <2>3, WritesGently, WritesIs
  <2>5. /\ split' \in SplitCalls /\ split'.pc = Taken.pc /\ split'.base = split.base /\ split'.lines = Embed(c)
        /\ split'.todo = Taken.todo /\ split'.reused = v /\ Taken.pc \in {"look", "check"}
    <3>1. v \in BOOLEAN
      OBVIOUS
    <3>2. split' = [Taken EXCEPT !.reused = v]
      BY <2>1, TakenIs
    <3>. HIDE DEF v
    <3>. QED
      BY <2>1, <3>1, <3>2, TakenIs DEF SplitCalls
  <2>6. Splitting'
    BY <1>0, <1>1, <2>1, <2>5, TakenIs DEF Splitting
  <2>7. SplitSeen'
    <3>1. split.base <= mtime[Main] /\ mtime[Main] \in Nat /\ mtime'[Main] \in Nat /\ mtime'[Main] >= mtime[Main] /\ split.base \in Nat
      BY <1>0, <1>1, <2>1, <2>4 DEF Seen, SplitSeen, SplitCalls, Gentle
    <3>. QED
      BY <2>5, <3>1 DEF SplitSeen
  <2>8. Carried'
    <3>1. SUFFICES ASSUME split'.base = mtime'[Main], ~split'.reused, NEW x \in Keeps(pages[Main])'
                   PROVE  \/ x \in (Keeps(split.lines))' \cup deleted'
                          \/ \E p \in Paths \ {Main, Moc} : Carries(p, x)'
      BY DEF Carried
    <3>2. ~split.reused /\ split.seen = mtime[c.child]
      BY <2>5, <3>1
    <3>3. pages[c.child] = None
      BY <1>0, <2>1, <3>2 DEF Seen, SplitSeen
    <3>4. c.child \notin {Main, Moc}
      BY <1>0, <2>2, <3>3 DEF Paged, MocIsNoChild
    <3>5. split.base = mtime[Main] /\ x \in Keeps(pages[Main])
      <4>1. mtime'[Main] = mtime[Main] /\ pages'[Main] = pages[Main]
        BY <1>1, <2>4, <3>4
      <4>. QED
        BY <2>5, <3>1, <4>1 DEF Keeps
    <3>6. \/ x \in Keeps(split.lines) \cup deleted
          \/ \E p \in Paths \ {Main, Moc} : Carries(p, x)
      BY <1>0, <2>1, <3>2, <3>5 DEF Carried
    <3>7. CASE x \in deleted
      BY <1>1, <3>7
    <3>8. CASE \E p \in Paths \ {Main, Moc} : Carries(p, x)
      <4>1. PICK p \in Paths \ {Main, Moc} : Carries(p, x)
        BY <3>8
      <4>2. p # c.child
        BY <3>3, <4>1, KeepsOfNone DEF Carries
      <4>3. pages'[p] = pages[p]
        BY <2>4, <4>2
      <4>4. Carries(p, x)'
        BY <1>1, <4>1, <4>3 DEF Carries, Keeps
      <4>. QED
        BY <4>1, <4>4
    <3>9. CASE x \in Keeps(split.lines)
      <4>1. CASE x \in Keeps(Embed(c))
        BY <2>5, <4>1 DEF Keeps
      <4>2. CASE x \notin Keeps(Embed(c))
        <5>1. PICK i \in DOMAIN split.lines \cap c.first..Reach(c) : x \in Text(split.lines[i])
          BY <2>1, <3>9, <4>2, TakenIs
        <5>2. x \in Keeps(child)
          BY <2>3, <5>1
        <5>3. PICK q \in Paths : q = c.child
          BY <2>2
        <5>4. x \in Keeps(pages'[q])
          BY <2>4, <5>2, <5>3
        <5>5. outline.pc \in {"check", "replace"} => outline.page # q
          BY <1>0, <3>3, <5>3 DEF Paged
        <5>6. large.pc \in {"lock", "copy", "write"} => Head(large.todo) # q
          BY <1>0, <3>3, <5>3, HeadIsPath
        <5>. HIDE DEF c
        <5>7. Carries(q, x)'
          BY <1>1, <5>4, <5>5, <5>6 DEF Carries, Keeps
        <5>. QED
          BY <3>4, <5>3, <5>7
      <4>. QED
        BY <4>1, <4>2
    <3>. QED
      BY <3>6, <3>7, <3>8, <3>9
  <2>. QED
    BY <1>2, <2>1, <2>4, <2>5, <2>6, <2>7, <2>8
<1>10. CASE SplitChecks
  <2>1. Still /\ split.pc = "check" /\ split' = IF mtime[Main] # split.base THEN [IdleSplit EXCEPT !.pc = "unlock"]
                ELSE [split EXCEPT !.pc = "replace", !.seen = mtime[Main]]
    BY <1>10 DEF SplitChecks, splitOnly
  <2>2. CASE mtime[Main] # split.base
    BY <1>3, <1>5, <2>1, <2>2
  <2>3. CASE mtime[Main] = split.base
    <3>1. split' = [split EXCEPT !.pc = "replace", !.seen = mtime[Main]]
      BY <2>1, <2>3
    <3>2. /\ split' \in SplitCalls /\ split'.pc = "replace" /\ split'.base = split.base /\ split'.lines = split.lines
          /\ split'.todo = split.todo /\ split'.seen = split.base /\ split'.reused = split.reused
      BY <1>1, <2>3, <3>1 DEF SplitCalls
    <3>3. Splitting'
      BY <1>0, <1>1, <2>1, <3>2 DEF Splitting
    <3>4. SplitSeen'
      BY <1>1, <2>1, <2>3, <3>2 DEF SplitSeen
    <3>5. Carried'
      <4>1. /\ \A x : x \in Keeps(pages[Main])' <=> x \in Keeps(pages[Main])
            /\ \A x, p : Carries(p, x)' <=> Carries(p, x)
        BY <1>1, <2>1 DEF Keeps, Carries
      <4>. QED
        BY <1>0, <1>1, <2>1, <3>2, <4>1 DEF Carried
    <3>. QED
      BY <1>3, <2>1, <3>2, <3>3, <3>4, <3>5
  <2>. QED
    BY <2>2, <2>3
<1>11. CASE SplitReplaces
  <2>1. Writes(Main, split.lines) /\ split.pc = "replace" /\ split' = [IdleSplit EXCEPT !.pc = "unlock"] /\ others' = TRUE
    BY <1>11 DEF SplitReplaces
  <2>2. split.lines \in Texts
    BY <1>1 DEF SplitCalls
  <2>3. Gentle /\ pages' \in Files /\ mtime' \in [Paths -> Nat]
    BY <1>0, <1>1, <2>1, <2>2, WritesGently, WritesIs
  <2>. QED
    BY <1>2, <1>5, <2>1, <2>3
<1>12. CASE SplitEnds
  <2>1. Still /\ split' = IdleSplit /\ split.pc = "unlock"
    BY <1>12 DEF SplitEnds, splitOnly
  <2>. QED
    BY <1>3, <1>5, <2>1
<1>. QED
  BY <1>6, <1>7, <1>8, <1>9, <1>10, <1>11, <1>12 DEF Split

LEMMA CarriesStays ==
    ASSUME UNCHANGED <<outline, large>>, NEW p, pages'[p] = pages[p], NEW x, Carries(p, x)
    PROVE  Carries(p, x)'
BY DEF Carries, Keeps

LEMMA HealKeeps ==
    ASSUME KeepInv, Heal
    PROVE  KeepInv'
<1>0. Types /\ Splitting /\ Paged /\ Seen /\ Carried
  BY DEF KeepInv
<1>1. /\ UNCHANGED <<split, moc, outline, large, before, deleted, bak, others>> /\ split.pc = "idle"
      /\ heal \in HealCalls /\ Target \in Paths /\ mtime[Target] \in Nat
  <2>1. UNCHANGED <<split, moc, outline, large, before, deleted, bak, others>>
    BY DEF Heal, HealBegin, HealLocks, HealWrites, healOnly
  <2>2. split.pc = "idle"
    BY <1>0 DEF Splitting, Heal, HealBegin, HealLocks, HealWrites
  <2>. QED
    BY <1>0, <2>1, <2>2, NamesAre DEF Types
<1>2. ASSUME Gentle, pages' \in Files, mtime' \in [Paths -> Nat], heal' \in HealCalls, HealSeen'
      PROVE  KeepInv'
  <2>1. Splitting' /\ Carried'
    BY <1>0, <1>1 DEF Splitting, Carried
  <2>2. bak' \in Files
    BY <1>0, <1>1 DEF Types
  <2>3. SplitSeen' /\ MocSeen' /\ OutlineSeen' /\ LargeSeen' /\ Paged'
    BY <1>1, <1>2, <2>2, OthersStay
  <2>4. Types'
    BY <1>0, <1>1, <1>2 DEF Types
  <2>. QED
    BY <1>2, <2>1, <2>3, <2>4 DEF KeepInv, Seen
<1>3. ASSUME UNCHANGED <<pages, mtime>>, heal' \in HealCalls, HealSeen'
      PROVE  KeepInv'
  <2>1. Gentle
    BY <1>0, <1>1, <1>3, StillIsGentle
  <2>2. pages' \in Files /\ mtime' \in [Paths -> Nat]
    BY <1>0, <1>3 DEF Types
  <2>. QED
    BY <1>2, <1>3, <2>1, <2>2
<1>4. CASE HealBegin
  <2>1. UNCHANGED <<pages, mtime>> /\ heal' = [heal EXCEPT !.pc = "lock"]
    BY <1>4 DEF HealBegin, healOnly
  <2>2. heal' \in HealCalls /\ heal'.pc = "lock"
    BY <1>1, <2>1 DEF HealCalls
  <2>. QED
    BY <1>3, <2>1, <2>2 DEF HealSeen
<1>5. CASE HealLocks
  <2>1. /\ UNCHANGED <<pages, mtime>>
        /\ \/ heal' = IdleHeal
           \/ pages[Target] = None /\ heal' = [heal EXCEPT !.pc = "write", !.seen = mtime[Target]]
    BY <1>5 DEF HealLocks, healOnly
  <2>2. CASE heal' = IdleHeal
    <3>1. heal' \in HealCalls /\ heal'.pc = "idle"
      BY <2>2 DEF HealCalls, IdleHeal
    <3>. QED
      BY <1>3, <2>1, <3>1 DEF HealSeen
  <2>3. CASE pages[Target] = None /\ heal' = [heal EXCEPT !.pc = "write", !.seen = mtime[Target]]
    <3>1. heal' \in HealCalls /\ heal'.seen = mtime[Target]
      BY <1>1, <2>3 DEF HealCalls
    <3>2. HealSeen'
      BY <1>1, <2>1, <2>3, <3>1 DEF HealSeen
    <3>. QED
      BY <1>3, <2>1, <3>1, <3>2
  <2>. QED
    BY <2>1, <2>2, <2>3
<1>6. CASE HealWrites
  <2>1. Writes(Target, <<Bullet(Main, 0)>>) /\ heal' = IdleHeal
    BY <1>6 DEF HealWrites
  <2>2. <<Bullet(Main, 0)>> \in Texts
    BY OneLine, BulletIs, NamesAre
  <2>3. Gentle /\ pages' \in Files /\ mtime' \in [Paths -> Nat]
    BY <1>0, <1>1, <2>1, <2>2, WritesGently, WritesIs
  <2>4. heal' \in HealCalls /\ heal'.pc = "idle"
    BY <2>1 DEF HealCalls, IdleHeal
  <2>. QED
    BY <1>2, <2>3, <2>4 DEF HealSeen
<1>. QED
  BY <1>4, <1>5, <1>6 DEF Heal

\* The map has a line for each page of its scan.
LEMMA MapIs ==
    ASSUME NEW rows \in SUBSET Paths,
           NEW new, new = [i \in 1..Cardinality(rows) |-> Bullet(SetToSeq(rows)[i], 0)]
    PROVE  new \in Texts /\ Bullets(new) \subseteq Paths
<1>1. IsFiniteSet(rows)
  BY NewPagesAssumption, FS_Subset DEF NewPagesAssumption
<1>2. SetToSeq(rows) \in Seq(rows) /\ Len(SetToSeq(rows)) = Cardinality(rows) /\ Cardinality(rows) \in Nat
  BY <1>1, SetToSeqIs
<1>3. \A i \in 1..Cardinality(rows) : SetToSeq(rows)[i] \in Paths
  BY <1>2
<1>4. \A i \in 1..Cardinality(rows) : /\ Bullet(SetToSeq(rows)[i], 0) \in GoodLines
                                      /\ Bullet(SetToSeq(rows)[i], 0).b = SetToSeq(rows)[i]
  BY <1>3, BulletIs, NamesAre
<1>5. new \in [1..Cardinality(rows) -> GoodLines]
  BY <1>4
<1>6. new \in Texts /\ DOMAIN new = 1..Cardinality(rows)
  BY <1>2, <1>5 DEF Texts
<1>7. \A i \in DOMAIN new : new[i].b \in Paths
  BY <1>3, <1>4, <1>6
<1>. QED
  BY <1>6, <1>7 DEF Bullets

LEMMA MocKeeps ==
    ASSUME KeepInv, MapOfContent
    PROVE  KeepInv'
<1>0. Types /\ Splitting /\ Paged /\ Seen /\ Carried
  BY DEF KeepInv
<1>1. /\ UNCHANGED <<split, heal, outline, large, before, deleted, others>>
      /\ moc \in MocCalls /\ Moc \in Paths /\ mtime[Moc] \in Nat
  <2>1. UNCHANGED <<split, heal, outline, large, before, deleted, others>>
    BY DEF MapOfContent, MocBegin, MocLocks, MocCopies, MocWrites, mocOnly
  <2>. QED
    BY <1>0, <2>1, NamesAre DEF Types
<1>2. ASSUME Gentle, pages' \in Files, mtime' \in [Paths -> Nat], bak' \in Files,
             \A p \in Paths : p # Moc => pages'[p] = pages[p], moc' \in MocCalls, MocSeen'
      PROVE  KeepInv'
  <2>1. Splitting'
    BY <1>0, <1>1 DEF Splitting
  <2>2. SplitSeen' /\ HealSeen' /\ OutlineSeen' /\ LargeSeen' /\ Paged'
    BY <1>1, <1>2, OthersStay
  <2>3. Types'
    BY <1>0, <1>1, <1>2 DEF Types
  <2>4. Carried'
    <3>1. \A p \in Paths \ {Main, Moc} : \A x : Carries(p, x) => Carries(p, x)'
      BY <1>1, <1>2, CarriesStays
    <3>. QED
      BY <1>1, <1>2, <3>1, CarriedStays
  <2>. QED
    BY <1>2, <2>1, <2>2, <2>3, <2>4 DEF KeepInv, Seen
<1>3. ASSUME UNCHANGED <<pages, mtime, bak>>, moc' \in MocCalls, MocSeen'
      PROVE  KeepInv'
  <2>1. Gentle
    BY <1>0, <1>3, StillIsGentle
  <2>2. pages' \in Files /\ mtime' \in [Paths -> Nat] /\ bak' \in Files /\ \A p \in Paths : pages'[p] = pages[p]
    BY <1>0, <1>3 DEF Types
  <2>. QED
    BY <1>2, <1>3, <2>1, <2>2
<1>4. CASE MocBegin
  <2>1. UNCHANGED <<pages, mtime, bak>> /\ moc' = [moc EXCEPT !.pc = "lock", !.rows = {p \in Paths : pages[p] # None}]
    BY <1>4 DEF MocBegin
  <2>2. moc' \in MocCalls /\ moc'.pc = "lock"
    BY <1>1, <2>1 DEF MocCalls
  <2>. QED
    BY <1>3, <2>1, <2>2 DEF MocSeen
<1>5. CASE MocLocks
  <2>1. UNCHANGED <<pages, mtime, bak>> /\ moc' = [moc EXCEPT !.pc = "copy"]
    BY <1>5 DEF MocLocks
  <2>2. moc' \in MocCalls /\ moc'.pc = "copy"
    BY <1>1, <2>1 DEF MocCalls
  <2>. QED
    BY <1>3, <2>1, <2>2 DEF MocSeen
<1>6. CASE MocCopies
  <2>1. /\ UNCHANGED <<pages, mtime>> /\ bak' = IF pages[Moc] = None THEN bak ELSE [bak EXCEPT ![Moc] = pages[Moc]]
        /\ moc' = [moc EXCEPT !.pc = "write", !.seen = mtime[Moc]]
    BY <1>6 DEF MocCopies
  <2>2. bak' \in {bak, [bak EXCEPT ![Moc] = pages[Moc]]}
    BY <2>1
  <2>3. Gentle /\ bak' \in Files
    BY <1>0, <1>1, <2>1, <2>2, CopiesGently
  <2>4. moc' \in MocCalls /\ moc'.seen = mtime[Moc]
    BY <1>1, <2>1 DEF MocCalls
  <2>5. pages[Moc] \in {None, bak'[Moc]}
    BY <1>0, <1>1, <2>1 DEF Types, Files
  <2>6. MocSeen'
    BY <1>1, <2>1, <2>4, <2>5 DEF MocSeen
  <2>7. pages' \in Files /\ mtime' \in [Paths -> Nat] /\ \A p \in Paths : pages'[p] = pages[p]
    BY <1>0, <2>1 DEF Types
  <2>. QED
    BY <1>2, <2>3, <2>4, <2>6, <2>7
<1>7. CASE MocWrites
  <2>. DEFINE new == [i \in 1..Cardinality(moc.rows) |-> Bullet(SetToSeq(moc.rows)[i], 0)]
  <2>1. Writes(Moc, new) /\ moc' = IdleMoc /\ bak' = bak
    BY <1>7 DEF MocWrites
  <2>2. new \in Texts
    BY <1>1, MapIs DEF MocCalls
  <2>. HIDE DEF new
  <2>3. Gentle /\ pages' \in Files /\ mtime' \in [Paths -> Nat] /\ \A p \in Paths : p # Moc => pages'[p] = pages[p]
    BY <1>0, <1>1, <2>1, <2>2, WritesGently, WritesIs
  <2>4. moc' \in MocCalls /\ moc'.pc = "idle"
    BY <2>1 DEF MocCalls, IdleMoc
  <2>5. bak' \in Files
    BY <1>0, <2>1 DEF Types
  <2>. QED
    BY <1>2, <2>3, <2>4, <2>5 DEF MocSeen
<1>. QED
  BY <1>4, <1>5, <1>6, <1>7 DEF MapOfContent

\* The outline: a block of it is added below a block that is on the page.
LEMMA HostIs ==
    ASSUME Types, NEW b
    PROVE  /\ Host(b) # None => Host(b) \in Paths /\ On(Host(b), b)
           /\ Host(b) = None => \A p \in Paths : ~On(p, b)
<1>. DEFINE on == {p \in Paths : On(p, b)}
<1>1. CASE on = {}
  BY <1>1 DEF Host
<1>2. CASE on # {}
  <2>1. Host(b) \in on
    BY <1>2 DEF Host
  <2>. QED
    BY <2>1, NamesAre
<1>. QED
  BY <1>1, <1>2

LEMMA OnIs ==
    ASSUME Types, NEW p \in Paths, NEW b, On(p, b)
    PROVE  pages[p] \in Texts /\ b \in Bullets(pages[p]) /\ b \in Names
<1>1. pages[p] \in Texts
  BY DEF Types, Files, On
<1>. QED
  BY <1>1 DEF On, Bullets, Texts, GoodLines, Lines

LEMMA AppendedIs ==
    ASSUME NEW page \in Texts, Parent \in Bullets(page), NEW b \in Nodes
    PROVE  /\ Appended(page, b) \in Texts /\ Keeps(page) \subseteq Keeps(Appended(page, b))
           /\ Bullets(Appended(page, b)) \subseteq Bullets(page) \cup {b}
           /\ Once(page) => Once(Appended(page, b))
<1>. DEFINE i == IndexOf(page, Parent)
            end == SubtreeEnd(page, i)
            l == Bullet(b, page[i].d + 1)
            new == <<l>>
            r == Appended(page, b)
<1>1. i \in DOMAIN page
  BY DEF IndexOf, Bullets
<1>. HIDE DEF i
<1>2. DOMAIN page = 1..Len(page) /\ Len(page) \in Nat /\ page[i].d + 1 \in Nat
  BY <1>1 DEF Texts, GoodLines, Lines
<1>3. end \in i..Len(page)
  BY <1>1, EndIsBelow
<1>. HIDE DEF end
<1>4. end \in Nat /\ end + 1 \in 1..Len(page) + 1 /\ end >= (end + 1) - 1 /\ (end + 1)..end = {}
  BY <1>1, <1>2, <1>3
<1>5. l \in GoodLines /\ l.b = b
  BY <1>2, BulletIs, NamesAre
<1>. HIDE DEF l
<1>6. new \in Texts /\ Bullets(new) = {b} /\ DOMAIN new = {1} /\ new[1] = l
  BY <1>5, OneLine
<1>7. r = Replaced(page, end + 1, end, new)
  BY DEF Appended, end, i, l
<1>. HIDE DEF new, r
<1>8. /\ r \in Texts
      /\ \A x \in Keeps(page) : x \in Keeps(r) \/ \E k \in DOMAIN page \cap (end + 1)..end : x \in Text(page[k])
      /\ Bullets(r) \subseteq Bullets(page) \cup Bullets(new)
  BY <1>4, <1>6, <1>7, KeepsReplaced
<1>9. Keeps(page) \subseteq Keeps(r)
  BY <1>4, <1>8
<1>10. ASSUME Once(page)  PROVE Once(r)
  <2>1. Under \notin Nodes
    BY NewPagesAssumption DEF NewPagesAssumption
  <2>2. \A j \in DOMAIN new : new[j].b # Under
    BY <1>5, <1>6, <2>1
  <2>. QED
    BY <1>4, <1>6, <1>7, <1>10, <2>2, OnceReplaced
<1>. QED
  BY <1>6, <1>8, <1>9, <1>10 DEF r

LEMMA NodesAre ==
    ASSUME NEW k \in DOMAIN Outline
    PROVE  /\ Outline[k].b \in Nodes /\ Outline[k].b \in Names /\ Outline[k].d \in Nat /\ Len(Outline) \in Nat
           /\ k \in Nat /\ (k # Len(Outline) => k + 1 \in DOMAIN Outline /\ Outline[k + 1].d <= Outline[k].d + 1)
<1>1. Outline \in Seq(Lines) /\ Len(Outline) \in Nat /\ DOMAIN Outline = 1..Len(Outline)
  BY NamesAre
<1>2. Outline[k] \in Lines
  BY <1>1
<1>3. k # Len(Outline) => k + 1 \in DOMAIN Outline /\ k \in 1..Len(Outline) - 1
  BY <1>1
<1>4. \A i \in 1..Len(Outline) - 1 : Outline[i + 1].d <= Outline[i].d + 1
  BY NewPagesAssumption DEF NewPagesAssumption
<1>. QED
  BY <1>1, <1>2, <1>3, <1>4 DEF Nodes, Bullets, Lines

LEMMA OutlineKeeps ==
    ASSUME KeepInv, WriteOutline
    PROVE  KeepInv'
<1>. DEFINE page == outline.page
            parts == <<pages, mtime, deleted>>
<1>0. Types /\ Splitting /\ Paged /\ Seen /\ Carried
  BY DEF KeepInv
<1>1. /\ UNCHANGED <<split, heal, moc, large, bak, deleted>> /\ outline \in OutlineCalls
      /\ bak' \in Files
  <2>1. UNCHANGED <<split, heal, moc, large, bak, deleted>>
    BY DEF WriteOutline, OutlineBegin, OutlineLooks, OutlineLocks, OutlineChecks, OutlineReplaces,
           OutlineRefreshes, OutlineChains, outlineOnly
  <2>. QED
    BY <1>0, <2>1 DEF Types
<1>2. ASSUME outline.pc # "idle"
      PROVE  /\ page \in Paths /\ pages[page] \in Texts /\ pages[page] # None /\ mtime[page] \in Nat
             /\ outline.base <= mtime[page] /\ outline.at \in Paths
             /\ Len(outline.parent) = Outline[outline.next].d + 1
  BY <1>0, <1>2 DEF Types, Files, Paged, Seen, OutlineSeen
\* What is left to show of a step: the outline itself, and what the other pages carry.
<1>3. ASSUME Gentle, pages' \in Files, mtime' \in [Paths -> Nat], others' \in BOOLEAN, before' \in Texts,
             outline' \in OutlineCalls, OutlineSeen',
             outline'.pc # "idle" /\ outline'.page \in Paths /\ outline'.at \in Paths /\ pages'[outline'.page] # None,
             Len(outline'.parent) = Outline[outline'.next].d + 1,
             \A p \in Paths \ {Main, Moc} : \A x : Carries(p, x) => Carries(p, x)'
      PROVE  KeepInv'
  <2>1. Splitting'
    BY <1>0, <1>1 DEF Splitting
  <2>2. SplitSeen' /\ HealSeen' /\ MocSeen' /\ LargeSeen'
    BY <1>1, <1>3, OthersStay
  <2>3. Types'
    BY <1>0, <1>1, <1>3 DEF Types
  <2>4. Carried'
    BY <1>1, <1>3, CarriedStays
  <2>5. Paged'
    <3>1. pages'[Main] # None
      BY <1>0, <1>3, NamesAre DEF Paged, Gentle
    <3>2. large.pc # "idle" => large.todo # <<>> /\ \A i \in DOMAIN large.todo : pages'[large.todo[i]] # None
      <4>1. large.todo \in Seq(Paths) /\ \A i \in DOMAIN large.todo : large.todo[i] \in Paths
        BY <1>0 DEF Types, LargeCalls
      <4>. QED
        BY <1>0, <1>3, <4>1 DEF Paged, Gentle
    <3>. QED
      BY <1>1, <1>3, <3>1, <3>2 DEF Paged
  <2>. QED
    BY <1>3, <2>1, <2>2, <2>3, <2>4, <2>5 DEF KeepInv, Seen
\* A step that only writes the outline's own state, and does not get lines in hand.
<1>. DEFINE InHand ==
                \/ outline'.pc \notin {"check", "replace"}
                \/ /\ outline.pc # "idle" /\ outline'.page = page
                   /\ Keeps(pages[page]) \subseteq Keeps(outline'.lines)
                \/ /\ outline.pc \in {"check", "replace"} /\ outline'.page = page
                   /\ outline'.base = outline.base /\ outline'.lines = outline.lines
<1>4. ASSUME UNCHANGED <<pages, mtime>>, others' \in BOOLEAN, before' \in Texts, outline' \in OutlineCalls,
             outline'.pc # "idle", outline'.page \in Paths, outline'.at \in Paths, pages[outline'.page] # None,
             outline'.base <= mtime[outline'.page],
             Len(outline'.parent) = Outline[outline'.next].d + 1,
             InHand
      PROVE  KeepInv'
  <2>1. Gentle
    BY <1>0, <1>1, <1>4, StillIsGentle
  <2>2. pages' \in Files /\ mtime' \in [Paths -> Nat]
    BY <1>0, <1>4 DEF Types
  <2>3. ASSUME NEW p \in Paths \ {Main, Moc}, NEW x, Carries(p, x)  PROVE Carries(p, x)'
    <3>1. x \in Keeps(pages[p]) /\ x \in Keeps(pages[p])'
      BY <1>4, <2>3 DEF Carries, Keeps
    <3>2. ASSUME outline'.pc \in {"check", "replace"}, outline'.page = p
          PROVE  x \in Keeps(outline.lines)'
      BY <1>4, <2>3, <3>1, <3>2 DEF Carries, Keeps
    <3>. QED
      BY <1>1, <2>3, <3>1, <3>2 DEF Carries
  <2>4. OutlineSeen'
    <3>1. pages' = pages /\ mtime' = mtime
      BY <1>4
    <3>. QED
      BY <1>0, <1>4, <3>1 DEF OutlineSeen, Seen, Keeps
  <2>. QED
    BY <1>3, <1>4, <2>1, <2>2, <2>3, <2>4
<1>5. ASSUME NEW how, outline' = [outline EXCEPT !.pc = how],
             how \in OutlineEnds \/ how \in {"chain"} \/ (how = "replace" /\ outline.pc = "check"),
             outline.pc # "idle", UNCHANGED <<pages, mtime, others, before>>
      PROVE  KeepInv'
  <2>1. /\ outline' \in OutlineCalls /\ outline'.pc = how /\ outline'.page = page /\ outline'.at = outline.at
        /\ outline'.base = outline.base /\ outline'.next = outline.next /\ outline'.parent = outline.parent
        /\ outline'.lines = outline.lines
    BY <1>1, <1>5 DEF OutlineCalls, OutlineEnds
  <2>2. others' \in BOOLEAN /\ before' \in Texts
    BY <1>0, <1>5 DEF Types
  <2>3. how # "idle" /\ (how \in {"check", "replace"} => outline.pc = "check")
    BY <1>5 DEF OutlineEnds
  <2>4. InHand
    BY <2>1, <2>3
  <2>. HIDE DEF InHand
  <2>. QED
    BY <1>2, <1>4, <1>5, <2>1, <2>2, <2>3, <2>4
<1>6. CASE OutlineBegin
  <2>. DEFINE h == Host(Under)
  <2>1. /\ outline.pc = "idle" /\ h # None /\ UNCHANGED <<pages, mtime>> /\ before' = pages[h] /\ others' = FALSE
        /\ outline' = [outline EXCEPT !.pc = "look", !.page = h, !.at = h, !.base = mtime[h], !.parent = <<Under>>]
    BY <1>6 DEF OutlineBegin
  <2>2. h \in Paths /\ On(h, Under)
    BY <1>0, <2>1, HostIs
  <2>. HIDE DEF h
  <2>3. pages[h] \in Texts /\ Under \in Names /\ pages[h] # None
    BY <1>0, <2>2, OnIs, NoneIsNoPage
  <2>4. <<Under>> \in Seq(Names) /\ Len(<<Under>>) = 1 /\ mtime[h] \in Nat
    BY <1>0, <2>2, <2>3 DEF Types
  <2>5. /\ outline' \in OutlineCalls /\ outline'.pc = "look" /\ outline'.page = h /\ outline'.at = h
        /\ outline'.base = mtime[h] /\ outline'.next = outline.next /\ outline'.parent = <<Under>>
    BY <1>1, <2>1, <2>2, <2>4 DEF OutlineCalls
  <2>6. Outline[outline'.next].d = 0
    BY <1>0, <2>1, <2>5, NewPagesAssumption DEF NewPagesAssumption, Paged
  <2>7. mtime[h] <= mtime[h] /\ Len(outline'.parent) = Outline[outline'.next].d + 1
    BY <2>4, <2>5, <2>6
  <2>8. InHand
    BY <2>5
  <2>9. others' \in BOOLEAN /\ before' \in Texts
    BY <2>1, <2>3
  <2>. HIDE DEF InHand
  <2>. QED
    BY <1>4, <2>1, <2>2, <2>3, <2>5, <2>7, <2>8, <2>9
<1>7. CASE OutlineLooks
  <2>1. /\ outline.pc = "look" /\ UNCHANGED <<pages, mtime, others, before>>
        /\ \/ outline' = [outline EXCEPT !.pc = "gone"]
           \/ outline' = [outline EXCEPT !.pc = "conflict"]
           \/ Host(Parent) # None /\ outline' = [outline EXCEPT !.pc = "lock", !.at = Host(Parent)]
    BY <1>7 DEF OutlineLooks, Ends
  <2>2. CASE outline' = [outline EXCEPT !.pc = "gone"] \/ outline' = [outline EXCEPT !.pc = "conflict"]
    BY <1>5, <2>1, <2>2 DEF OutlineEnds
  <2>3. CASE Host(Parent) # None /\ outline' = [outline EXCEPT !.pc = "lock", !.at = Host(Parent)]
    <3>1. Host(Parent) \in Paths
      BY <1>0, <2>3, HostIs
    <3>2. /\ outline' \in OutlineCalls /\ outline'.pc = "lock" /\ outline'.page = page /\ outline'.at = Host(Parent)
          /\ outline'.base = outline.base /\ outline'.next = outline.next /\ outline'.parent = outline.parent
      BY <1>1, <2>3, <3>1 DEF OutlineCalls
    <3>3. others' \in BOOLEAN /\ before' \in Texts
      BY <1>0, <2>1 DEF Types
    <3>4. InHand
      BY <3>2
    <3>. HIDE DEF InHand
    <3>. QED
      BY <1>2, <1>4, <2>1, <3>1, <3>2, <3>3, <3>4
  <2>. QED
    BY <2>1, <2>2, <2>3
<1>8. CASE OutlineLocks
  <2>. DEFINE new == Appended(pages[page], Outline[outline.next].b)
  <2>1. /\ outline.pc = "lock" /\ UNCHANGED <<pages, mtime, others, before>>
        /\ \/ outline' = [outline EXCEPT !.pc = "gone"]
           \/ outline' = [outline EXCEPT !.pc = "conflict"]
           \/ Host(Parent) = page /\ outline' = [outline EXCEPT !.pc = "check", !.lines = new]
    BY <1>8 DEF OutlineLocks, Ends
  <2>2. CASE outline' = [outline EXCEPT !.pc = "gone"] \/ outline' = [outline EXCEPT !.pc = "conflict"]
    BY <1>5, <2>1, <2>2 DEF OutlineEnds
  <2>3. CASE Host(Parent) = page /\ outline' = [outline EXCEPT !.pc = "check", !.lines = new]
    <3>1. page \in Paths /\ On(page, Parent)
      BY <1>0, <1>2, <2>1, <2>3, HostIs, NamesAre
    <3>2. pages[page] \in Texts /\ Parent \in Bullets(pages[page])
      BY <1>0, <3>1, OnIs
    <3>3. Outline[outline.next].b \in Nodes
      BY <1>1, NodesAre DEF OutlineCalls
    <3>4. new \in Texts /\ Keeps(pages[page]) \subseteq Keeps(new)
      BY <3>2, <3>3, AppendedIs
    <3>. HIDE DEF new
    <3>5. /\ outline' \in OutlineCalls /\ outline'.pc = "check" /\ outline'.page = page /\ outline'.at = outline.at
          /\ outline'.base = outline.base /\ outline'.next = outline.next /\ outline'.parent = outline.parent
          /\ outline'.lines = new
      BY <1>1, <2>3, <3>4 DEF OutlineCalls
    <3>6. others' \in BOOLEAN /\ before' \in Texts
      BY <1>0, <2>1 DEF Types
    <3>7. InHand
      BY <2>1, <3>4, <3>5
    <3>. HIDE DEF InHand
    <3>. QED
      BY <1>2, <1>4, <2>1, <3>4, <3>5, <3>6, <3>7
  <2>. QED
    BY <2>1, <2>2, <2>3
<1>9. CASE OutlineChecks
  <2>1. /\ outline.pc = "check" /\ UNCHANGED <<pages, mtime, others, before>>
        /\ \/ outline' = [outline EXCEPT !.pc = "conflict"]
           \/ outline' = [outline EXCEPT !.pc = "replace"]
    BY <1>9 DEF OutlineChecks, Ends
  <2>. QED
    BY <1>5, <2>1 DEF OutlineEnds
<1>10. CASE OutlineReplaces
  <2>1. /\ outline.pc = "replace" /\ UNCHANGED <<others, before>> /\ Writes(page, outline.lines)
        /\ outline' = [outline EXCEPT !.pc = "refresh", !.lines = <<>>]
    BY <1>10 DEF OutlineReplaces
  <2>2. outline.lines \in Texts /\ page \in Paths
    BY <1>1, <1>2, <2>1 DEF OutlineCalls
  <2>3. /\ Gentle /\ pages' \in Files /\ mtime' \in [Paths -> Nat] /\ pages'[page] = outline.lines
        /\ \A q \in Paths : q # page => pages'[q] = pages[q]
    <3>. HIDE DEF page
    <3>. QED
      BY <1>0, <1>1, <2>1, <2>2, WritesGently, WritesIs
  <2>4. /\ outline' \in OutlineCalls /\ outline'.pc = "refresh" /\ outline'.page = page /\ outline'.at = outline.at
        /\ outline'.base = outline.base /\ outline'.next = outline.next /\ outline'.parent = outline.parent
    BY <1>1, <2>1, EmptyIs DEF OutlineCalls
  <2>5. OutlineSeen'
    <3>1. mtime'[page] \in Nat /\ mtime'[page] >= mtime[page] /\ outline.base \in Nat
      BY <1>1, <2>2, <2>3 DEF Gentle, OutlineCalls
    <3>2. outline.base <= mtime'[page]
      BY <1>2, <2>1, <3>1
    <3>. QED
      BY <2>4, <3>2 DEF OutlineSeen
  <2>6. ASSUME NEW p \in Paths \ {Main, Moc}, NEW x, Carries(p, x)  PROVE Carries(p, x)'
    <3>1. x \in Keeps(pages'[p])
      BY <2>1, <2>3, <2>6 DEF Carries
    <3>. QED
      BY <1>1, <2>4, <2>6, <3>1 DEF Carries, Keeps
  <2>7. others' \in BOOLEAN /\ before' \in Texts /\ pages'[page] # None
    BY <1>0, <2>1, <2>2, <2>3, NoneIsNoPage DEF Types
  <2>. QED
    BY <1>2, <1>3, <2>1, <2>2, <2>3, <2>4, <2>5, <2>6, <2>7
<1>11. CASE OutlineRefreshes
  <2>1. /\ outline.pc = "refresh" /\ UNCHANGED <<pages, mtime, others, before>>
        /\ outline' = [outline EXCEPT !.pc = "chain", !.base = mtime[page]]
    BY <1>11 DEF OutlineRefreshes
  <2>2. /\ outline' \in OutlineCalls /\ outline'.pc = "chain" /\ outline'.page = page /\ outline'.at = outline.at
        /\ outline'.base = mtime[page] /\ outline'.next = outline.next /\ outline'.parent = outline.parent
    BY <1>1, <1>2, <2>1 DEF OutlineCalls
  <2>3. others' \in BOOLEAN /\ before' \in Texts /\ mtime[page] <= mtime[page]
    BY <1>0, <1>2, <2>1 DEF Types
  <2>4. InHand
    BY <2>2
  <2>. HIDE DEF InHand
  <2>. QED
    BY <1>2, <1>4, <2>1, <2>2, <2>3, <2>4
<1>12. CASE OutlineChains
  <2>. DEFINE new == Outline[outline.next].b
              parent == SubSeq(Append(outline.parent, new), 1, Outline[outline.next + 1].d + 1)
  <2>1. /\ outline.pc = "chain" /\ UNCHANGED <<pages, mtime, others, before>>
        /\ \/ outline' = [outline EXCEPT !.pc = "unindexed"]
           \/ outline' = [outline EXCEPT !.pc = "ok"]
           \/ /\ outline.next # Len(Outline)
              /\ outline' = [outline EXCEPT !.pc = "look", !.next = @ + 1, !.parent = parent]
    BY <1>12 DEF OutlineChains, Ends
  <2>2. CASE outline' = [outline EXCEPT !.pc = "unindexed"] \/ outline' = [outline EXCEPT !.pc = "ok"]
    BY <1>5, <2>1, <2>2 DEF OutlineEnds
  <2>3. CASE /\ outline.next # Len(Outline)
             /\ outline' = [outline EXCEPT !.pc = "look", !.next = @ + 1, !.parent = parent]
    <3>1. /\ outline.next \in DOMAIN Outline /\ outline.next + 1 \in DOMAIN Outline
          /\ Outline[outline.next + 1].d <= Outline[outline.next].d + 1
      BY <1>1, <2>3, NodesAre DEF OutlineCalls
    <3>2. new \in Names /\ Outline[outline.next].d \in Nat /\ Outline[outline.next + 1].d \in Nat
      BY <3>1, NodesAre
    <3>3. outline.parent \in Seq(Names) /\ Len(outline.parent) = Outline[outline.next].d + 1
      BY <1>1, <1>2, <2>1 DEF OutlineCalls
    <3>4. parent \in Seq(Names) /\ Len(parent) = Outline[outline.next + 1].d + 1
      <4>1. Append(outline.parent, new) \in Seq(Names) /\ Len(Append(outline.parent, new)) = Outline[outline.next].d + 2
        BY <3>2, <3>3
      <4>. HIDE DEF new
      <4>2. Outline[outline.next + 1].d + 1 \in 0..Len(Append(outline.parent, new))
        BY <3>1, <3>2, <4>1, SMTT(30)
      <4>. QED
        BY <3>2, <4>1, <4>2
    <3>. HIDE DEF parent
    <3>5. /\ outline' \in OutlineCalls /\ outline'.pc = "look" /\ outline'.page = page /\ outline'.at = outline.at
          /\ outline'.base = outline.base /\ outline'.next = outline.next + 1 /\ outline'.parent = parent
      BY <1>1, <2>3, <3>1, <3>4 DEF OutlineCalls
    <3>6. others' \in BOOLEAN /\ before' \in Texts
      BY <1>0, <2>1 DEF Types
    <3>7. InHand
      BY <2>1, <3>4, <3>5
    <3>. HIDE DEF InHand
    <3>. QED
      BY <1>2, <1>4, <2>1, <3>4, <3>5, <3>6, <3>7
  <2>. QED
    BY <2>1, <2>2, <2>3
<1>. QED
  BY <1>6, <1>7, <1>8, <1>9, <1>10, <1>11, <1>12 DEF WriteOutline

LEMMA TailIs ==
    ASSUME NEW S, NEW s \in Seq(S), s # <<>>, Len(s) # 1
    PROVE  /\ Tail(s) \in Seq(S) /\ Tail(s) # <<>>
           /\ \A i \in DOMAIN Tail(s) : i + 1 \in DOMAIN s /\ Tail(s)[i] = s[i + 1]
<1>1. Len(s) \in Nat /\ Len(s) # 0 /\ Len(s) # 1
  BY EmptySeq
<1>2. Len(s) > 1
  <2>1. \A n \in Nat : n # 0 /\ n # 1 => n > 1
    OBVIOUS
  <2>. QED
    BY <1>1, <2>1, Zenon
<1>3. /\ Tail(s) \in Seq(S) /\ Len(Tail(s)) = Len(s) - 1 /\ DOMAIN Tail(s) = 1..Len(s) - 1 /\ DOMAIN s = 1..Len(s)
      /\ \A i \in 1..Len(s) - 1 : Tail(s)[i] = s[i + 1]
  BY <1>1
<1>4. Tail(s) # <<>>
  <2>1. Len(Tail(s)) # Len(<<>>)
    <3>1. Len(s) - 1 # 0
      BY <1>1, <1>2
    <3>. QED
      BY <1>3, <3>1
  <2>. QED
    BY <2>1
<1>5. \A i \in 1..Len(s) - 1 : i + 1 \in 1..Len(s)
  BY <1>1
<1>. QED
  BY <1>3, <1>4, <1>5

LEMMA LargeGoesOnIs ==
    ASSUME Types, Paged, large.pc # "idle", LargeGoesOn(large.left)
    PROVE  /\ large' \in LargeCalls /\ large'.pc \in {"idle", "read"}
           /\ large'.pc # "idle" => /\ large'.todo # <<>>
                                    /\ \A i \in DOMAIN large'.todo : \E j \in DOMAIN large.todo : large'.todo[i] = large.todo[j]
<1>1. large \in LargeCalls /\ large.todo \in Seq(Paths) /\ large.todo # <<>> /\ large.left \in Nat
  BY HeadIsPath DEF Types, LargeCalls
<1>2. <<>> \in Seq(Paths) /\ <<>> \in Texts /\ MaxBlocks \in Nat
  BY EmptyIs, NewPagesAssumption DEF NewPagesAssumption
<1>3. CASE large' = IdleLarge
  BY <1>2, <1>3 DEF IdleLarge, LargeCalls
<1>4. CASE Len(large.todo) # 1 /\ large' = [IdleLarge EXCEPT !.pc = "read", !.todo = Tail(large.todo), !.left = large.left]
  <2>1. /\ Tail(large.todo) \in Seq(Paths) /\ Tail(large.todo) # <<>>
        /\ \A i \in DOMAIN Tail(large.todo) : i + 1 \in DOMAIN large.todo /\ Tail(large.todo)[i] = large.todo[i + 1]
    BY <1>1, <1>4, TailIs
  <2>2. large' \in LargeCalls /\ large'.pc = "read" /\ large'.todo = Tail(large.todo)
    BY <1>1, <1>2, <1>4, <2>1 DEF IdleLarge, LargeCalls
  <2>. QED
    BY <2>1, <2>2
<1>. QED
  BY <1>3, <1>4 DEF LargeGoesOn

LEMMA LargeKeeps ==
    ASSUME KeepInv, SplitLarge
    PROVE  KeepInv'
<1>. DEFINE p0 == Head(large.todo)
            page == pages[Head(large.todo)]
<1>0. Types /\ Splitting /\ Paged /\ Seen /\ Carried
  BY DEF KeepInv
<1>1. UNCHANGED <<split, heal, moc, outline, before, deleted>> /\ large \in LargeCalls
  <2>1. UNCHANGED <<split, heal, moc, outline, before, deleted>>
    BY DEF SplitLarge, LargeBegin, LargeReads, LargeLocks, LargeCopies, LargeWrites, largeOnly
  <2>. QED
    BY <1>0, <2>1 DEF Types
<1>2. ASSUME Gentle, pages' \in Files, mtime' \in [Paths -> Nat], bak' \in Files, others' \in BOOLEAN,
             large' \in LargeCalls, LargeSeen',
             large'.pc # "idle" => large'.todo # <<>> /\ \A i \in DOMAIN large'.todo : pages'[large'.todo[i]] # None,
             \A p \in Paths \ {Main, Moc} : \A x : Carries(p, x) => Carries(p, x)'
      PROVE  KeepInv'
  <2>1. Splitting'
    BY <1>0, <1>1 DEF Splitting
  <2>2. SplitSeen' /\ HealSeen' /\ MocSeen' /\ OutlineSeen'
    BY <1>1, <1>2, OthersStay
  <2>3. Types'
    BY <1>0, <1>1, <1>2 DEF Types
  <2>4. Carried'
    BY <1>1, <1>2, CarriedStays
  <2>5. Paged'
    <3>1. pages'[Main] # None
      BY <1>0, <1>2, NamesAre DEF Paged, Gentle
    <3>2. outline.pc # "idle" =>
            /\ outline.page \in Paths /\ outline.at \in Paths /\ pages'[outline.page] # None
            /\ Len(outline.parent) = Outline[outline.next].d + 1
      BY <1>0, <1>2 DEF Paged, Gentle
    <3>3. outline.pc = "idle" => outline.next = 1
      BY <1>0 DEF Paged
    <3>. QED
      BY <1>1, <1>2, <3>1, <3>2, <3>3 DEF Paged
  <2>. QED
    BY <1>2, <2>1, <2>2, <2>3, <2>4, <2>5 DEF KeepInv, Seen
\* A step that only writes the call's own state, and looks at no page for its write.
<1>3. ASSUME UNCHANGED <<pages, mtime, bak, others>>, large' \in LargeCalls, large'.pc # "write",
             large'.pc # "idle" => large'.todo # <<>> /\ \A i \in DOMAIN large'.todo : pages[large'.todo[i]] # None,
             \A p \in Paths \ {Main, Moc} : \A x : Carries(p, x) => Carries(p, x)'
      PROVE  KeepInv'
  <2>1. Gentle
    BY <1>0, <1>3, StillIsGentle
  <2>2. pages' \in Files /\ mtime' \in [Paths -> Nat] /\ bak' \in Files /\ others' \in BOOLEAN
    BY <1>0, <1>3 DEF Types
  <2>3. LargeSeen'
    BY <1>3 DEF LargeSeen
  <2>4. large'.pc # "idle" => large'.todo # <<>> /\ \A i \in DOMAIN large'.todo : pages'[large'.todo[i]] # None
    BY <1>3
  <2>. QED
    BY <1>2, <1>3, <2>1, <2>2, <2>3, <2>4
<1>4. ASSUME large.pc # "idle"
      PROVE  /\ p0 \in Paths /\ page \in Texts /\ page # None /\ mtime[p0] \in Nat
             /\ large.todo # <<>> /\ \A i \in DOMAIN large.todo : pages[large.todo[i]] # None
  BY <1>0, <1>4, HeadIsPath DEF Types, Paged
<1>5. CASE LargeBegin
  <2>. DEFINE there == {p \in Paths : pages[p] # None}
  <2>1. PICK targets \in {<<Main>>, SetToSeq(there)} : large' = [large EXCEPT !.pc = "read", !.todo = targets]
    BY <1>5 DEF LargeBegin
  <2>2. UNCHANGED <<pages, mtime, bak, others>>
    BY <1>5 DEF LargeBegin
  <2>3. there \subseteq Paths /\ Main \in there /\ IsFiniteSet(there)
    BY <1>0, NamesAre, NewPagesAssumption, FS_Subset DEF Paged, NewPagesAssumption
  <2>4. targets \in Seq(there) /\ targets # <<>>
    <3>1. SetToSeq(there) \in Seq(there) /\ SetToSeq(there) # <<>>
      BY <2>3, SetToSeqIs
    <3>. HIDE DEF there
    <3>2. <<Main>> \in Seq(there) /\ <<Main>> # <<>>
      BY <2>3
    <3>. QED
      BY <3>1, <3>2
  <2>5. \A i \in DOMAIN targets : targets[i] \in there
    <3>. HIDE DEF there
    <3>. QED
      BY <2>4
  <2>6. targets \in Seq(Paths)
    <3>. HIDE DEF there
    <3>. QED
      BY <2>3, <2>4
  <2>7. large' \in LargeCalls /\ large'.pc = "read" /\ large'.todo = targets
    BY <1>1, <2>1, <2>6 DEF LargeCalls
  <2>8. \A p \in Paths \ {Main, Moc} : \A x : Carries(p, x) => Carries(p, x)'
    BY <1>1, <2>2, <2>7 DEF Carries, Keeps
  <2>9. \A i \in DOMAIN large'.todo : pages[large'.todo[i]] # None
    BY <2>5, <2>7
  <2>. QED
    BY <1>3, <2>2, <2>4, <2>7, <2>8, <2>9
<1>6. CASE LargeReads
  <2>1. /\ large.pc = "read" /\ UNCHANGED <<pages, mtime, bak, others>>
        /\ LargeGoesOn(large.left) \/ large' = [large EXCEPT !.pc = "lock", !.lines = page]
    BY <1>6 DEF LargeReads
  <2>2. CASE LargeGoesOn(large.left)
    <3>1. /\ large' \in LargeCalls /\ large'.pc \in {"idle", "read"}
          /\ large'.pc # "idle" => /\ large'.todo # <<>>
                                   /\ \A i \in DOMAIN large'.todo : \E j \in DOMAIN large.todo : large'.todo[i] = large.todo[j]
      BY <1>0, <2>1, <2>2, LargeGoesOnIs
    <3>2. \A p \in Paths \ {Main, Moc} : \A x : Carries(p, x) => Carries(p, x)'
      BY <1>1, <2>1, <3>1 DEF Carries, Keeps
    <3>3. large'.pc # "idle" => large'.todo # <<>> /\ \A i \in DOMAIN large'.todo : pages[large'.todo[i]] # None
      BY <1>4, <2>1, <3>1
    <3>. QED
      BY <1>3, <2>1, <3>1, <3>2, <3>3
  <2>3. CASE large' = [large EXCEPT !.pc = "lock", !.lines = page]
    <3>1. page \in Texts
      BY <1>4, <2>1
    <3>2. large' \in LargeCalls /\ large'.pc = "lock" /\ large'.todo = large.todo /\ large'.lines = page
      BY <1>1, <2>3, <3>1 DEF LargeCalls
    <3>3. \A p \in Paths \ {Main, Moc} : \A x : Carries(p, x) => Carries(p, x)'
      BY <1>1, <2>1, <3>2 DEF Carries, Keeps
    <3>. QED
      BY <1>3, <1>4, <2>1, <3>2, <3>3
  <2>. QED
    BY <2>1, <2>2, <2>3
<1>7. CASE LargeLocks
  <2>. DEFINE done == _process_page(large.lines, large.left)
  <2>1. /\ large.pc = "lock" /\ UNCHANGED <<pages, mtime, bak, others>>
        /\ large' = [large EXCEPT !.pc = "copy", !.lines = done.lines, !.left = done.left]
    BY <1>7 DEF LargeLocks
  <2>2. done.lines \in Texts /\ Keeps(large.lines) \subseteq Keeps(done.lines) /\ done.left \in Nat
    BY <1>1, ProcessPageIs DEF Reworks, LargeCalls
  <2>. HIDE DEF done
  <2>3. large' \in LargeCalls /\ large'.pc = "copy" /\ large'.todo = large.todo /\ large'.lines = done.lines
    BY <1>1, <2>1, <2>2 DEF LargeCalls
  <2>4. \A p \in Paths \ {Main, Moc} : \A x : Carries(p, x) => Carries(p, x)'
    BY <1>1, <2>1, <2>2, <2>3 DEF Carries, Keeps
  <2>. QED
    BY <1>3, <1>4, <2>1, <2>3, <2>4
<1>8. CASE LargeCopies
  <2>1. /\ large.pc = "copy" /\ UNCHANGED <<pages, mtime, others>> /\ bak' = [bak EXCEPT ![p0] = page]
        /\ large' = [large EXCEPT !.pc = "write", !.seen = mtime[p0]]
    BY <1>8 DEF LargeCopies
  <2>2. Gentle /\ bak' \in Files
    BY <1>0, <1>4, <2>1, CopiesGently
  <2>3. large' \in LargeCalls /\ large'.pc = "write" /\ large'.todo = large.todo /\ large'.lines = large.lines /\ large'.seen = mtime[p0]
    BY <1>1, <1>4, <2>1 DEF LargeCalls
  <2>4. LargeSeen'
    <3>1. bak'[p0] = page
      BY <1>0, <1>4, <2>1 DEF Types, Files
    <3>2. mtime'[p0] = mtime[p0] /\ mtime[p0] <= mtime[p0] /\ pages' = pages
      BY <1>4, <2>1
    <3>. QED
      BY <2>3, <3>1, <3>2 DEF LargeSeen
  <2>5. \A p \in Paths \ {Main, Moc} : \A x : Carries(p, x) => Carries(p, x)'
    BY <1>1, <2>1, <2>3 DEF Carries, Keeps
  <2>6. pages' \in Files /\ mtime' \in [Paths -> Nat] /\ others' \in BOOLEAN
    BY <1>0, <2>1 DEF Types
  <2>7. large'.todo # <<>> /\ \A i \in DOMAIN large'.todo : pages'[large'.todo[i]] # None
    BY <1>4, <2>1, <2>3
  <2>. QED
    BY <1>2, <2>2, <2>3, <2>4, <2>5, <2>6, <2>7
<1>9. CASE LargeWrites
  <2>1. large.pc = "write" /\ Writes(p0, large.lines) /\ others' = TRUE /\ LargeGoesOn(large.left) /\ bak' = bak
    BY <1>9 DEF LargeWrites
  <2>2. large.lines \in Texts /\ p0 \in Paths
    BY <1>1, <1>4, <2>1 DEF LargeCalls
  <2>. HIDE DEF p0
  <2>3. /\ Gentle /\ pages' \in Files /\ mtime' \in [Paths -> Nat] /\ pages'[p0] = large.lines
        /\ \A q \in Paths : q # p0 => pages'[q] = pages[q]
    BY <1>0, <2>1, <2>2, WritesGently, WritesIs
  <2>4. /\ large' \in LargeCalls /\ large'.pc \in {"idle", "read"}
        /\ large'.pc # "idle" => /\ large'.todo # <<>>
                                 /\ \A i \in DOMAIN large'.todo : \E j \in DOMAIN large.todo : large'.todo[i] = large.todo[j]
    BY <1>0, <2>1, LargeGoesOnIs
  <2>5. ASSUME NEW p \in Paths \ {Main, Moc}, NEW x, Carries(p, x)  PROVE Carries(p, x)'
    <3>1. x \in Keeps(pages'[p])
      BY <2>1, <2>3, <2>5 DEF Carries, p0
    <3>. QED
      BY <1>1, <2>4, <2>5, <3>1 DEF Carries, Keeps
  <2>6. large'.pc # "idle" => large'.todo # <<>> /\ \A i \in DOMAIN large'.todo : pages'[large'.todo[i]] # None
    <3>1. \A j \in DOMAIN large.todo : large.todo[j] \in Paths /\ pages[large.todo[j]] # None
      BY <1>1, <1>4, <2>1 DEF LargeCalls
    <3>2. \A j \in DOMAIN large.todo : pages'[large.todo[j]] # None
      BY <2>3, <3>1 DEF Gentle
    <3>. QED
      BY <2>4, <3>2
  <2>7. LargeSeen'
    BY <2>4 DEF LargeSeen
  <2>8. bak' \in Files /\ others' \in BOOLEAN
    BY <1>0, <2>1 DEF Types
  <2>. QED
    BY <1>2, <2>3, <2>4, <2>5, <2>6, <2>7, <2>8
<1>. QED
  BY <1>5, <1>6, <1>7, <1>8, <1>9 DEF SplitLarge

\* The human adds a line and loses none, or deletes one.
LEMMA AddsIs ==
    ASSUME Types, Adds
    PROVE  /\ UNCHANGED <<bak, split, heal, moc, outline, large, before, deleted>> /\ others' = TRUE
           /\ \E p \in Paths, content \in Texts :
                 /\ Writes(p, content) /\ Keeps(pages[p]) \subseteq Keeps(content)
                 /\ Bullets(content) \subseteq NewBlocks \cup (IF pages[p] = None THEN {} ELSE Bullets(pages[p]))
                 /\ (pages[p] # None => Once(pages[p])) => Once(content)
<1>1. UNCHANGED <<bak, split, heal, moc, outline, large, before, deleted>> /\ others' = TRUE
  BY DEF Adds, Edits, callsOnly
<1>2. PICK p \in Paths, b \in NewBlocks :
        IF pages[p] = None THEN Writes(p, <<Bullet(b, 0)>>)
        ELSE \E i \in DOMAIN pages[p], deeper \in {0, 1} :
               Writes(p, Replaced(pages[p], i + 1, i, <<Bullet(b, pages[p][i].d + deeper)>>))
  BY DEF Adds
<1>3. b \in Names /\ b # Under
  BY NamesAre, NewPagesAssumption DEF NewPagesAssumption
<1>4. CASE pages[p] = None
  <2>. DEFINE content == <<Bullet(b, 0)>>
  <2>1. content \in Texts /\ Bullets(content) = {b} /\ DOMAIN content = {1} /\ content[1].b = b
    BY <1>3, BulletIs, OneLine
  <2>2. Writes(p, content)
    BY <1>2, <1>4
  <2>3. Once(content)
    BY <2>1 DEF Once
  <2>. HIDE DEF content
  <2>4. /\ Writes(p, content) /\ Keeps(pages[p]) \subseteq Keeps(content)
        /\ Bullets(content) \subseteq NewBlocks \cup (IF pages[p] = None THEN {} ELSE Bullets(pages[p]))
        /\ (pages[p] # None => Once(pages[p])) => Once(content)
    BY <1>4, <2>1, <2>2, <2>3, KeepsOfNone
  <2>. QED
    BY <1>1, <2>1, <2>4
<1>5. CASE pages[p] # None
  <2>1. PICK i \in DOMAIN pages[p], deeper \in {0, 1} :
          Writes(p, Replaced(pages[p], i + 1, i, <<Bullet(b, pages[p][i].d + deeper)>>))
    BY <1>2, <1>5
  <2>. DEFINE page == pages[p]
              new == <<Bullet(b, page[i].d + deeper)>>
              content == Replaced(page, i + 1, i, new)
  <2>2. page \in Texts
    BY <1>5 DEF Types, Files
  <2>3. DOMAIN page = 1..Len(page) /\ Len(page) \in Nat /\ page[i].d \in Nat
    BY <2>2 DEF Texts, GoodLines, Lines
  <2>4. i \in Nat /\ i + 1 \in 1..Len(page) + 1 /\ i >= (i + 1) - 1 /\ (i + 1)..i = {} /\ page[i].d + deeper \in Nat
    BY <2>3
  <2>5. new \in Texts /\ Bullets(new) = {b} /\ DOMAIN new = {1} /\ new[1].b = b
    BY <1>3, <2>4, BulletIs, OneLine
  <2>6. Writes(p, content)
    BY <2>1
  <2>. HIDE DEF new, page
  <2>7. /\ content \in Texts
        /\ \A x \in Keeps(page) : x \in Keeps(content) \/ \E k \in DOMAIN page \cap (i + 1)..i : x \in Text(page[k])
        /\ Bullets(content) \subseteq Bullets(page) \cup Bullets(new)
    BY <2>2, <2>4, <2>5, KeepsReplaced
  <2>8. Once(page) => Once(content)
    <3>1. SUFFICES ASSUME Once(page)  PROVE Once(content)
      OBVIOUS
    <3>2. \A j \in DOMAIN new : new[j].b # Under
      BY <1>3, <2>5
    <3>. QED
      BY <2>2, <2>4, <2>5, <3>1, <3>2, OnceReplaced
  <2>. HIDE DEF content
  <2>9. /\ Writes(p, content) /\ Keeps(pages[p]) \subseteq Keeps(content)
        /\ Bullets(content) \subseteq NewBlocks \cup (IF pages[p] = None THEN {} ELSE Bullets(pages[p]))
        /\ (pages[p] # None => Once(pages[p])) => Once(content)
    <3>1. Keeps(page) \subseteq Keeps(content)
      BY <2>4, <2>7
    <3>2. Bullets(content) \subseteq NewBlocks \cup Bullets(page)
      BY <2>5, <2>7
    <3>. QED
      BY <1>5, <2>6, <2>8, <3>1, <3>2 DEF page
  <2>. QED
    BY <1>1, <2>7, <2>9
<1>. QED
  BY <1>4, <1>5

LEMMA DeletesIs ==
    ASSUME Types, Deletes
    PROVE  /\ UNCHANGED <<bak, split, heal, moc, outline, large, before>> /\ others' = TRUE
           /\ deleted \subseteq deleted'
           /\ \E p \in Paths, content \in Texts :
                 /\ Writes(p, content) /\ Keeps(pages[p]) \subseteq Keeps(content) \cup deleted'
                 /\ pages[p] # None /\ Bullets(content) \subseteq Bullets(pages[p])
                 /\ Once(pages[p]) => Once(content)
<1>1. UNCHANGED <<bak, split, heal, moc, outline, large, before>> /\ others' = TRUE
  BY DEF Deletes, Edits, callsOnly
<1>2. PICK p \in Paths : \E i \in DOMAIN (IF pages[p] = None THEN <<>> ELSE pages[p]) :
        /\ SubtreeEnd(pages[p], i) = i /\ Writes(p, Replaced(pages[p], i, i, <<>>))
        /\ deleted' = deleted \cup Text(pages[p][i])
  BY DEF Deletes
<1>3. PICK i \in DOMAIN (IF pages[p] = None THEN <<>> ELSE pages[p]) :
        /\ Writes(p, Replaced(pages[p], i, i, <<>>)) /\ deleted' = deleted \cup Text(pages[p][i])
  BY <1>2
<1>4. pages[p] # None /\ i \in DOMAIN pages[p]
  BY <1>3
<1>. DEFINE page == pages[p]
            content == Replaced(page, i, i, <<>>)
<1>5. page \in Texts
  BY <1>4 DEF Types, Files
<1>6. i \in Nat /\ i \in 1..Len(page) + 1 /\ i >= i - 1 /\ \A k \in i..i : k = i
  BY <1>4, <1>5 DEF Texts
<1>7. Writes(p, content)
  BY <1>3
<1>. HIDE DEF page
<1>8. /\ content \in Texts
      /\ \A x \in Keeps(page) : x \in Keeps(content) \/ \E k \in DOMAIN page \cap i..i : x \in Text(page[k])
      /\ Bullets(content) \subseteq Bullets(page) \cup Bullets(<<>>)
  BY <1>5, <1>6, EmptyIs, KeepsReplaced
<1>9. Once(page) => Once(content)
  <2>1. SUFFICES ASSUME Once(page)  PROVE Once(content)
    OBVIOUS
  <2>2. \A j \in DOMAIN <<>> : <<>>[j].b = Under => j = 1 /\ i <= i /\ i \in DOMAIN page /\ page[i].b = Under
    BY EmptyIs
  <2>. QED
    BY <1>5, <1>6, <2>1, <2>2, EmptyIs, OnceReplaced
<1>10. Keeps(page) \subseteq Keeps(content) \cup deleted' /\ Bullets(content) \subseteq Bullets(page)
  BY <1>3, <1>6, <1>8, EmptyIs DEF page
<1>. HIDE DEF content
<1>. QED
  BY <1>1, <1>3, <1>4, <1>7, <1>8, <1>9, <1>10 DEF page

LEMMA HumanKeeps ==
    ASSUME KeepInv, Adds \/ Deletes
    PROVE  KeepInv'
<1>0. Types /\ Splitting /\ Paged /\ Seen /\ Carried
  BY DEF KeepInv
<1>1. /\ UNCHANGED <<bak, split, heal, moc, outline, large, before>> /\ others' = TRUE /\ deleted \subseteq deleted'
      /\ \E p \in Paths, content \in Texts : Writes(p, content) /\ Keeps(pages[p]) \subseteq Keeps(content) \cup deleted'
  BY <1>0, AddsIs, DeletesIs
<1>2. PICK p \in Paths, content \in Texts : Writes(p, content) /\ Keeps(pages[p]) \subseteq Keeps(content) \cup deleted'
  BY <1>1
<1>3. /\ Gentle /\ pages' \in Files /\ mtime' \in [Paths -> Nat] /\ pages'[p] = content
      /\ \A q \in Paths : q # p => pages'[q] = pages[q]
  BY <1>0, <1>1, <1>2, WritesGently, WritesIs
<1>4. bak' \in Files
  BY <1>0, <1>1 DEF Types
<1>5. Splitting'
  BY <1>0, <1>1 DEF Splitting
<1>6. SplitSeen' /\ HealSeen' /\ MocSeen' /\ OutlineSeen' /\ LargeSeen' /\ Paged'
  BY <1>1, <1>3, <1>4, OthersStay
<1>7. Types'
  BY <1>0, <1>1, <1>3 DEF Types
<1>8. ASSUME NEW q \in Paths \ {Main, Moc}, NEW x, Carries(q, x)  PROVE x \in deleted' \/ Carries(q, x)'
  <2>1. x \in Keeps(pages'[q]) \/ x \in deleted'
    BY <1>2, <1>3, <1>8 DEF Carries
  <2>. QED
    BY <1>1, <1>8, <2>1 DEF Carries, Keeps
<1>9. Carried'
  BY <1>1, <1>3, <1>8, CarriedStays
<1>. QED
  BY <1>5, <1>6, <1>7, <1>9 DEF KeepInv, Seen

LEMMA IdleIs ==
    /\ IdleSplit \in SplitCalls /\ IdleHeal \in HealCalls /\ IdleMoc \in MocCalls /\ IdleLarge \in LargeCalls
    /\ IdleSplit.pc = "idle" /\ IdleSplit.todo = {} /\ IdleHeal.pc = "idle" /\ IdleMoc.pc = "idle" /\ IdleLarge.pc = "idle"
<1>1. <<>> \in Texts /\ <<>> \in Seq(Paths) /\ MaxBlocks \in Nat
  BY EmptyIs, NewPagesAssumption DEF NewPagesAssumption
<1>. QED
  BY <1>1 DEF IdleSplit, SplitCalls, IdleHeal, HealCalls, IdleMoc, MocCalls, IdleLarge, LargeCalls

LEMMA DeathKeeps ==
    ASSUME KeepInv, DaemonDies \/ ServerDies
    PROVE  KeepInv'
<1>0. Types /\ Splitting /\ Paged /\ Seen /\ Carried
  BY DEF KeepInv
<1>1. UNCHANGED <<pages, mtime, bak, before, others, deleted>>
  BY DEF DaemonDies, ServerDies, Faults
<1>2. Gentle /\ pages' \in Files /\ mtime' \in [Paths -> Nat] /\ bak' \in Files
  BY <1>0, <1>1, StillIsGentle DEF Types
<1>3. CASE DaemonDies
  <2>1. split' = IdleSplit /\ heal' = IdleHeal /\ UNCHANGED <<moc, outline, large>>
    BY <1>3 DEF DaemonDies
  <2>2. MocSeen' /\ OutlineSeen' /\ LargeSeen' /\ Paged'
    BY <1>2, <2>1, OthersStay
  <2>3. split' \in SplitCalls /\ heal' \in HealCalls /\ split'.pc = "idle" /\ split'.todo = {} /\ heal'.pc = "idle"
    BY <2>1, IdleIs
  <2>4. Types'
    BY <1>0, <1>1, <1>2, <2>1, <2>3 DEF Types
  <2>5. Splitting' /\ SplitSeen' /\ HealSeen' /\ Carried'
    BY <2>3 DEF Splitting, SplitSeen, HealSeen, Carried
  <2>. QED
    BY <2>2, <2>4, <2>5 DEF KeepInv, Seen
<1>4. CASE ServerDies
  <2>. DEFINE pc == IF outline.pc = "idle" THEN outline.pc ELSE "killed"
  <2>1. /\ moc' = IdleMoc /\ large' = IdleLarge /\ UNCHANGED <<split, heal>>
        /\ outline' = [outline EXCEPT !.pc = pc]
    BY <1>4 DEF ServerDies
  <2>2. SplitSeen' /\ HealSeen' /\ Splitting'
    BY <1>2, <2>1, OthersStay
  <2>3. moc' \in MocCalls /\ large' \in LargeCalls /\ moc'.pc = "idle" /\ large'.pc = "idle"
    BY <2>1, IdleIs
  <2>4. pc \in {"idle", "killed"} /\ (pc = "idle" <=> outline.pc = "idle")
    OBVIOUS
  <2>. HIDE DEF pc
  <2>5. /\ outline' \in OutlineCalls /\ outline'.pc = pc /\ outline'.page = outline.page /\ outline'.at = outline.at
        /\ outline'.base = outline.base /\ outline'.next = outline.next /\ outline'.parent = outline.parent
    BY <1>0, <2>1, <2>4 DEF Types, OutlineCalls, OutlineEnds
  <2>6. Types'
    BY <1>0, <1>1, <1>2, <2>1, <2>3, <2>5 DEF Types
  <2>7. MocSeen' /\ LargeSeen'
    BY <2>3 DEF MocSeen, LargeSeen
  <2>8. OutlineSeen' /\ Paged'
    BY <1>0, <1>1, <2>3, <2>4, <2>5 DEF OutlineSeen, Paged, Seen
  <2>9. Carried'
    <3>1. ASSUME NEW p, NEW x, Carries(p, x)  PROVE Carries(p, x)'
      BY <1>1, <2>3, <2>4, <2>5, <3>1 DEF Carries, Keeps
    <3>. QED
      BY <1>1, <1>2, <2>1, <3>1, CarriedStays
  <2>. QED
    BY <2>2, <2>6, <2>7, <2>8, <2>9 DEF KeepInv, Seen
<1>. QED
  BY <1>3, <1>4

LEMMA KeepNext ==
    ASSUME MocIsNoChild, KeepInv, [Next]_vars
    PROVE  KeepInv'
<1>1. CASE UNCHANGED vars
  BY <1>1 DEF vars, KeepInv, Types, Splitting, Paged, Seen, SplitSeen, HealSeen, MocSeen, OutlineSeen, LargeSeen,
              Carried, Carries, Keeps, Current
<1>. QED
  BY <1>1, SplitKeeps, HealKeeps, MocKeeps, OutlineKeeps, LargeKeeps, HumanKeeps, DeathKeeps DEF Next

\* What a call reads is a page of the type it works on, it never writes over a
\* page it has not looked for, and a split's blocks are somewhere at every step.
THEOREM KeepInvariant == MocIsNoChild => (Spec => []KeepInv)
<1>1. ASSUME MocIsNoChild  PROVE Init /\ [][Next]_vars => []KeepInv
  <2>1. KeepInv /\ [Next]_vars => KeepInv'
    BY <1>1, KeepNext
  <2>. QED
    BY <2>1, KeepInit, PTL
<1>. QED
  BY <1>1 DEF Spec

LEMMA HeldStays ==
    ASSUME \A p \in Paths : bak[p] \in {None, bak'[p]},
           \A p \in Paths : \A x \in Keeps(pages[p]) :
               x \in deleted' \/ \E q \in Paths : x \in Keeps(pages'[q]) \cup Keeps(bak'[q])
    PROVE  Held \ deleted' \subseteq Held'
<1>1. Held' = Blocks \cap UNION {Keeps(pages'[p]) \cup Keeps(bak'[p]) : p \in Paths}
  BY DEF Held, Keeps
<1>2. SUFFICES ASSUME NEW x \in Held, x \notin deleted'
               PROVE  \E q \in Paths : x \in Keeps(pages'[q]) \cup Keeps(bak'[q])
  BY <1>1 DEF Held
<1>3. PICK p \in Paths : x \in Keeps(pages[p]) \/ x \in Keeps(bak[p])
  BY DEF Held
<1>4. CASE x \in Keeps(pages[p])
  BY <1>2, <1>4
<1>5. CASE x \in Keeps(bak[p])
  <2>1. bak[p] = bak'[p]
    BY <1>5, KeepsOfNone
  <2>. QED
    BY <1>5, <2>1
<1>. QED
  BY <1>3, <1>4, <1>5

\* Whoever writes leaves each block somewhere, or is late, or trusts the child of
\* another split, or copies over a .bak.
LEMMA StepKeepsBlocks ==
    ASSUME KeepInv, Next
    PROVE  \/ Held \ deleted' \subseteq Held'
           \/ SplitReplaces /\ split.reused
           \/ \E p \in Paths : bak[p] \notin {None, bak'[p]}
           \/ Late
<1>0. Types /\ Splitting /\ Paged /\ Seen /\ Carried
  BY DEF KeepInv
<1>. SUFFICES ASSUME ~(SplitReplaces /\ split.reused), \A p \in Paths : bak[p] \in {None, bak'[p]}, ~Late
              PROVE  Held \ deleted' \subseteq Held'
  OBVIOUS
<1>1. ASSUME UNCHANGED pages
      PROVE  Held \ deleted' \subseteq Held'
  BY <1>1, HeldStays
<1>2. ASSUME NEW p \in Paths, NEW content \in Texts, Writes(p, content),
             \A x \in Keeps(pages[p]) :
                 x \in deleted' \/ x \in Keeps(content) \/ x \in Keeps(bak'[p])
                     \/ \E q \in Paths \ {p} : x \in Keeps(pages[q])
      PROVE  Held \ deleted' \subseteq Held'
  <2>1. pages'[p] = content /\ \A q \in Paths : q # p => pages'[q] = pages[q]
    BY <1>0, <1>2, WritesIs
  <2>2. \A q \in Paths : \A x \in Keeps(pages[q]) :
           x \in deleted' \/ \E r \in Paths : x \in Keeps(pages'[r]) \cup Keeps(bak'[r])
    BY <1>2, <2>1
  <2>. QED
    BY <2>2, HeldStays
<1>3. CASE Split
  <2>1. CASE SplitWritesChild
    <3>. DEFINE c == Current
                base == split.lines[c.first].d
                below == [i \in DOMAIN Subtree(c) |->
                             [Subtree(c)[i] EXCEPT !.d = IF @ < base THEN 0 ELSE @ - base]]
                child == <<Bullet(Main, 0)>> \o below
    <3>1. split.pc = "child" /\ Writes(c.child, child)
      BY <2>1 DEF SplitWritesChild
    <3>2. /\ c.child \in Paths /\ c.first \in DOMAIN split.lines /\ c.first \in Nat /\ split \in SplitCalls
          /\ Reach(c) \in c.first..Len(split.lines)
      BY <1>0, <3>1, TakenIs DEF Types
    <3>3. pages[c.child] = None
      BY <1>0, <3>1 DEF Late, Seen, SplitSeen
    <3>. HIDE DEF c
    <3>4. child \in Texts
      <4>1. below = [i \in DOMAIN Subtree(c) |-> [Subtree(c)[i] EXCEPT !.d = IF @ < base THEN 0 ELSE @ - base]]
        OBVIOUS
      <4>. HIDE DEF base, below
      <4>2. base = split.lines[c.first].d
        BY DEF base
      <4>. QED
        BY <3>2, <4>1, <4>2, ChildIs
    <3>. HIDE DEF child
    <3>. QED
      BY <1>2, <3>1, <3>2, <3>3, <3>4, KeepsOfNone
  <2>2. CASE SplitReplaces
    <3>1. split.pc = "replace" /\ Writes(Main, split.lines) /\ deleted' = deleted /\ ~split.reused
      BY <2>2 DEF SplitReplaces
    <3>2. split.lines \in Texts /\ Main \in Paths
      BY <1>0, NamesAre DEF Types, SplitCalls
    <3>3. split.base = mtime[Main]
      BY <1>0, <3>1 DEF Late, Seen, SplitSeen
    <3>4. \A x \in Keeps(pages[Main]) :
             x \in Keeps(split.lines) \cup deleted \/ \E q \in Paths \ {Main} : x \in Keeps(pages[q])
      BY <1>0, <3>1, <3>3 DEF Carried, Carries
    <3>. QED
      BY <1>2, <3>1, <3>2, <3>4
  <2>3. CASE SplitBegin \/ SplitLocks \/ SplitLooks \/ SplitChecks \/ SplitEnds
    BY <1>1, <2>3 DEF SplitBegin, SplitLocks, SplitLooks, SplitChecks, SplitEnds, splitOnly
  <2>. QED
    BY <1>3, <2>1, <2>2, <2>3 DEF Split
<1>4. CASE Heal
  <2>1. CASE HealWrites
    <3>1. heal.pc = "write" /\ Writes(Target, <<Bullet(Main, 0)>>)
      BY <2>1 DEF HealWrites
    <3>2. pages[Target] = None
      BY <1>0, <3>1 DEF Late, Seen, HealSeen
    <3>3. <<Bullet(Main, 0)>> \in Texts /\ Target \in Paths
      BY OneLine, BulletIs, NamesAre
    <3>. QED
      BY <1>2, <3>1, <3>2, <3>3, KeepsOfNone
  <2>. QED
    BY <1>1, <1>4, <2>1 DEF Heal, HealBegin, HealLocks, healOnly
<1>5. CASE MapOfContent
  <2>1. CASE MocWrites
    <3>. DEFINE new == [i \in 1..Cardinality(moc.rows) |-> Bullet(SetToSeq(moc.rows)[i], 0)]
    <3>1. moc.pc = "write" /\ Writes(Moc, new) /\ bak' = bak
      BY <2>1 DEF MocWrites
    <3>2. pages[Moc] \in {None, bak[Moc]}
      BY <1>0, <3>1 DEF Late, Seen, MocSeen
    <3>3. new \in Texts /\ Moc \in Paths
      BY <1>0, MapIs, NamesAre DEF Types, MocCalls
    <3>. HIDE DEF new
    <3>. QED
      BY <1>2, <3>1, <3>2, <3>3, KeepsOfNone
  <2>. QED
    BY <1>1, <1>5, <2>1 DEF MapOfContent, MocBegin, MocLocks, MocCopies, mocOnly
<1>6. CASE WriteOutline
  <2>1. CASE OutlineReplaces
    <3>1. outline.pc = "replace" /\ Writes(outline.page, outline.lines)
      BY <2>1 DEF OutlineReplaces
    <3>2. outline.page \in Paths /\ outline.lines \in Texts
      BY <1>0, <3>1 DEF Paged, Types, OutlineCalls
    <3>3. Keeps(pages[outline.page]) \subseteq Keeps(outline.lines)
      BY <1>0, <3>1 DEF Late, Seen, OutlineSeen
    <3>. QED
      BY <1>2, <3>1, <3>2, <3>3
  <2>. QED
    BY <1>1, <1>6, <2>1 DEF WriteOutline, OutlineBegin, OutlineLooks, OutlineLocks, OutlineChecks,
                            OutlineRefreshes, OutlineChains
<1>7. CASE SplitLarge
  <2>1. CASE LargeWrites
    <3>1. large.pc = "write" /\ Writes(Head(large.todo), large.lines) /\ bak' = bak
      BY <2>1 DEF LargeWrites
    <3>2. Head(large.todo) \in Paths /\ large.lines \in Texts
      BY <1>0, <3>1, HeadIsPath DEF Types, LargeCalls
    <3>3. pages[Head(large.todo)] = bak[Head(large.todo)]
      BY <1>0, <3>1 DEF Late, Seen, LargeSeen
    <3>. QED
      BY <1>2, <3>1, <3>2, <3>3
  <2>. QED
    BY <1>1, <1>7, <2>1 DEF SplitLarge, LargeBegin, LargeReads, LargeLocks, LargeCopies
<1>8. CASE Adds \/ Deletes
  <2>1. \E p \in Paths, content \in Texts : Writes(p, content) /\ Keeps(pages[p]) \subseteq Keeps(content) \cup deleted'
    BY <1>0, <1>8, AddsIs, DeletesIs
  <2>. QED
    BY <1>2, <2>1
<1>9. CASE DaemonDies \/ ServerDies
  BY <1>1, <1>9 DEF DaemonDies, ServerDies, Faults
<1>. QED
  BY <1>3, <1>4, <1>5, <1>6, <1>7, <1>8, <1>9 DEF Next

\* run_auto_split, write_moc_page, run_dangling_healer, _headless_write_outline,
\* refactor_large_blocks: through aborted splits, retries, kills, stale reads and
\* each other's steps a block and each sentence of it stays in the graph or in a
\* .bak until the human deletes it, but in the four cases BlocksKept names.
THEOREM NoBlockIsLost == MocIsNoChild => (Spec => BlocksKept)
<1>. DEFINE A == \/ Held \ deleted' \subseteq Held'
                 \/ SplitReplaces /\ split.reused
                 \/ \E p \in Paths : bak[p] \notin {None, bak'[p]}
                 \/ Late
<1>1. ASSUME MocIsNoChild  PROVE Spec => BlocksKept
  <2>1. KeepInv /\ [Next]_vars => [A]_vars
    BY StepKeepsBlocks
  <2>. HIDE DEF A
  <2>2. Spec => [][A]_vars
    BY <1>1, <2>1, KeepInvariant, PTL DEF Spec
  <2>. QED
    BY <2>2 DEF BlocksKept, A
<1>. QED
  BY <1>1

-----------------------------------------------------------------------------
(* The page with the first nodes of the outline *)

LEMMA SameLines ==
    ASSUME NEW r \in Texts, NEW s \in Texts, Len(r) = Len(s), \A i \in 1..Len(r) : r[i] = s[i]
    PROVE  r = s
BY DEF Texts

\* The last bullet below a bullet is known by its neighbours.
LEMMA EndIs ==
    ASSUME NEW s \in Texts, NEW i \in DOMAIN s, NEW e \in i..Len(s),
           \A j \in i + 1..e : s[j].d > s[i].d, e < Len(s) => s[e + 1].d <= s[i].d
    PROVE  SubtreeEnd(s, i) = e
<1>. DEFINE f == SubtreeEnd(s, i)
<1>1. Len(s) \in Nat /\ DOMAIN s = 1..Len(s) /\ \A j \in DOMAIN s : s[j].d \in Nat
  BY DEF Texts, GoodLines, Lines
<1>2. /\ f \in i..Len(s) /\ \A j \in i + 1..f : s[j].d > s[i].d
      /\ f < Len(s) => s[f + 1].d <= s[i].d
  BY EndIsBelow
<1>. HIDE DEF f
<1>3. i \in Nat /\ e \in Nat /\ f \in Nat /\ e <= Len(s) /\ f <= Len(s) /\ i <= e /\ i <= f
  BY <1>1, <1>2
<1>4. ASSUME e < f  PROVE FALSE
  <2>1. e + 1 \in i + 1..f /\ e < Len(s) /\ e + 1 \in DOMAIN s
    BY <1>1, <1>3, <1>4
  <2>. QED
    BY <1>1, <1>2, <2>1
<1>5. ASSUME f < e  PROVE FALSE
  <2>1. f + 1 \in i + 1..e /\ f < Len(s) /\ f + 1 \in DOMAIN s
    BY <1>1, <1>3, <1>5
  <2>. QED
    BY <1>1, <1>2, <2>1
<1>6. e = f
  BY <1>3, <1>4, <1>5
<1>. QED
  BY <1>6 DEF f

LEMMA CapturedIs ==
    ASSUME NEW page, Captured(page), NEW i, i = IndexOf(page, Under), NEW end, end = SubtreeEnd(page, i)
    PROVE  /\ page \in Texts /\ Len(page) \in Nat /\ DOMAIN page = 1..Len(page)
           /\ i \in DOMAIN page /\ i \in Nat /\ end \in Nat /\ i <= end /\ end <= Len(page)
           /\ page[i].b = Under /\ page[i].d \in Nat
           /\ \A j \in DOMAIN page : page[j].b = Under => j = i
           /\ \A j \in DOMAIN page : page[j].b \notin Nodes
           /\ \A j \in i + 1..end : page[j].d > page[i].d
           /\ end < Len(page) => page[end + 1].d <= page[i].d
<1>1. page \in Texts /\ Once(page) /\ Under \in Bullets(page) /\ Nodes \cap Bullets(page) = {}
  BY DEF Captured
<1>2. Len(page) \in Nat /\ DOMAIN page = 1..Len(page) /\ \A j \in DOMAIN page : page[j].d \in Nat
  BY <1>1 DEF Texts, GoodLines, Lines
<1>3. i \in DOMAIN page /\ page[i].b = Under
  BY <1>1 DEF IndexOf, Bullets
<1>4. /\ end \in i..Len(page) /\ \A j \in i + 1..end : page[j].d > page[i].d
      /\ end < Len(page) => page[end + 1].d <= page[i].d
  BY <1>1, <1>3, EndIsBelow
<1>5. i \in Nat /\ end \in Nat /\ i <= end /\ end <= Len(page)
  BY <1>2, <1>3, <1>4
<1>6. \A j \in DOMAIN page : (page[j].b = Under => j = i) /\ page[j].b \notin Nodes
  BY <1>1, <1>3 DEF Once, Bullets
<1>. QED
  BY <1>1, <1>2, <1>3, <1>4, <1>5, <1>6

\* Where the lines of the page and the nodes are on it.
Lays(w, page, k, i, end) ==
    /\ w \in Texts /\ Len(w) = Len(page) + k
    /\ \A j \in 1..end : w[j] = page[j]
    /\ \A j \in 1..k : /\ w[end + j] = Bullet(Outline[j].b, page[i].d + 1 + Outline[j].d)
                       /\ w[end + j].b = Outline[j].b /\ w[end + j].d = page[i].d + 1 + Outline[j].d
    /\ \A j \in 1..Len(page) - end : w[end + k + j] = page[end + j]

LEMMA WithFirstLays ==
    ASSUME NEW page, Captured(page), NEW k \in 0..Len(Outline),
           NEW i, i = IndexOf(page, Under), NEW end, end = SubtreeEnd(page, i)
    PROVE  Lays(WithFirst(page, k), page, k, i, end)
<1>. DEFINE new == [j \in 1..k |-> Bullet(Outline[j].b, page[i].d + 1 + Outline[j].d)]
            w == WithFirst(page, k)
            t == Len(page) - end
<1>1. /\ page \in Texts /\ Len(page) \in Nat /\ end \in Nat /\ end <= Len(page) /\ page[i].d \in Nat
  BY CapturedIs
<1>2. Len(Outline) \in Nat /\ k \in Nat /\ \A j \in 1..k : j \in DOMAIN Outline
  BY NamesAre
<1>3. ASSUME NEW j \in 1..k
      PROVE  Outline[j].b \in Names /\ Outline[j].d \in Nat /\ page[i].d + 1 + Outline[j].d \in Nat
  <2>1. j \in DOMAIN Outline
    BY <1>2
  <2>2. Outline[j].b \in Names /\ Outline[j].d \in Nat
    BY <2>1, NodesAre
  <2>3. \A m, n \in Nat : m + 1 + n \in Nat
    OBVIOUS
  <2>. QED
    BY <1>1, <2>2, <2>3, Zenon
<1>4. \A j \in 1..k : /\ Bullet(Outline[j].b, page[i].d + 1 + Outline[j].d) \in GoodLines
                      /\ Bullet(Outline[j].b, page[i].d + 1 + Outline[j].d).b = Outline[j].b
                      /\ Bullet(Outline[j].b, page[i].d + 1 + Outline[j].d).d = page[i].d + 1 + Outline[j].d
  BY <1>3, BulletIs DEF Bullet
<1>5. new \in Texts /\ Len(new) = k
  <2>1. new \in [1..k -> GoodLines]
    BY <1>4
  <2>. HIDE DEF new
  <2>. QED
    BY <1>2, <2>1 DEF Texts
<1>6. w = Replaced(page, end + 1, end, new)
  BY DEF WithFirst
<1>7. \A j \in 1..k : new[j] = Bullet(Outline[j].b, page[i].d + 1 + Outline[j].d)
  OBVIOUS
<1>. HIDE DEF new, w
<1>8. Between(w, page, end + 1, end, new, t)
  <2>1. end + 1 \in 1..Len(page) + 1 /\ end >= (end + 1) - 1 /\ t \in Nat
    BY <1>1
  <2>2. (end < Len(page) => end + t = Len(page)) /\ (end >= Len(page) => t = 0)
    BY <1>1
  <2>. HIDE DEF t
  <2>. QED
    BY <1>1, <1>5, <1>6, <2>1, <2>2, ReplacedIs
<1>9. /\ w \in Texts /\ Len(w) = (end + 1) - 1 + Len(new) + t
      /\ \A j \in 1..(end + 1) - 1 : w[j] = page[j]
      /\ \A j \in 1..Len(new) : w[(end + 1) - 1 + j] = new[j]
      /\ \A j \in 1..t : w[(end + 1) - 1 + Len(new) + j] = page[end + j]
  BY <1>8 DEF Between
<1>10. (end + 1) - 1 = end /\ end + k + t = Len(page) + k
  BY <1>1, <1>2
<1>11. \A j \in 1..k : w[end + j] = new[j]
  BY <1>5, <1>9, <1>10
<1>12. \A j \in 1..t : w[end + k + j] = page[end + j]
  BY <1>5, <1>9, <1>10
<1>13. Len(w) = Len(page) + k
  BY <1>5, <1>9, <1>10
<1>14. \A j \in 1..end : w[j] = page[j]
  BY <1>9, <1>10
<1>15. \A j \in 1..k : /\ w[end + j] = Bullet(Outline[j].b, page[i].d + 1 + Outline[j].d)
                       /\ w[end + j].b = Outline[j].b /\ w[end + j].d = page[i].d + 1 + Outline[j].d
  BY <1>4, <1>7, <1>11
<1>16. w \in Texts
  BY <1>9
<1>17. Lays(w, page, k, i, end)
  <2>. HIDE DEF t
  <2>1. \A j \in 1..Len(page) - end : w[end + k + j] = page[end + j]
    BY <1>12 DEF t
  <2>. QED
    BY <1>13, <1>14, <1>15, <1>16, <2>1, Zenon DEF Lays
<1>. QED
  BY <1>17 DEF w

\* Before the first node it is the page as it was captured, after the last the
\* page with the outline.
LEMMA WithFirstEnds ==
    ASSUME NEW page, Captured(page)
    PROVE  WithFirst(page, 0) = page /\ WithFirst(page, Len(Outline)) = WithOutline(page)
<1>. DEFINE i == IndexOf(page, Under)
            end == SubtreeEnd(page, i)
            w == WithFirst(page, 0)
<1>1. page \in Texts /\ Len(page) \in Nat /\ end \in Nat /\ end <= Len(page)
  BY CapturedIs
<1>2. Len(Outline) \in Nat /\ DOMAIN Outline = 1..Len(Outline) /\ 0 \in 0..Len(Outline)
  BY NamesAre
<1>3. WithFirst(page, Len(Outline)) = WithOutline(page)
  BY <1>2 DEF WithFirst, WithOutline
<1>4. Lays(w, page, 0, i, end)
  BY <1>2, WithFirstLays
<1>. HIDE DEF w, i, end
<1>5. /\ w \in Texts /\ Len(w) = Len(page) /\ \A j \in 1..end : w[j] = page[j]
      /\ \A j \in 1..Len(page) - end : w[end + 0 + j] = page[end + j]
  BY <1>1, <1>4 DEF Lays
<1>6. ASSUME NEW j \in 1..Len(w)  PROVE w[j] = page[j]
  <2>1. CASE j <= end
    BY <1>1, <1>5, <2>1
  <2>2. CASE ~(j <= end)
    <3>1. j - end \in 1..Len(page) - end /\ end + 0 + (j - end) = j /\ end + (j - end) = j
      BY <1>1, <1>5, <2>2
    <3>. QED
      BY <1>5, <3>1
  <2>. QED
    BY <2>1, <2>2
<1>7. w = page
  BY <1>1, <1>5, <1>6, SameLines
<1>. QED
  BY <1>3, <1>7 DEF w

\* A line of that page is one from before the nodes, a node, or one from behind.
Where(w, page, k, i, end, q) ==
    \/ q \in 1..end /\ q \in DOMAIN page /\ w[q] = page[q]
    \/ \E l \in 1..k : q = end + l /\ w[q].b = Outline[l].b /\ w[q].d = page[i].d + 1 + Outline[l].d
    \/ \E l \in end + 1..Len(page) : l \in DOMAIN page /\ q = k + l /\ w[q] = page[l]

LEMMA WhereIs ==
    ASSUME NEW page, Captured(page), NEW k \in Nat, NEW i, i = IndexOf(page, Under),
           NEW end, end = SubtreeEnd(page, i), NEW w, Lays(w, page, k, i, end), NEW q \in DOMAIN w
    PROVE  Where(w, page, k, i, end, q)
<1>1. Len(page) \in Nat /\ end \in Nat /\ end <= Len(page) /\ DOMAIN page = 1..Len(page)
  BY CapturedIs
<1>2. /\ w \in Texts /\ Len(w) = Len(page) + k
      /\ \A j \in 1..end : w[j] = page[j]
      /\ \A j \in 1..k : w[end + j].b = Outline[j].b /\ w[end + j].d = page[i].d + 1 + Outline[j].d
      /\ \A j \in 1..Len(page) - end : w[end + k + j] = page[end + j]
  BY DEF Lays
<1>3. q \in Nat /\ q >= 1 /\ q <= Len(page) + k
  <2>1. DOMAIN w = 1..Len(w)
    BY <1>2 DEF Texts
  <2>. QED
    BY <1>1, <1>2, <2>1
<1>4. CASE q <= end
  <2>1. q \in 1..end /\ q \in DOMAIN page
    BY <1>1, <1>3, <1>4
  <2>. QED
    BY <1>2, <2>1 DEF Where
<1>5. CASE end < q /\ q <= end + k
  <2>. DEFINE l == q - end
  <2>1. l \in 1..k /\ q = end + l
    BY <1>1, <1>3, <1>5
  <2>. HIDE DEF l
  <2>. QED
    BY <1>2, <2>1 DEF Where
<1>7. end \in Nat /\ Len(page) \in Nat /\ end <= Len(page)
  BY <1>1
<1>6. CASE end + k < q
  <2>. DEFINE l == q - k
              j == q - (end + k)
  <2>1. j \in 1..Len(page) - end /\ q = end + k + j
    BY <1>3, <1>6, <1>7, SMTT(30)
  <2>2. l \in end + 1..Len(page) /\ l \in 1..Len(page) /\ q = k + l /\ l = end + j
    BY <1>3, <1>6, <1>7
  <2>. HIDE DEF j, l
  <2>3. w[q] = page[l]
    BY <1>2, <2>1, <2>2
  <2>4. l \in DOMAIN page
    BY <1>1, <2>2
  <2>. QED
    BY <2>2, <2>3, <2>4 DEF Where
<1>. QED
  BY <1>3, <1>4, <1>5, <1>6, <1>7

\* The parent of the next node stands on that page once, one level above it, and
\* nothing after it up to the last node is as high.
Stands(w, p, e, d) ==
    /\ p \in DOMAIN w /\ p \in 1..e /\ w[p].b = Parent /\ w[p].d = d
    /\ IndexOf(w, Parent) = p
    /\ \A j \in p + 1..e : w[j].d > d

LEMMA ParentStands ==
    ASSUME outline \in OutlineCalls, Len(outline.parent) = Outline[outline.next].d + 1, Chain,
           Captured(before), NEW k \in Nat, k = outline.next - 1,
           NEW i, i = IndexOf(before, Under), NEW end, end = SubtreeEnd(before, i),
           NEW w, Lays(w, before, k, i, end)
    PROVE  \E p \in DOMAIN w : Stands(w, p, end + k, before[i].d + Outline[outline.next].d)
<1>. DEFINE n == outline.next
            D == Outline[n].d
            base == before[i].d
<1>1. n \in DOMAIN Outline /\ n \in Nat /\ n = k + 1 /\ D \in Nat /\ Len(Outline) \in Nat /\ DOMAIN Outline = 1..Len(Outline)
  <2>1. n \in DOMAIN Outline /\ DOMAIN Outline = 1..Len(Outline)
    BY NamesAre DEF OutlineCalls
  <2>2. n \in Nat /\ D \in Nat /\ Len(Outline) \in Nat
    BY <2>1, NodesAre
  <2>. QED
    BY <2>1, <2>2
<1>2. /\ Len(before) \in Nat /\ DOMAIN before = 1..Len(before) /\ i \in DOMAIN before
      /\ i \in Nat /\ end \in Nat /\ i <= end /\ end <= Len(before) /\ base \in Nat
  BY CapturedIs
<1>3. /\ before[i].b = Under
      /\ \A j \in DOMAIN before : before[j].b = Under => j = i
      /\ \A j \in DOMAIN before : before[j].b \notin Nodes
      /\ \A j \in i + 1..end : before[j].d > base
  BY CapturedIs
<1>4. w \in Texts /\ Len(w) = Len(before) + k /\ DOMAIN w = 1..Len(w)
  BY DEF Lays, Texts
<1>5. Parent = outline.parent[D + 1]
  <2>1. outline.parent \in Seq(Names) /\ Len(outline.parent) = D + 1
    BY DEF OutlineCalls
  <2>. QED
    BY <1>1, <2>1 DEF Parent, Last
<1>. HIDE DEF n, D, base
<1>6. \A j \in 1..k : j \in DOMAIN Outline /\ Outline[j].b \in Nodes /\ Outline[j].d \in Nat
  <2>1. ASSUME NEW j \in 1..k  PROVE j \in DOMAIN Outline
    BY <1>1
  <2>. QED
    BY <2>1, NodesAre
<1>12. \A q \in DOMAIN w : Where(w, before, k, i, end, q)
  BY WhereIs
<1>7. \A q \in DOMAIN w :
        \/ q \in 1..end /\ q \in DOMAIN before /\ w[q] = before[q]
        \/ \E l \in 1..k : q = end + l /\ w[q].b = Outline[l].b /\ w[q].d = base + 1 + Outline[l].d
        \/ \E l \in end + 1..Len(before) : l \in DOMAIN before /\ q = k + l /\ w[q] = before[l]
  BY <1>12 DEF base, Where
<1>8. /\ \A j \in 1..end : w[j] = before[j]
      /\ \A j \in 1..k : w[end + j].b = Outline[j].b /\ w[end + j].d = base + 1 + Outline[j].d
  BY DEF Lays, base
<1>9. CASE D = 0
  <2>1. Parent = Under
    BY <1>5, <1>9 DEF Chain
  <2>2. i \in DOMAIN w /\ i \in 1..end + k /\ i \in 1..end
    BY <1>2, <1>4
  <2>3. w[i].b = Under /\ w[i].d = base
    BY <1>3, <1>8, <2>2 DEF base
  <2>4. ASSUME NEW q \in DOMAIN w, w[q].b = Under  PROVE q = i
    <3>1. CASE q \in DOMAIN before /\ w[q] = before[q]
      BY <1>3, <2>4, <3>1
    <3>2. ASSUME NEW l \in 1..k, w[q].b = Outline[l].b  PROVE FALSE
      <4>1. Under \notin Nodes
        BY NewPagesAssumption DEF NewPagesAssumption
      <4>. QED
        BY <1>6, <2>4, <3>2, <4>1
    <3>3. ASSUME NEW l \in end + 1..Len(before), l \in DOMAIN before, w[q] = before[l]  PROVE FALSE
      <4>1. l = i
        BY <1>3, <2>4, <3>3
      <4>. QED
        BY <1>2, <4>1
    <3>. QED
      BY <1>7, <3>1, <3>2, <3>3
  <2>5. IndexOf(w, Parent) = i
    <3>1. IndexOf(w, Under) \in DOMAIN w /\ w[IndexOf(w, Under)].b = Under
      BY <2>2, <2>3 DEF IndexOf
    <3>. QED
      BY <2>1, <2>4, <3>1
  <2>6. ASSUME NEW j \in i + 1..end + k  PROVE w[j].d > base
    <3>1. CASE j <= end
      <4>1. j \in 1..end /\ j \in i + 1..end
        BY <1>2, <3>1
      <4>. QED
        BY <1>3, <1>8, <4>1
    <3>2. CASE ~(j <= end)
      <4>. DEFINE l == j - end
      <4>1. l \in 1..k /\ j = end + l
        BY <1>2, <3>2
      <4>. HIDE DEF l
      <4>2. w[j].d = base + 1 + Outline[l].d /\ Outline[l].d \in Nat
        BY <1>6, <1>8, <4>1
      <4>. QED
        BY <1>2, <4>2
    <3>. QED
      BY <3>1, <3>2
  <2>7. base = base + D
    BY <1>2, <1>9
  <2>. QED
    BY <2>1, <2>2, <2>3, <2>5, <2>6, <2>7 DEF Stands, D, n, base
<1>10. CASE D # 0
  <2>1. D \in 1..D
    BY <1>1, <1>10
  <2>2. \A m \in 1..D : \E j \in 1..n - 1 :
          /\ outline.parent[m + 1] = Outline[j].b /\ Outline[j].d = m - 1
          /\ \A l \in j + 1..n - 1 : Outline[l].d >= m
    BY DEF Chain, D, n
  <2>3. n - 1 = k
    BY <1>1
  <2>4. PICK j \in 1..k : /\ Parent = Outline[j].b /\ Outline[j].d = D - 1
                          /\ \A l \in j + 1..k : Outline[l].d >= D
    BY <1>5, <2>1, <2>2, <2>3
  <2>. DEFINE p == end + j
  <2>5. p \in DOMAIN w /\ p \in 1..end + k
    BY <1>2, <1>4
  <2>10. base \in Nat /\ D \in Nat /\ end \in Nat
    BY <1>1, <1>2
  <2>6. w[p].b = Parent /\ w[p].d = base + D
    <3>1. w[p].b = Parent /\ w[p].d = base + 1 + (D - 1)
      BY <1>8, <2>4
    <3>. QED
      BY <2>10, <3>1
  <2>7. ASSUME NEW q \in DOMAIN w, w[q].b = Parent  PROVE q = p
    <3>1. ASSUME NEW l \in DOMAIN before, w[q] = before[l]  PROVE FALSE
      BY <1>3, <1>6, <2>4, <2>7, <3>1
    <3>2. ASSUME NEW l \in 1..k, q = end + l, w[q].b = Outline[l].b  PROVE q = p
      <4>1. l \in DOMAIN Outline /\ j \in DOMAIN Outline /\ Outline[l].b = Outline[j].b
        BY <1>6, <2>4, <2>7, <3>2
      <4>2. l = j
        BY <4>1, NewPagesAssumption DEF NewPagesAssumption
      <4>. QED
        BY <3>2, <4>2
    <3>. QED
      BY <1>7, <3>1, <3>2
  <2>8. IndexOf(w, Parent) = p
    <3>1. IndexOf(w, Parent) \in DOMAIN w /\ w[IndexOf(w, Parent)].b = Parent
      BY <2>5, <2>6 DEF IndexOf
    <3>. QED
      BY <2>7, <3>1
  <2>9. ASSUME NEW r \in p + 1..end + k  PROVE w[r].d > base + D
    <3>. DEFINE l == r - end
    <3>1. l \in j + 1..k /\ l \in 1..k /\ r = end + l
      BY <1>2
    <3>. HIDE DEF l
    <3>2. w[r].d = base + 1 + Outline[l].d /\ Outline[l].d \in Nat /\ Outline[l].d >= D
      BY <1>6, <1>8, <2>4, <3>1
    <3>. QED
      BY <2>10, <3>2
  <2>. HIDE DEF p
  <2>. QED
    BY <2>5, <2>6, <2>8, <2>9 DEF Stands, D, n, base
<1>. QED
  BY <1>9, <1>10

\* The next node goes where the outline has it.
LEMMA AppendedNext ==
    ASSUME outline \in OutlineCalls, Len(outline.parent) = Outline[outline.next].d + 1, Chain, Captured(before)
    PROVE  Appended(WithFirst(before, outline.next - 1), Outline[outline.next].b) = WithFirst(before, outline.next)
<1>. DEFINE n == outline.next
            k == n - 1
            i == IndexOf(before, Under)
            end == SubtreeEnd(before, i)
            w == WithFirst(before, k)
            v == WithFirst(before, n)
            b == Outline[n].b
            r == Appended(w, b)
            d == before[i].d + Outline[n].d
            t == Len(before) - end
            e == end + k
<1>1. /\ n \in DOMAIN Outline /\ n \in Nat /\ Outline[n].d \in Nat /\ b \in Names
      /\ k \in Nat /\ k \in 0..Len(Outline) /\ n \in 0..Len(Outline) /\ n = k + 1
  <2>1. n \in DOMAIN Outline /\ DOMAIN Outline = 1..Len(Outline)
    BY NamesAre DEF OutlineCalls
  <2>2. n \in Nat /\ Outline[n].d \in Nat /\ Len(Outline) \in Nat /\ b \in Names
    BY <2>1, NodesAre
  <2>. QED
    BY <2>1, <2>2
<1>2. /\ Len(before) \in Nat /\ i \in Nat /\ end \in Nat /\ i <= end /\ end <= Len(before) /\ before[i].d \in Nat
      /\ end < Len(before) => before[end + 1].d <= before[i].d
  BY CapturedIs
<1>3. Lays(w, before, k, i, end) /\ Lays(v, before, n, i, end)
  BY <1>1, WithFirstLays
<1>. HIDE DEF n, i, end, w, v, b
<1>4. /\ w \in Texts /\ Len(w) = Len(before) + k
      /\ \A j \in 1..end : w[j] = before[j]
      /\ \A j \in 1..k : w[end + j] = Bullet(Outline[j].b, before[i].d + 1 + Outline[j].d)
      /\ \A j \in 1..Len(before) - end : w[end + k + j] = before[end + j]
  BY <1>3 DEF Lays
<1>5. /\ v \in Texts /\ Len(v) = Len(before) + n
      /\ \A j \in 1..end : v[j] = before[j]
      /\ \A j \in 1..n : v[end + j] = Bullet(Outline[j].b, before[i].d + 1 + Outline[j].d)
      /\ \A j \in 1..Len(before) - end : v[end + n + j] = before[end + j]
  BY <1>3 DEF Lays
<1>6. PICK p \in DOMAIN w : Stands(w, p, e, d)
  BY <1>1, <1>3, ParentStands DEF n, i, end
<1>7. /\ p \in 1..e /\ w[p].d = d /\ IndexOf(w, Parent) = p /\ \A j \in p + 1..e : w[j].d > w[p].d
  BY <1>6 DEF Stands
<1>21. /\ n \in Nat /\ k \in Nat /\ n = k + 1 /\ Len(before) \in Nat /\ end \in Nat /\ end <= Len(before)
       /\ Len(w) = Len(before) + k /\ p \in 1..end + k /\ before[i].d \in Nat /\ Outline[n].d \in Nat
  BY <1>1, <1>2, <1>4, <1>7
<1>8. e \in Nat /\ e <= Len(w) /\ d \in Nat /\ t \in Nat /\ p \in Nat /\ p <= e /\ Len(w) = e + t /\ Len(w) \in Nat
  <2>. HIDE DEF k
  <2>1. e \in Nat /\ t \in Nat /\ p \in Nat /\ p <= e
    BY <1>21
  <2>2. d \in Nat
    <3>1. \A x, y \in Nat : x + y \in Nat
      OBVIOUS
    <3>. QED
      BY <1>21, <3>1, Zenon
  <2>3. Len(w) = e + t
    BY <1>21
  <2>. QED
    BY <2>1, <2>2, <2>3
<1>9. e < Len(w) => w[e + 1].d <= w[p].d
  <2>1. SUFFICES ASSUME e < Len(w)  PROVE w[e + 1].d <= d
    BY <1>7
  <2>2. 1 \in 1..Len(before) - end /\ end < Len(before)
    BY <1>1, <1>2, <1>4, <2>1
  <2>3. w[e + 1] = before[end + 1]
    BY <1>4, <2>2
  <2>4. w \in Texts /\ e + 1 \in DOMAIN w
    BY <1>4, <1>8, <2>1 DEF Texts
  <2>5. w[e + 1].d \in Nat
    BY <2>4 DEF Texts, GoodLines, Lines
  <2>6. w[e + 1].d <= before[i].d
    BY <1>2, <2>2, <2>3
  <2>. HIDE DEF e
  <2>7. \A x, y, z \in Nat : x <= y => x <= y + z
    OBVIOUS
  <2>. QED
    BY <1>21, <2>5, <2>6, <2>7, Zenon
<1>10. SubtreeEnd(w, p) = e
  <2>1. e \in p..Len(w)
    BY <1>8
  <2>. HIDE DEF e, d
  <2>. QED
    BY <1>4, <1>7, <1>9, <2>1, EndIs
<1>. DEFINE l == Bullet(b, d + 1)
            new == <<l>>
<1>11. r = Replaced(w, e + 1, e, new)
  <2>. HIDE DEF e, d
  <2>. QED
    BY <1>7, <1>10 DEF Appended
<1>12. l \in GoodLines
  BY <1>1, <1>8, BulletIs
<1>. HIDE DEF l
<1>13. new \in Texts /\ Len(new) = 1 /\ new[1] = l
  BY <1>12, OneLine
<1>. HIDE DEF new, r, e, d, t
<1>14. Between(r, w, e + 1, e, new, t)
  <2>1. e + 1 \in 1..Len(w) + 1 /\ e >= (e + 1) - 1 /\ (e < Len(w) => e + t = Len(w)) /\ (e >= Len(w) => t = 0)
    BY <1>8
  <2>. QED
    BY <1>4, <1>8, <1>11, <1>13, <2>1, ReplacedIs
<1>15. /\ r \in Texts /\ Len(r) = (e + 1) - 1 + 1 + t
       /\ \A j \in 1..(e + 1) - 1 : r[j] = w[j]
       /\ \A j \in 1..1 : r[(e + 1) - 1 + j] = new[j]
       /\ \A j \in 1..t : r[(e + 1) - 1 + 1 + j] = w[e + j]
  BY <1>13, <1>14 DEF Between
<1>16. (e + 1) - 1 = e /\ e + 1 = end + n /\ e = end + k /\ t = Len(before) - end
  BY <1>21 DEF e, t
<1>17. /\ r \in Texts /\ Len(r) = end + n + t
       /\ \A j \in 1..e : r[j] = w[j]
       /\ r[end + n] = l
       /\ \A j \in 1..t : r[end + n + j] = w[e + j]
  <2>1. 1 \in 1..1
    OBVIOUS
  <2>2. r[(e + 1) - 1 + 1] = new[1]
    BY <1>15, <2>1
  <2>. QED
    BY <1>13, <1>15, <1>16, <2>2
<1>22. t \in Nat /\ e \in Nat /\ Len(r) = end + n + t /\ e = end + k /\ e + 1 = end + n /\ t = Len(before) - end
  BY <1>8, <1>16, <1>17
<1>. HIDE DEF k
<1>23. \A x, y, z \in Nat : x + y \in Nat /\ x <= x + y /\ x + y + z \in Nat
  OBVIOUS
<1>24. end \in Nat /\ e \in Nat /\ e = end + k /\ k \in Nat /\ n = k + 1 /\ n \in Nat
  BY <1>21, <1>22, Zenon
<1>25. end <= e /\ Len(r) \in Nat
  <2>1. end <= end + k
    BY <1>23, <1>24, Zenon
  <2>2. end + n + t \in Nat
    BY <1>22, <1>23, <1>24, Zenon
  <2>. QED
    BY <1>22, <2>1, <2>2, Zenon
<1>18. Len(r) = Len(v) /\ Len(v) \in Nat
  <2>1. Len(v) = Len(before) + n
    BY <1>5
  <2>. QED
    BY <1>21, <1>22, <2>1
<1>19. ASSUME NEW j \in 1..Len(r)  PROVE r[j] = v[j]
  <2>1. CASE j <= end
    <3>1. j \in 1..end /\ j \in 1..e
      BY <1>24, <1>25, <2>1
    <3>. QED
      BY <1>4, <1>5, <1>17, <3>1
  <2>2. CASE end < j /\ j <= e
    <3>. DEFINE m == j - end
    <3>1. m \in 1..k /\ m \in 1..n /\ j = end + m /\ j \in 1..e
      BY <1>24, <1>25, <2>2
    <3>. HIDE DEF m
    <3>. QED
      BY <1>4, <1>5, <1>17, <3>1
  <2>3. CASE j = end + n
    <3>1. l = Bullet(Outline[n].b, before[i].d + 1 + Outline[n].d)
      <4>1. \A x, y \in Nat : x + y + 1 = x + 1 + y
        OBVIOUS
      <4>2. d + 1 = before[i].d + 1 + Outline[n].d
        BY <1>21, <4>1, Zenon DEF d
      <4>. QED
        BY <4>2 DEF l, b
    <3>2. n \in 1..n
      BY <1>1
    <3>. QED
      BY <1>5, <1>17, <2>3, <3>1, <3>2
  <2>4. CASE end + n < j
    <3>. DEFINE m == j - (end + n)
    <3>1. m \in 1..t /\ m \in 1..Len(before) - end /\ j = end + n + m
      BY <1>21, <1>22, <2>4
    <3>. HIDE DEF m
    <3>2. r[j] = w[e + m] /\ w[e + m] = before[end + m] /\ v[j] = before[end + m]
      BY <1>4, <1>5, <1>16, <1>17, <3>1
    <3>. QED
      BY <3>2
  <2>. QED
    BY <1>21, <1>22, <2>1, <2>2, <2>3, <2>4
<1>20. r = v
  BY <1>5, <1>17, <1>18, <1>19, SameLines
<1>. QED
  BY <1>20 DEF r, v, w, b, n, k

-----------------------------------------------------------------------------
(* What a step leaves in the pages and in the hands of the calls.  Whoever     *)
(* writes a page without counting as another writer writes a page of links.    *)

WrittenBy(p, content) ==
    \/ /\ UNCHANGED others /\ Bullets(content) \subseteq Paths /\ UNCHANGED outline
       /\ p = Moc \/ (p = Target /\ heal.pc = "write")
    \/ Split /\ others' = TRUE /\ p \in {Main} \cup Range(ChildOf)
    \/ OutlineReplaces /\ p = outline.page /\ content = outline.lines
    \/ SplitLarge /\ others' = TRUE /\ large.pc = "write" /\ p = Head(large.todo) /\ content = large.lines
    \/ /\ others' = TRUE
       /\ Bullets(content) \subseteq NewBlocks \cup (IF pages[p] = None THEN {} ELSE Bullets(pages[p]))
Written ==
    \/ UNCHANGED <<pages, mtime>>
    \/ \E p \in Paths, content \in Texts : Writes(p, content) /\ Clean(content) /\ WrittenBy(p, content)
Tidy ==
    /\ Written /\ (outline'.pc = "idle" => outline.pc = "idle")
    /\ Clean(split'.lines) /\ Clean(outline'.lines) /\ Clean(large'.lines)

LEMMA TidyKeepsClean ==
    ASSUME Types, AllClean, Tidy
    PROVE  AllClean'
<1>1. \A p \in Paths : pages'[p] = None \/ Clean(pages'[p])
  <2>1. CASE UNCHANGED <<pages, mtime>>
    BY <2>1 DEF AllClean, Buffers
  <2>2. CASE \E p \in Paths, content \in Texts : Writes(p, content) /\ Clean(content)
    <3>1. PICK p \in Paths, content \in Texts : Writes(p, content) /\ Clean(content)
      BY <2>2
    <3>2. pages'[p] = content /\ \A q \in Paths : q # p => pages'[q] = pages[q]
      BY <3>1, WritesIs
    <3>3. \A q \in Paths : pages[q] = None \/ Clean(pages[q])
      BY DEF AllClean, Buffers
    <3>. QED
      BY <3>1, <3>2, <3>3
  <2>. QED
    BY <2>1, <2>2 DEF Tidy, Written
<1>2. ASSUME NEW page \in Buffers'  PROVE Clean(page)
  BY <1>1, <1>2 DEF Buffers, Tidy
<1>3. ASSUME NEW page \in Buffers'  PROVE Clean(page)'
  BY <1>2, <1>3 DEF Clean, Tidy, Once, Bullets
<1>. QED
  BY <1>3 DEF AllClean

\* What is made of a clean page by the operations is clean.
LEMMA CleanFrom ==
    ASSUME NEW s, Clean(s), NEW r, Bullets(r) \subseteq Bullets(s) \cup Paths \cup NewBlocks \cup LaterBlocks,
           Once(s) => Once(r)
    PROVE  Clean(r)
BY NewPagesAssumption DEF NewPagesAssumption, Clean

LEMMA CleanLinks ==
    ASSUME NEW r, Bullets(r) \subseteq Paths
    PROVE  Clean(r)
<1>1. Under \notin Paths /\ Nodes \cap Paths = {}
  BY NewPagesAssumption DEF NewPagesAssumption
<1>2. \A i \in DOMAIN r : r[i].b # Under
  BY <1>1 DEF Bullets
<1>. QED
  BY <1>1, <1>2 DEF Clean, Once

LEMMA CleanNow ==
    ASSUME AllClean
    PROVE  /\ Clean(split.lines) /\ Clean(outline.lines) /\ Clean(large.lines) /\ Clean(<<>>)
           /\ \A p \in Paths : pages[p] # None => Clean(pages[p])
BY EmptyIs, CleanLinks DEF AllClean, Buffers

LEMMA SplitTidy ==
    ASSUME KeepInv, AllClean, Split
    PROVE  Tidy
<1>0. Types /\ Paged /\ split \in SplitCalls /\ pages[Main] \in Texts /\ Main \in Paths /\ split.lines \in Texts
  BY NamesAre DEF KeepInv, Types, Files, Paged, SplitCalls
<1>1. UNCHANGED <<outline, large>>
  BY DEF Split, SplitBegin, SplitLocks, SplitLooks, SplitWritesChild, SplitChecks, SplitReplaces, SplitEnds, splitOnly
<1>2. /\ Clean(split.lines) /\ Clean(outline.lines) /\ Clean(large.lines) /\ Clean(<<>>) /\ Clean(pages[Main])
  BY <1>0, CleanNow DEF Paged
<1>3. ASSUME Written, Clean(split'.lines)  PROVE Tidy
  BY <1>1, <1>2, <1>3 DEF Tidy
<1>4. ASSUME split.pc \in {"look", "child"}  PROVE Clean(Embed(Current)) /\ Taken.lines = Embed(Current)
  <2>1. /\ Bullets(Embed(Current)) \subseteq Bullets(split.lines) \cup Paths
        /\ Once(split.lines) => Once(Embed(Current))
        /\ Taken.lines = Embed(Current)
    BY <1>4, TakenIs
  <2>2. Clean(Embed(Current))
    BY <1>2, <2>1, CleanFrom
  <2>. QED
    BY <2>1, <2>2
<1>5. CASE SplitBegin
  <2>1. UNCHANGED <<pages, mtime>> /\ split' = [split EXCEPT !.pc = "lock", !.base = mtime[Main]]
    BY <1>5 DEF SplitBegin, splitOnly
  <2>2. split'.lines = split.lines
    BY <1>0, <2>1 DEF SplitCalls
  <2>. QED
    BY <1>2, <1>3, <2>1, <2>2 DEF Written
<1>6. CASE SplitLocks
  <2>1. UNCHANGED <<pages, mtime>>
    BY <1>6 DEF SplitLocks, splitOnly
  <2>2. split'.lines = pages[Main] \/ split'.lines = <<>>
    BY <1>0, <1>6 DEF SplitLocks, SplitCalls, IdleSplit
  <2>. QED
    BY <1>2, <1>3, <2>1, <2>2 DEF Written
<1>7. CASE SplitLooks
  <2>1. UNCHANGED <<pages, mtime>> /\ split.pc = "look"
    BY <1>7 DEF SplitLooks, splitOnly
  <2>2. Taken \in SplitCalls
    BY <2>1, TakenIs
  <2>3. split'.lines = split.lines \/ split'.lines = Taken.lines
    BY <1>0, <1>7, <2>2 DEF SplitLooks, SplitCalls
  <2>. QED
    BY <1>2, <1>3, <1>4, <2>1, <2>3 DEF Written
<1>8. CASE SplitWritesChild
  <2>. DEFINE c == Current
              base == split.lines[c.first].d
              unindented(l) == [l EXCEPT !.d = IF @ < base THEN 0 ELSE @ - base]
              below == [i \in DOMAIN Subtree(c) |-> unindented(Subtree(c)[i])]
              child == <<Bullet(Main, 0)>> \o below
  <2>1. /\ split.pc = "child" /\ others' = TRUE /\ Writes(c.child, child)
        /\ split' = [Taken EXCEPT !.reused = @ \/ split.seen # mtime[c.child]]
    BY <1>8 DEF SplitWritesChild
  <2>2. /\ c.child \in Paths /\ c.child \in Range(ChildOf) /\ c.first \in DOMAIN split.lines
        /\ c.first \in Nat /\ Reach(c) \in c.first..Len(split.lines) /\ Taken \in SplitCalls
    BY <2>1, TakenIs
  <2>3. /\ child \in Texts /\ Bullets(child) \subseteq Paths \cup Bullets(split.lines)
        /\ Once(split.lines) => Once(child)
    <3>. HIDE DEF c
    <3>1. /\ split \in SplitCalls /\ c.first \in DOMAIN split.lines /\ c.first \in Nat
          /\ Reach(c) \in c.first..Len(split.lines)
          /\ base = split.lines[c.first].d
          /\ below = [i \in DOMAIN Subtree(c) |-> [Subtree(c)[i] EXCEPT !.d = IF @ < base THEN 0 ELSE @ - base]]
      BY <1>0, <2>2
    <3>. HIDE DEF base, below
    <3>. QED
      BY <3>1, ChildIs
  <2>. HIDE DEF child
  <2>4. Clean(child)
    BY <1>2, <2>3, CleanFrom
  <2>5. split'.lines = Taken.lines
    BY <2>1, <2>2 DEF SplitCalls
  <2>6. PICK q \in Paths : q = c.child
    BY <2>2
  <2>7. Writes(q, child) /\ q \in Range(ChildOf)
    BY <2>1, <2>2, <2>6
  <2>8. Written
    BY <2>1, <2>3, <2>4, <2>7 DEF Written, WrittenBy
  <2>. QED
    BY <1>3, <1>4, <2>1, <2>5, <2>8
<1>9. CASE SplitChecks
  <2>1. UNCHANGED <<pages, mtime>>
    BY <1>9 DEF SplitChecks, splitOnly
  <2>2. split'.lines = split.lines \/ split'.lines = <<>>
    BY <1>0, <1>9 DEF SplitChecks, SplitCalls, IdleSplit
  <2>. QED
    BY <1>2, <1>3, <2>1, <2>2 DEF Written
<1>10. CASE SplitReplaces
  <2>1. Writes(Main, split.lines) /\ others' = TRUE /\ split'.lines = <<>>
    BY <1>10 DEF SplitReplaces, IdleSplit
  <2>2. Written
    BY <1>0, <1>2, <2>1 DEF Written, WrittenBy
  <2>. QED
    BY <1>2, <1>3, <2>1, <2>2
<1>11. CASE SplitEnds
  <2>1. UNCHANGED <<pages, mtime>> /\ split'.lines = <<>>
    BY <1>11 DEF SplitEnds, splitOnly, IdleSplit
  <2>. QED
    BY <1>2, <1>3, <2>1 DEF Written
<1>. QED
  BY <1>5, <1>6, <1>7, <1>8, <1>9, <1>10, <1>11 DEF Split

LEMMA HealTidy ==
    ASSUME KeepInv, AllClean, Heal
    PROVE  Tidy
<1>1. UNCHANGED <<split, outline, large, others>>
  BY DEF Heal, HealBegin, HealLocks, HealWrites, healOnly
<1>2. Clean(split.lines) /\ Clean(outline.lines) /\ Clean(large.lines)
  BY CleanNow
<1>3. Written
  <2>1. CASE HealBegin \/ HealLocks
    BY <2>1 DEF HealBegin, HealLocks, healOnly, Written
  <2>2. CASE HealWrites
    <3>. DEFINE content == <<Bullet(Main, 0)>>
    <3>1. Writes(Target, content) /\ heal.pc = "write" /\ Target \in Paths
      BY <2>2, NamesAre DEF HealWrites
    <3>2. content \in Texts /\ Bullets(content) \subseteq Paths
      BY OneLine, BulletIs, NamesAre
    <3>. HIDE DEF content
    <3>3. Clean(content)
      BY <3>2, CleanLinks
    <3>. QED
      BY <1>1, <3>1, <3>2, <3>3 DEF Written, WrittenBy
  <2>. QED
    BY <2>1, <2>2 DEF Heal
<1>. QED
  BY <1>1, <1>2, <1>3 DEF Tidy

LEMMA MocTidy ==
    ASSUME KeepInv, AllClean, MapOfContent
    PROVE  Tidy
<1>1. UNCHANGED <<split, outline, large, others>>
  BY DEF MapOfContent, MocBegin, MocLocks, MocCopies, MocWrites, mocOnly
<1>2. Clean(split.lines) /\ Clean(outline.lines) /\ Clean(large.lines)
  BY CleanNow
<1>3. Written
  <2>1. CASE MocBegin \/ MocLocks \/ MocCopies
    BY <2>1 DEF MocBegin, MocLocks, MocCopies, mocOnly, Written
  <2>2. CASE MocWrites
    <3>. DEFINE content == [i \in 1..Cardinality(moc.rows) |-> Bullet(SetToSeq(moc.rows)[i], 0)]
    <3>1. Writes(Moc, content) /\ Moc \in Paths
      BY <2>2, NamesAre DEF MocWrites
    <3>2. moc.rows \in SUBSET Paths
      BY DEF KeepInv, Types, MocCalls
    <3>3. content \in Texts /\ Bullets(content) \subseteq Paths
      BY <3>2, MapIs
    <3>. HIDE DEF content
    <3>4. Clean(content)
      BY <3>3, CleanLinks
    <3>. QED
      BY <1>1, <3>1, <3>3, <3>4 DEF Written, WrittenBy
  <2>. QED
    BY <2>1, <2>2 DEF MapOfContent
<1>. QED
  BY <1>1, <1>2, <1>3 DEF Tidy

LEMMA OutlineTidy ==
    ASSUME KeepInv, AllClean, WriteOutline
    PROVE  Tidy
<1>0. Types /\ Paged /\ outline \in OutlineCalls
  BY DEF KeepInv, Types
<1>1. UNCHANGED <<split, large>>
  BY DEF WriteOutline, OutlineBegin, OutlineLooks, OutlineLocks, OutlineChecks, OutlineReplaces,
         OutlineRefreshes, OutlineChains, outlineOnly
<1>2. Clean(split.lines) /\ Clean(outline.lines) /\ Clean(large.lines) /\ Clean(<<>>)
  BY CleanNow
<1>3. ASSUME UNCHANGED <<pages, mtime>> \/ OutlineReplaces, outline'.pc # "idle",
             outline'.lines = outline.lines \/ outline'.lines = <<>> \/ Clean(outline'.lines)
      PROVE  Tidy
  <2>1. ASSUME OutlineReplaces  PROVE Written
    <3>1. Writes(outline.page, outline.lines) /\ outline.pc = "replace"
      BY <2>1 DEF OutlineReplaces
    <3>2. outline.page \in Paths /\ outline.lines \in Texts
      BY <1>0, <3>1 DEF Paged, OutlineCalls
    <3>3. PICK p \in Paths, content \in Texts : p = outline.page /\ content = outline.lines
      BY <3>2
    <3>4. Writes(p, content) /\ Clean(content) /\ WrittenBy(p, content)
      BY <1>2, <2>1, <3>1, <3>3 DEF WrittenBy
    <3>. QED
      BY <3>4 DEF Written
  <2>2. Written
    BY <1>3, <2>1 DEF Written
  <2>. QED
    BY <1>1, <1>2, <1>3, <2>2 DEF Tidy
<1>4. ASSUME NEW how, how # "idle", outline' = [outline EXCEPT !.pc = how], UNCHANGED <<pages, mtime>>
      PROVE  Tidy
  <2>1. outline'.pc = how /\ outline'.lines = outline.lines
    BY <1>0, <1>4 DEF OutlineCalls
  <2>. QED
    BY <1>3, <1>4, <2>1
<1>5. CASE OutlineBegin
  <2>1. /\ UNCHANGED <<pages, mtime>>
        /\ outline' = [outline EXCEPT !.pc = "look", !.page = Host(Under), !.at = Host(Under),
                                      !.base = mtime[Host(Under)], !.parent = <<Under>>]
    BY <1>5 DEF OutlineBegin
  <2>2. outline'.pc = "look" /\ outline'.lines = outline.lines
    BY <1>0, <2>1 DEF OutlineCalls
  <2>. QED
    BY <1>3, <2>1, <2>2
<1>6. CASE OutlineLooks
  <2>1. /\ UNCHANGED <<pages, mtime>>
        /\ \/ outline' = [outline EXCEPT !.pc = "gone"]
           \/ outline' = [outline EXCEPT !.pc = "conflict"]
           \/ outline' = [outline EXCEPT !.pc = "lock", !.at = Host(Parent)]
    BY <1>6 DEF OutlineLooks, Ends
  <2>2. CASE outline' = [outline EXCEPT !.pc = "lock", !.at = Host(Parent)]
    <3>1. outline'.pc = "lock" /\ outline'.lines = outline.lines
      BY <1>0, <2>2 DEF OutlineCalls
    <3>. QED
      BY <1>3, <2>1, <3>1
  <2>. QED
    BY <1>4, <2>1, <2>2
<1>7. CASE OutlineLocks
  <2>. DEFINE new == Appended(pages[outline.page], Outline[outline.next].b)
  <2>1. /\ outline.pc = "lock" /\ UNCHANGED <<pages, mtime>>
        /\ \/ outline' = [outline EXCEPT !.pc = "gone"]
           \/ outline' = [outline EXCEPT !.pc = "conflict"]
           \/ Host(Parent) = outline.page /\ outline' = [outline EXCEPT !.pc = "check", !.lines = new]
    BY <1>7 DEF OutlineLocks, Ends
  <2>2. CASE Host(Parent) = outline.page /\ outline' = [outline EXCEPT !.pc = "check", !.lines = new]
    <3>1. outline.page \in Paths /\ On(outline.page, Parent)
      BY <1>0, <2>1, <2>2, HostIs, NamesAre DEF Paged
    <3>2. pages[outline.page] \in Texts /\ Parent \in Bullets(pages[outline.page]) /\ Clean(pages[outline.page])
      BY <1>0, <3>1, OnIs, CleanNow, NoneIsNoPage
    <3>3. Outline[outline.next].b \in Nodes
      BY <1>0, NodesAre DEF OutlineCalls
    <3>4. Clean(new)
      BY <2>1, <3>2, <3>3, AppendedIs DEF Clean
    <3>. HIDE DEF new
    <3>5. outline'.pc = "check" /\ outline'.lines = new
      BY <1>0, <2>2 DEF OutlineCalls
    <3>. QED
      BY <1>3, <2>1, <3>4, <3>5
  <2>. QED
    BY <1>4, <2>1, <2>2
<1>8. CASE OutlineChecks
  <2>1. /\ UNCHANGED <<pages, mtime>>
        /\ outline' = [outline EXCEPT !.pc = "conflict"] \/ outline' = [outline EXCEPT !.pc = "replace"]
    BY <1>8 DEF OutlineChecks, Ends
  <2>. QED
    BY <1>4, <2>1
<1>9. CASE OutlineReplaces
  <2>1. outline' = [outline EXCEPT !.pc = "refresh", !.lines = <<>>]
    BY <1>9 DEF OutlineReplaces
  <2>2. outline'.pc = "refresh" /\ outline'.lines = <<>>
    BY <1>0, <2>1 DEF OutlineCalls
  <2>. QED
    BY <1>3, <1>9, <2>2
<1>10. CASE OutlineRefreshes
  <2>1. UNCHANGED <<pages, mtime>> /\ outline' = [outline EXCEPT !.pc = "chain", !.base = mtime[outline.page]]
    BY <1>10 DEF OutlineRefreshes
  <2>2. outline'.pc = "chain" /\ outline'.lines = outline.lines
    BY <1>0, <2>1 DEF OutlineCalls
  <2>. QED
    BY <1>3, <2>1, <2>2
<1>11. CASE OutlineChains
  <2>. DEFINE parent == SubSeq(Append(outline.parent, Outline[outline.next].b), 1, Outline[outline.next + 1].d + 1)
  <2>1. /\ UNCHANGED <<pages, mtime>>
        /\ \/ outline' = [outline EXCEPT !.pc = "unindexed"]
           \/ outline' = [outline EXCEPT !.pc = "ok"]
           \/ outline' = [outline EXCEPT !.pc = "look", !.next = @ + 1, !.parent = parent]
    BY <1>11 DEF OutlineChains, Ends
  <2>. HIDE DEF parent
  <2>2. CASE outline' = [outline EXCEPT !.pc = "look", !.next = @ + 1, !.parent = parent]
    <3>1. outline'.pc = "look" /\ outline'.lines = outline.lines
      BY <1>0, <2>2 DEF OutlineCalls
    <3>. QED
      BY <1>3, <2>1, <3>1
  <2>. QED
    BY <1>4, <2>1, <2>2
<1>. QED
  BY <1>5, <1>6, <1>7, <1>8, <1>9, <1>10, <1>11 DEF WriteOutline

LEMMA LargeTidy ==
    ASSUME KeepInv, AllClean, SplitLarge
    PROVE  Tidy
<1>0. Types /\ Paged /\ large \in LargeCalls
  BY DEF KeepInv, Types
<1>1. UNCHANGED <<split, outline>>
  BY DEF SplitLarge, LargeBegin, LargeReads, LargeLocks, LargeCopies, LargeWrites, largeOnly
<1>2. Clean(split.lines) /\ Clean(outline.lines) /\ Clean(large.lines) /\ Clean(<<>>)
  BY CleanNow
<1>3. ASSUME Written, Clean(large'.lines)  PROVE Tidy
  BY <1>1, <1>2, <1>3 DEF Tidy
<1>4. ASSUME LargeGoesOn(large.left)  PROVE large'.lines = <<>>
  BY <1>4 DEF LargeGoesOn, IdleLarge
<1>5. CASE LargeBegin
  <2>1. UNCHANGED <<pages, mtime>> /\ large'.lines = large.lines
    BY <1>0, <1>5 DEF LargeBegin, LargeCalls
  <2>. QED
    BY <1>2, <1>3, <2>1 DEF Written
<1>6. CASE LargeReads
  <2>1. /\ large.pc = "read" /\ UNCHANGED <<pages, mtime>>
        /\ LargeGoesOn(large.left) \/ large' = [large EXCEPT !.pc = "lock", !.lines = pages[Head(large.todo)]]
    BY <1>6 DEF LargeReads
  <2>2. Clean(pages[Head(large.todo)])
    BY <1>0, <2>1, HeadIsPath, CleanNow DEF Paged
  <2>3. large'.lines = <<>> \/ large'.lines = pages[Head(large.todo)]
    BY <1>0, <1>4, <2>1 DEF LargeCalls
  <2>. QED
    BY <1>2, <1>3, <2>1, <2>2, <2>3 DEF Written
<1>7. CASE LargeLocks
  <2>. DEFINE done == _process_page(large.lines, large.left)
  <2>1. UNCHANGED <<pages, mtime>> /\ large' = [large EXCEPT !.pc = "copy", !.lines = done.lines, !.left = done.left]
    BY <1>7 DEF LargeLocks
  <2>2. Reworks(done.lines, large.lines)
    BY <1>0, ProcessPageIs DEF LargeCalls
  <2>. HIDE DEF done
  <2>3. Clean(done.lines)
    BY <1>2, <2>2, CleanFrom DEF Reworks
  <2>4. large'.lines = done.lines
    BY <1>0, <2>1 DEF LargeCalls
  <2>. QED
    BY <1>3, <2>1, <2>3, <2>4 DEF Written
<1>8. CASE LargeCopies
  <2>1. UNCHANGED <<pages, mtime>> /\ large'.lines = large.lines
    BY <1>0, <1>8 DEF LargeCopies, LargeCalls
  <2>. QED
    BY <1>2, <1>3, <2>1 DEF Written
<1>9. CASE LargeWrites
  <2>1. large.pc = "write" /\ Writes(Head(large.todo), large.lines) /\ others' = TRUE /\ LargeGoesOn(large.left)
    BY <1>9 DEF LargeWrites
  <2>2. Head(large.todo) \in Paths /\ large.lines \in Texts
    BY <1>0, <2>1, HeadIsPath DEF LargeCalls
  <2>3. PICK p \in Paths, content \in Texts : p = Head(large.todo) /\ content = large.lines
    BY <2>2
  <2>4. Writes(p, content) /\ Clean(content) /\ WrittenBy(p, content)
    BY <1>2, <2>1, <2>3 DEF WrittenBy
  <2>5. Written
    BY <2>4 DEF Written
  <2>. QED
    BY <1>2, <1>3, <1>4, <2>1, <2>5
<1>. QED
  BY <1>5, <1>6, <1>7, <1>8, <1>9 DEF SplitLarge

LEMMA HumanTidy ==
    ASSUME KeepInv, AllClean, Adds \/ Deletes
    PROVE  Tidy
<1>0. Types
  BY DEF KeepInv
<1>1. /\ UNCHANGED <<split, outline, large>> /\ others' = TRUE
      /\ \E p \in Paths, content \in Texts :
            /\ Writes(p, content)
            /\ Bullets(content) \subseteq NewBlocks \cup (IF pages[p] = None THEN {} ELSE Bullets(pages[p]))
            /\ (pages[p] # None => Once(pages[p])) => Once(content)
  <2>1. CASE Adds
    BY <1>0, <2>1, AddsIs
  <2>2. CASE Deletes
    BY <1>0, <2>2, DeletesIs
  <2>. QED
    BY <2>1, <2>2
<1>2. PICK p \in Paths, content \in Texts :
            /\ Writes(p, content)
            /\ Bullets(content) \subseteq NewBlocks \cup (IF pages[p] = None THEN {} ELSE Bullets(pages[p]))
            /\ (pages[p] # None => Once(pages[p])) => Once(content)
  BY <1>1
<1>3. Clean(split.lines) /\ Clean(outline.lines) /\ Clean(large.lines) /\ (pages[p] # None => Clean(pages[p]))
  BY CleanNow
<1>4. Clean(content)
  <2>1. Once(content)
    BY <1>2, <1>3 DEF Clean
  <2>2. Nodes \cap NewBlocks = {}
    BY NewPagesAssumption DEF NewPagesAssumption
  <2>3. outline.pc = "idle" => Nodes \cap Bullets(content) = {}
    BY <1>2, <1>3, <2>2 DEF Clean
  <2>. QED
    BY <2>1, <2>3 DEF Clean
<1>5. Written
  BY <1>1, <1>2, <1>4 DEF Written, WrittenBy
<1>. QED
  BY <1>1, <1>3, <1>5 DEF Tidy

LEMMA DeathTidy ==
    ASSUME KeepInv, AllClean, DaemonDies \/ ServerDies
    PROVE  Tidy
<1>0. outline \in OutlineCalls
  BY DEF KeepInv, Types
<1>1. UNCHANGED <<pages, mtime>>
  BY DEF DaemonDies, ServerDies, Faults
<1>2. Clean(split.lines) /\ Clean(outline.lines) /\ Clean(large.lines) /\ Clean(<<>>)
  BY CleanNow
<1>3. /\ split'.lines \in {split.lines, <<>>} /\ large'.lines \in {large.lines, <<>>}
      /\ outline'.lines = outline.lines /\ (outline'.pc = "idle" => outline.pc = "idle")
  <2>1. CASE DaemonDies
    BY <2>1 DEF DaemonDies, IdleSplit
  <2>2. CASE ServerDies
    <3>. DEFINE pc == IF outline.pc = "idle" THEN outline.pc ELSE "killed"
    <3>1. UNCHANGED split /\ large' = IdleLarge /\ outline' = [outline EXCEPT !.pc = pc]
      BY <2>2 DEF ServerDies
    <3>2. pc = "idle" => outline.pc = "idle"
      OBVIOUS
    <3>. HIDE DEF pc
    <3>. QED
      BY <1>0, <3>1, <3>2 DEF OutlineCalls, IdleLarge
  <2>. QED
    BY <2>1, <2>2
<1>. QED
  BY <1>1, <1>2, <1>3 DEF Tidy, Written

LEMMA NextTidy ==
    ASSUME KeepInv, AllClean, Next
    PROVE  Tidy
BY SplitTidy, HealTidy, MocTidy, OutlineTidy, LargeTidy, HumanTidy, DeathTidy DEF Next

-----------------------------------------------------------------------------
(* The block the outline goes below stays off the pages that are written blindly *)

LEMMA OutlinePage ==
    ASSUME outline \in OutlineCalls, Next
    PROVE  OutlineBegin \/ (outline'.page = outline.page /\ (outline.pc = "idle" => outline'.pc = "idle"))
<1>1. ASSUME WriteOutline, ~OutlineBegin  PROVE outline.pc # "idle"
  BY <1>1 DEF WriteOutline, OutlineLooks, OutlineLocks, OutlineChecks, OutlineReplaces, OutlineRefreshes, OutlineChains
<1>2. ASSUME WriteOutline, ~OutlineBegin  PROVE outline'.page = outline.page
  BY <1>2 DEF WriteOutline, OutlineLooks, OutlineLocks, OutlineChecks, OutlineReplaces, OutlineRefreshes, OutlineChains,
              Ends, OutlineCalls
<1>3. CASE ServerDies
  BY <1>3 DEF ServerDies, OutlineCalls
<1>4. CASE UNCHANGED outline
  BY <1>4
<1>5. ASSUME ~WriteOutline, ~ServerDies  PROVE UNCHANGED outline
  BY <1>5 DEF Next, Split, SplitBegin, SplitLocks, SplitLooks, SplitWritesChild, SplitChecks, SplitReplaces, SplitEnds, splitOnly,
              Heal, HealBegin, HealLocks, HealWrites, healOnly,
              MapOfContent, MocBegin, MocLocks, MocCopies, MocWrites, mocOnly,
              SplitLarge, LargeBegin, LargeReads, LargeLocks, LargeCopies, LargeWrites, largeOnly,
              Adds, Deletes, Edits, callsOnly, DaemonDies
<1>. QED
  BY <1>1, <1>2, <1>3, <1>4, <1>5

LEMMA NoneOf ==
    ASSUME Types, NEW p \in Paths, ~On(p, Under)
    PROVE  pages[p] # None => Under \notin Bullets(pages[p])
BY DEF On, Bullets

LEMMA LargeIsWithout ==
    ASSUME KeepInv, NEW p \in Paths, Without(p), Next,
           large'.pc \in {"lock", "copy", "write"}, Head(large'.todo) = p
    PROVE  Under \notin Bullets(large'.lines)
<1>0. Types /\ Paged /\ large \in LargeCalls /\ ~On(p, Under)
  BY DEF KeepInv, Types, Without
<1>1. CASE UNCHANGED large
  BY <1>1 DEF Without
<1>2. CASE LargeBegin
  <2>1. large'.pc = "read"
    BY <1>0, <1>2 DEF LargeBegin, LargeCalls
  <2>. QED
    BY <2>1
<1>3. ASSUME LargeGoesOn(large.left)  PROVE FALSE
  BY <1>3 DEF LargeGoesOn, IdleLarge
<1>4. CASE LargeReads
  <2>1. large.pc = "read" /\ large' = [large EXCEPT !.pc = "lock", !.lines = pages[Head(large.todo)]]
    BY <1>3, <1>4 DEF LargeReads
  <2>2. large'.todo = large.todo /\ large'.lines = pages[Head(large.todo)]
    BY <1>0, <2>1 DEF LargeCalls
  <2>3. pages[p] # None
    BY <1>0, <2>1, <2>2, HeadIsPath DEF Paged
  <2>. QED
    BY <1>0, <2>2, <2>3, NoneOf
<1>5. CASE LargeLocks
  <2>. DEFINE done == _process_page(large.lines, large.left)
  <2>1. large.pc = "lock" /\ large' = [large EXCEPT !.pc = "copy", !.lines = done.lines, !.left = done.left]
    BY <1>5 DEF LargeLocks
  <2>2. Bullets(done.lines) \subseteq Bullets(large.lines) \cup LaterBlocks
    BY <1>0, ProcessPageIs DEF LargeCalls, Reworks
  <2>. HIDE DEF done
  <2>3. large'.todo = large.todo /\ large'.lines = done.lines
    BY <1>0, <2>1 DEF LargeCalls
  <2>4. Under \notin LaterBlocks
    BY NewPagesAssumption DEF NewPagesAssumption
  <2>. QED
    BY <2>1, <2>2, <2>3, <2>4 DEF Without
<1>6. CASE LargeCopies
  <2>1. large.pc = "copy" /\ large'.todo = large.todo /\ large'.lines = large.lines
    BY <1>0, <1>6 DEF LargeCopies, LargeCalls
  <2>. QED
    BY <2>1 DEF Without
<1>7. CASE LargeWrites
  BY <1>3, <1>7 DEF LargeWrites
<1>8. CASE ServerDies
  BY <1>8 DEF ServerDies, IdleLarge
<1>9. ASSUME ~SplitLarge, ~ServerDies  PROVE UNCHANGED large
  BY <1>9 DEF Next, Split, SplitBegin, SplitLocks, SplitLooks, SplitWritesChild, SplitChecks, SplitReplaces, SplitEnds, splitOnly,
              Heal, HealBegin, HealLocks, HealWrites, healOnly,
              MapOfContent, MocBegin, MocLocks, MocCopies, MocWrites, mocOnly,
              WriteOutline, OutlineBegin, OutlineLooks, OutlineLocks, OutlineChecks, OutlineReplaces,
              OutlineRefreshes, OutlineChains, outlineOnly, Adds, Deletes, Edits, callsOnly, DaemonDies
<1>. QED
  BY <1>1, <1>2, <1>4, <1>5, <1>6, <1>7, <1>8, <1>9 DEF SplitLarge

LEMMA WithoutStays ==
    ASSUME KeepInv, Tidy, Next, NEW p \in Paths, Without(p), Split => p \notin {Main} \cup Range(ChildOf)
    PROVE  Without(p)'
<1>0. Types /\ outline \in OutlineCalls /\ ~On(p, Under)
  BY DEF KeepInv, Types, Without
<1>1. ASSUME On(p, Under)'  PROVE FALSE
  <2>1. pages'[p] # None /\ Under \in Bullets(pages'[p])
    BY <1>1 DEF On, Bullets
  <2>2. pages'[p] # pages[p]
    BY <1>0, <2>1, NoneOf
  <2>3. PICK q \in Paths, content \in Texts : Writes(q, content) /\ WrittenBy(q, content)
    BY <2>2 DEF Tidy, Written
  <2>4. q = p /\ pages'[p] = content
    BY <1>0, <2>2, <2>3, WritesIs
  <2>5. WrittenBy(p, content) /\ Under \in Bullets(content)
    BY <2>1, <2>3, <2>4
  <2>6. Under \notin Paths \cup NewBlocks
    BY NewPagesAssumption DEF NewPagesAssumption
  <2>7. CASE Bullets(content) \subseteq Paths
    BY <2>5, <2>6, <2>7
  <2>8. CASE Split /\ p \in {Main} \cup Range(ChildOf)
    BY <2>8
  <2>9. CASE OutlineReplaces /\ p = outline.page
    BY <2>9 DEF Without, OutlineReplaces
  <2>10. CASE large.pc = "write" /\ p = Head(large.todo) /\ content = large.lines
    BY <2>5, <2>10 DEF Without
  <2>11. CASE Bullets(content) \subseteq NewBlocks \cup (IF pages[p] = None THEN {} ELSE Bullets(pages[p]))
    BY <1>0, <2>5, <2>6, <2>11, NoneOf
  <2>. QED
    BY <2>5, <2>7, <2>8, <2>9, <2>10, <2>11 DEF WrittenBy
<1>2. outline'.pc # "idle" => outline'.page # p
  <2>1. CASE OutlineBegin
    <3>. DEFINE h == Host(Under)
    <3>1. /\ h # None
          /\ outline' = [outline EXCEPT !.pc = "look", !.page = h, !.at = h, !.base = mtime[h], !.parent = <<Under>>]
      BY <2>1 DEF OutlineBegin
    <3>2. On(h, Under)
      BY <1>0, <3>1, HostIs
    <3>. HIDE DEF h
    <3>3. outline'.page = h
      BY <1>0, <3>1 DEF OutlineCalls
    <3>. QED
      BY <1>0, <3>2, <3>3
  <2>2. CASE outline'.page = outline.page /\ (outline.pc = "idle" => outline'.pc = "idle")
    BY <2>2 DEF Without
  <2>. QED
    BY <1>0, <2>1, <2>2, OutlinePage
<1>3. large'.pc \in {"lock", "copy", "write"} /\ Head(large'.todo) = p => Under \notin Bullets(large'.lines)
  BY LargeIsWithout
<1>. QED
  BY <1>1, <1>2, <1>3 DEF Without, Bullets

LEMMA HealStarts ==
    ASSUME Next, heal.pc = "idle", heal'.pc # "idle"
    PROVE  HealBegin
<1>1. ASSUME Heal  PROVE HealBegin
  BY <1>1 DEF Heal, HealLocks, HealWrites
<1>2. ASSUME ~Heal  PROVE UNCHANGED heal \/ heal'.pc = "idle"
  BY <1>2 DEF Next, Split, SplitBegin, SplitLocks, SplitLooks, SplitWritesChild, SplitChecks, SplitReplaces, SplitEnds, splitOnly,
              MapOfContent, MocBegin, MocLocks, MocCopies, MocWrites, mocOnly,
              WriteOutline, OutlineBegin, OutlineLooks, OutlineLocks, OutlineChecks, OutlineReplaces,
              OutlineRefreshes, OutlineChains, outlineOnly,
              SplitLarge, LargeBegin, LargeReads, LargeLocks, LargeCopies, LargeWrites, largeOnly,
              Adds, Deletes, Edits, callsOnly, DaemonDies, ServerDies, IdleHeal
<1>. QED
  BY <1>1, <1>2

LEMMA PlacedStays ==
    ASSUME MocIsApart, KeepInv, Placed, Tidy, Next
    PROVE  Placed'
<1>0. Types /\ Splitting /\ Paged /\ Moc \in Paths /\ Target \in Paths
  BY NamesAre DEF KeepInv
<1>1. Without(Moc)'
  BY <1>0, WithoutStays DEF Placed, MocIsApart, MocIsNoChild
<1>2. ASSUME heal'.pc # "idle"  PROVE Without(Target)'
  <2>1. CASE heal.pc # "idle"
    <3>1. ~Split
      BY <1>0, <2>1 DEF Splitting, Split, SplitBegin, SplitLocks, SplitLooks, SplitWritesChild, SplitChecks, SplitReplaces, SplitEnds
    <3>. QED
      BY <1>0, <2>1, <3>1, WithoutStays DEF Placed
  <2>2. CASE heal.pc = "idle"
    <3>1. pages[Target] = None /\ UNCHANGED <<pages, outline, large>>
      BY <1>2, <2>2, HealStarts DEF HealBegin, healOnly
    <3>2. large.pc \in {"lock", "copy", "write"} => Head(large.todo) # Target
      BY <1>0, <3>1, HeadIsPath
    <3>3. outline.pc # "idle" => outline.page # Target
      BY <1>0, <3>1 DEF Paged
    <3>. QED
      BY <3>1, <3>2, <3>3 DEF Without, On
  <2>. QED
    BY <2>1, <2>2
<1>. QED
  BY <1>1, <1>2 DEF Placed, Without, On, Bullets

-----------------------------------------------------------------------------
(* The walk: a step of another caller that is no other writer does not touch   *)
(* it, and each step of its own brings it on.                                  *)

LEMMA HostStays ==
    ASSUME NEW b, \A p \in Paths : On(p, b)' <=> On(p, b)
    PROVE  Host(b)' = Host(b)
<1>. DEFINE on == {p \in Paths : On(p, b)}
            one(S) == IF S = {} THEN None ELSE CHOOSE p \in S : TRUE
<1>1. on' = on
  OBVIOUS
<1>2. Host(b) = one(on) /\ Host(b)' = one(on')
  BY DEF Host
<1>. HIDE DEF on, one
<1>. QED
  BY <1>1, <1>2

LEMMA OthersAre ==
    ASSUME Next, ~WriteOutline
    PROVE  UNCHANGED before /\ others' \in {others, TRUE} /\ (outline' = outline \/ ServerDies)
BY DEF Next, Split, SplitBegin, SplitLocks, SplitLooks, SplitWritesChild, SplitChecks, SplitReplaces, SplitEnds, splitOnly,
       Heal, HealBegin, HealLocks, HealWrites, healOnly,
       MapOfContent, MocBegin, MocLocks, MocCopies, MocWrites, mocOnly,
       SplitLarge, LargeBegin, LargeReads, LargeLocks, LargeCopies, LargeWrites, largeOnly,
       Adds, Deletes, Edits, callsOnly, DaemonDies, ServerDies, Faults

LEMMA QuietStep ==
    ASSUME KeepInv, Placed, Tidy, Next, ~WriteOutline, outline.pc # "idle", ~others'
    PROVE  /\ ~others /\ UNCHANGED before
           /\ outline' = outline \/ (outline'.pc = "killed" /\ outline'.page = outline.page)
           /\ pages'[outline.page] = pages[outline.page] /\ mtime'[outline.page] = mtime[outline.page]
           /\ \A p \in Paths : \A b \in Nodes : On(p, b)' => On(p, b)
           /\ Host(Under)' = Host(Under)
<1>0. Types /\ outline \in OutlineCalls /\ outline.page \in Paths
  BY DEF KeepInv, Types, Paged
<1>1. UNCHANGED before /\ ~others /\ (outline' = outline \/ ServerDies)
  <2>1. UNCHANGED before /\ others' \in {others, TRUE} /\ (outline' = outline \/ ServerDies)
    BY OthersAre
  <2>2. others' = others \/ others' = TRUE
    BY <2>1
  <2>3. others' # TRUE
    OBVIOUS
  <2>4. others' = others
    BY <2>2, <2>3
  <2>5. ~others
    BY <2>4, Zenon
  <2>. QED
    BY <2>1, <2>5
<1>2. ServerDies => outline'.pc = "killed" /\ outline'.page = outline.page
  BY <1>0 DEF ServerDies, OutlineCalls
<1>3. ASSUME ~UNCHANGED <<pages, mtime>>
      PROVE  \E q \in Paths, content \in Texts :
                /\ Writes(q, content) /\ Bullets(content) \subseteq Paths /\ q # outline.page /\ ~On(q, Under)
  <2>1. PICK q \in Paths, content \in Texts : Writes(q, content) /\ WrittenBy(q, content)
    BY <1>3 DEF Tidy, Written
  <2>2. Bullets(content) \subseteq Paths /\ (q = Moc \/ (q = Target /\ heal.pc = "write"))
    BY <2>1, Zenon DEF WrittenBy, WriteOutline
  <2>3. Without(q)
    BY <2>2 DEF Placed
  <2>. QED
    BY <2>1, <2>2, <2>3 DEF Without
<1>4. Under \notin Paths /\ Nodes \cap Paths = {}
  BY NewPagesAssumption DEF NewPagesAssumption
<1>5. CASE UNCHANGED <<pages, mtime>>
  <2>1. \A p \in Paths : \A b : On(p, b)' <=> On(p, b)
    BY <1>5 DEF On
  <2>. QED
    BY <1>1, <1>2, <1>5, <2>1, HostStays
<1>6. CASE ~UNCHANGED <<pages, mtime>>
  <2>1. PICK q \in Paths, content \in Texts :
          /\ Writes(q, content) /\ Bullets(content) \subseteq Paths /\ q # outline.page /\ ~On(q, Under)
    BY <1>3, <1>6
  <2>2. pages'[q] = content /\ \A p \in Paths : p # q => pages'[p] = pages[p] /\ mtime'[p] = mtime[p]
    BY <1>0, <2>1, WritesIs
  <2>3. \A p \in Paths : \A b : p # q => (On(p, b)' <=> On(p, b))
    BY <2>2 DEF On
  <2>4. \A b : On(q, b)' => b \in Paths
    BY <2>1, <2>2 DEF On, Bullets
  <2>5. \A p \in Paths : On(p, Under)' <=> On(p, Under)
    BY <1>4, <2>1, <2>3, <2>4
  <2>6. \A p \in Paths : \A b \in Nodes : On(p, b)' => On(p, b)
    BY <1>4, <2>3, <2>4
  <2>. QED
    BY <1>0, <1>1, <1>2, <2>1, <2>2, <2>5, <2>6, HostStays
<1>. QED
  BY <1>5, <1>6

LEMMA QuietKeepsWhole ==
    ASSUME KeepInv, Placed, NodesApart, Walk, Tidy, Next, ~WriteOutline
    PROVE  NodesApart' /\ Walk'
<1>0. outline \in OutlineCalls
  BY DEF KeepInv, Types
<1>1. CASE outline.pc = "idle" \/ others'
  <2>1. outline.pc = "idle" => outline'.pc = "idle"
    BY <1>0, OutlinePage DEF WriteOutline
  <2>. QED
    BY <1>1, <2>1 DEF NodesApart, Walk
<1>2. CASE outline.pc # "idle" /\ ~others'
  <2>1. /\ ~others /\ UNCHANGED before
        /\ outline' = outline \/ (outline'.pc = "killed" /\ outline'.page = outline.page)
        /\ pages'[outline.page] = pages[outline.page] /\ mtime'[outline.page] = mtime[outline.page]
        /\ \A p \in Paths : \A b \in Nodes : On(p, b)' => On(p, b)
        /\ Host(Under)' = Host(Under)
    BY <1>2, QuietStep
  <2>2. outline'.page = outline.page
    BY <2>1
  <2>3. NodesApart'
    BY <1>2, <2>1, <2>2 DEF NodesApart
  <2>4. CASE outline'.pc = "killed"
    BY <2>3, <2>4 DEF Walk
  <2>5. CASE outline' = outline
    <3>1. Chain => Chain'
      BY <2>5 DEF Chain
    <3>. QED
      BY <2>1, <2>3, <2>5, <3>1 DEF Walk
  <2>. QED
    BY <2>1, <2>3, <2>4, <2>5
<1>. QED
  BY <1>1, <1>2

\* The next node's parent is on the page of the walk and on no other.
LEMMA ParentIsHere ==
    ASSUME KeepInv, NodesApart, Walk, outline.pc \in {"look", "lock"}, ~others
    PROVE  Host(Parent) = outline.page
<1>. DEFINE page == outline.page
            n == outline.next
            k == n - 1
            i == IndexOf(before, Under)
            end == SubtreeEnd(before, i)
            w == WithFirst(before, k)
<1>1. /\ outline \in OutlineCalls /\ page \in Paths /\ pages[page] # None
      /\ Len(outline.parent) = Outline[n].d + 1
  BY DEF KeepInv, Types, Paged
<1>2. Captured(before) /\ Host(Under) = page /\ pages[page] = w /\ Chain
  BY DEF Walk
<1>3. n \in DOMAIN Outline /\ n \in Nat /\ k \in Nat /\ k \in 0..Len(Outline) /\ DOMAIN Outline = 1..Len(Outline) /\ Outline[n].d \in Nat
  <2>1. n \in DOMAIN Outline /\ DOMAIN Outline = 1..Len(Outline)
    BY <1>1, NamesAre DEF OutlineCalls
  <2>2. n \in Nat /\ Outline[n].d \in Nat /\ Len(Outline) \in Nat
    BY <2>1, NodesAre
  <2>. QED
    BY <2>1, <2>2
<1>4. Lays(w, before, k, i, end)
  BY <1>2, <1>3, WithFirstLays
<1>5. PICK p \in DOMAIN w : Stands(w, p, end + k, before[i].d + Outline[n].d)
  <2>. HIDE DEF i, end, w
  <2>. QED
    BY <1>1, <1>2, <1>3, <1>4, ParentStands DEF i, end
<1>6. On(page, Parent)
  <2>1. p \in DOMAIN pages[page] /\ pages[page][p].b = Parent
    BY <1>2, <1>5 DEF Stands
  <2>. QED
    BY <1>1, <2>1 DEF On
<1>7. Parent = Under \/ Parent \in Nodes
  <2>1. Parent = outline.parent[Outline[n].d + 1]
    <3>1. outline.parent \in Seq(Names)
      BY <1>1 DEF OutlineCalls
    <3>. QED
      BY <1>1, <1>3, <3>1 DEF Parent, Last
  <2>2. CASE Outline[n].d = 0
    BY <1>2, <2>1, <2>2 DEF Chain
  <2>3. CASE Outline[n].d # 0
    <3>1. Outline[n].d \in 1..Outline[n].d
      BY <1>3, <2>3
    <3>2. PICK j \in 1..n - 1 : outline.parent[Outline[n].d + 1] = Outline[j].b
      BY <1>2, <3>1 DEF Chain
    <3>3. j \in DOMAIN Outline
      BY <1>3, <3>2
    <3>. QED
      BY <2>1, <3>2, <3>3, NodesAre
  <2>. QED
    BY <2>2, <2>3
<1>8. CASE Parent = Under
  BY <1>2, <1>8
<1>9. CASE Parent \in Nodes
  <2>1. {p1 \in Paths : On(p1, Parent)} = {page}
    <3>1. \A p1 \in Paths : On(p1, Parent) => p1 = page
      BY <1>9 DEF NodesApart
    <3>. HIDE DEF page
    <3>. QED
      BY <1>1, <1>6, <3>1
  <2>2. {page} # {} /\ (CHOOSE p1 \in {page} : TRUE) = page
    OBVIOUS
  <2>. HIDE DEF page
  <2>. QED
    BY <2>1, <2>2 DEF Host, page
<1>. QED
  BY <1>7, <1>8, <1>9

\* The page with the first nodes has the block they go below and the last of them.
LEMMA WithFirstHas ==
    ASSUME NEW page, Captured(page), NEW k \in DOMAIN Outline
    PROVE  Under \in Bullets(WithFirst(page, k)) /\ Outline[k].b \in Bullets(WithFirst(page, k))
<1>. DEFINE i == IndexOf(page, Under)
            end == SubtreeEnd(page, i)
            w == WithFirst(page, k)
<1>1. k \in Nat /\ k >= 1 /\ k \in 0..Len(Outline) /\ k \in 1..k
  <2>1. DOMAIN Outline = 1..Len(Outline) /\ Len(Outline) \in Nat
    BY NamesAre
  <2>. QED
    BY <2>1
<1>2. Lays(w, page, k, i, end)
  BY <1>1, WithFirstLays
<1>3. /\ Len(page) \in Nat /\ i \in Nat /\ end \in Nat /\ i <= end /\ end <= Len(page) /\ page[i].b = Under
      /\ i \in DOMAIN page /\ DOMAIN page = 1..Len(page)
  BY CapturedIs
<1>. HIDE DEF i, end, w
<1>4. /\ w \in Texts /\ Len(w) = Len(page) + k /\ \A j \in 1..end : w[j] = page[j]
      /\ \A j \in 1..k : w[end + j].b = Outline[j].b
  BY <1>2 DEF Lays
<1>5. DOMAIN w = 1..Len(w)
  BY <1>4 DEF Texts
<1>6. i \in DOMAIN w /\ i \in 1..end /\ end + k \in DOMAIN w
  <2>1. i \in 1..Len(page)
    BY <1>3
  <2>. QED
    BY <1>1, <1>3, <1>4, <1>5, <2>1
<1>7. w[i].b = Under /\ w[end + k].b = Outline[k].b
  BY <1>1, <1>3, <1>4, <1>6
<1>. QED
  BY <1>6, <1>7 DEF Bullets, w

\* The chain to the parent of the next node.
LEMMA ChainGoesOn ==
    ASSUME outline \in OutlineCalls, Chain, Len(outline.parent) = Outline[outline.next].d + 1,
           outline.next # Len(Outline),
           NEW parent, parent = SubSeq(Append(outline.parent, Outline[outline.next].b), 1, Outline[outline.next + 1].d + 1),
           outline'.next = outline.next + 1, outline'.parent = parent
    PROVE  Chain'
<1>. DEFINE n == outline.next
            D == Outline[n].d
            E == Outline[n + 1].d
            old == outline.parent
            b == Outline[n].b
            longer == Append(old, b)
<1>1. n \in DOMAIN Outline /\ n \in Nat /\ n + 1 \in DOMAIN Outline /\ D \in Nat /\ E \in Nat /\ E <= D + 1 /\ b \in Names
  BY NodesAre DEF OutlineCalls
<1>2. n >= 1
  BY <1>1, NamesAre
<1>3. old \in Seq(Names) /\ Len(old) = D + 1 /\ parent = SubSeq(longer, 1, E + 1)
  BY DEF OutlineCalls
<1>4. outline'.next = n + 1 /\ outline'.parent = parent
  OBVIOUS
<1>5. /\ old[1] = Under
      /\ \A m \in 1..D : \E j \in 1..n - 1 :
            /\ old[m + 1] = Outline[j].b /\ Outline[j].d = m - 1
            /\ \A k \in j + 1..n - 1 : Outline[k].d >= m
  BY DEF Chain
<1>. HIDE DEF n, D, E, old, b
<1>11. E \in Nat /\ D \in Nat /\ E <= D + 1
  BY <1>1
<1>6. longer \in Seq(Names) /\ Len(longer) = D + 2 /\ longer[D + 2] = b /\ \A m \in 1..D + 1 : longer[m] = old[m]
  BY <1>1, <1>3
<1>. HIDE DEF longer
<1>7. \A m \in 1..E + 1 : parent[m] = longer[m]
  <2>1. E + 1 \in Nat /\ E + 1 <= Len(longer) /\ Len(longer) \in Nat
    BY <1>11, <1>6
  <2>2. \A m \in 1..E + 1 : SubSeq(longer, 1, E + 1)[m] = longer[m]
    BY <1>6, <2>1
  <2>. QED
    BY <1>3, <2>2
<1>8. parent[1] = Under
  <2>1. 1 \in 1..E + 1 /\ 1 \in 1..D + 1
    BY <1>1
  <2>. QED
    BY <1>5, <1>6, <1>7, <2>1
<1>9. ASSUME NEW m \in 1..E
      PROVE  \E j \in 1..n :
                /\ parent[m + 1] = Outline[j].b /\ Outline[j].d = m - 1
                /\ \A k \in j + 1..n : Outline[k].d >= m
  <2>4. m + 1 \in 1..E + 1
    BY <1>11
  <2>1. m + 1 \in 1..E + 1 /\ parent[m + 1] = longer[m + 1]
    BY <1>7, <2>4
  <2>2. CASE m <= D
    <3>1. m \in 1..D /\ m + 1 \in 1..D + 1
      BY <1>1, <2>2
    <3>2. PICK j \in 1..n - 1 :
            /\ old[m + 1] = Outline[j].b /\ Outline[j].d = m - 1
            /\ \A k \in j + 1..n - 1 : Outline[k].d >= m
      BY <1>5, <3>1
    <3>3. parent[m + 1] = Outline[j].b
      BY <1>6, <2>1, <3>1, <3>2
    <3>4. ASSUME NEW k \in j + 1..n  PROVE Outline[k].d >= m
      <4>1. CASE k = n
        BY <2>2, <4>1 DEF D
      <4>2. CASE k # n
        <5>1. k \in j + 1..n - 1
          BY <1>1, <3>4, <4>2
        <5>. QED
          BY <3>2, <5>1
      <4>. QED
        BY <4>1, <4>2
    <3>5. j \in 1..n
      BY <1>1
    <3>. QED
      BY <3>2, <3>3, <3>4, <3>5
  <2>3. CASE ~(m <= D)
    <3>1. m = D + 1
      BY <1>1, <2>3
    <3>2. parent[m + 1] = Outline[n].b
      <4>1. m + 1 = D + 2
        BY <1>1, <3>1
      <4>. QED
        BY <1>6, <2>1, <4>1 DEF b
    <3>3. Outline[n].d = m - 1
      BY <1>1, <3>1 DEF D
    <3>4. n \in 1..n /\ n + 1..n = {}
      BY <1>1, <1>2
    <3>. QED
      BY <3>2, <3>3, <3>4
  <2>. QED
    BY <2>2, <2>3
<1>10. (n + 1) - 1 = n
  BY <1>1
<1>. QED
  BY <1>4, <1>8, <1>9, <1>10 DEF Chain, E

LEMMA OutlineBeginKeepsWhole ==
    ASSUME KeepInv, AllClean, OutlineBegin
    PROVE  NodesApart' /\ Walk'
<1>. DEFINE h == Host(Under)
<1>0. Types /\ Paged /\ outline \in OutlineCalls
  BY DEF KeepInv, Types
<1>1. /\ outline.pc = "idle" /\ h # None /\ UNCHANGED <<pages, mtime>> /\ before' = pages[h]
      /\ outline' = [outline EXCEPT !.pc = "look", !.page = h, !.at = h, !.base = mtime[h], !.parent = <<Under>>]
  BY DEF OutlineBegin
<1>2. Host(Under)' = h
  <2>1. \A p \in Paths : On(p, Under)' <=> On(p, Under)
    BY <1>1 DEF On
  <2>. QED
    BY <2>1, HostStays
<1>3. h \in Paths /\ On(h, Under)
  BY <1>0, <1>1, HostIs
<1>. HIDE DEF h
<1>4. pages[h] \in Texts /\ Under \in Bullets(pages[h]) /\ pages[h] # None
  BY <1>0, <1>3, OnIs, NoneIsNoPage
<1>5. Captured(pages[h])
  BY <1>1, <1>3, <1>4, CleanNow DEF Clean, Captured
<1>6. /\ outline'.pc = "look" /\ outline'.page = h /\ outline'.base = mtime[h] /\ outline'.next = 1
      /\ outline'.parent = <<Under>>
  BY <1>0, <1>1 DEF OutlineCalls, Paged
<1>7. NodesApart'
  <2>1. ASSUME NEW p \in Paths, NEW b \in Nodes, On(p, b)'  PROVE FALSE
    <3>1. pages[p] # None /\ b \in Bullets(pages[p])
      BY <1>1, <2>1 DEF On, Bullets
    <3>. QED
      BY <1>1, <3>1, CleanNow DEF Clean
  <2>. QED
    BY <2>1 DEF NodesApart
<1>8. Chain'
  <2>1. Outline[1].d = 0
    BY NewPagesAssumption DEF NewPagesAssumption
  <2>2. outline'.parent[1] = Under /\ 1..Outline[outline'.next].d = {}
    BY <1>6, <2>1
  <2>. QED
    BY <2>2 DEF Chain
<1>9. pages'[h] = WithFirst(before', outline'.next - 1)
  <2>1. outline'.next - 1 = 0
    BY <1>6
  <2>. QED
    BY <1>1, <1>5, <2>1, WithFirstEnds
<1>10. Captured(before')
  BY <1>1, <1>5
<1>. QED
  BY <1>1, <1>2, <1>6, <1>7, <1>8, <1>9, <1>10 DEF Walk

LEMMA OutlineKeepsWhole ==
    ASSUME KeepInv, AllClean, NodesApart, Walk, WriteOutline
    PROVE  NodesApart' /\ Walk'
<1>. DEFINE page == outline.page
            n == outline.next
            b == Outline[n].b
            Still == UNCHANGED <<pages, mtime, before, others>>
<1>0. Types /\ Paged /\ outline \in OutlineCalls
  BY DEF KeepInv, Types
<1>1. CASE OutlineBegin
  BY <1>1, OutlineBeginKeepsWhole
<1>2. CASE others'
  BY <1>2 DEF NodesApart, Walk
<1>3. SUFFICES ASSUME ~OutlineBegin, ~others'  PROVE NodesApart' /\ Walk'
  BY <1>1, <1>2
<1>4. UNCHANGED <<before, others>> /\ outline.pc \notin {"idle", "killed"}
  BY <1>3 DEF WriteOutline, OutlineLooks, OutlineLocks, OutlineChecks, OutlineReplaces, OutlineRefreshes, OutlineChains
<1>5. ~others
  BY <1>3, <1>4, Zenon
\* Where the walk is.
<1>6. /\ page \in Paths /\ pages[page] # None /\ pages[page] \in Texts /\ mtime[page] \in Nat
      /\ Len(outline.parent) = Outline[n].d + 1
  BY <1>0, <1>4 DEF Types, Files, Paged
<1>7. /\ Captured(before) /\ Host(Under) = page
      /\ outline.pc # "refresh" => outline.base = mtime[page]
      /\ outline.pc \in {"look", "lock", "check", "replace"} => pages[page] = WithFirst(before, n - 1)
      /\ outline.pc \in {"check", "replace"} => outline.lines = WithFirst(before, n)
      /\ outline.pc \in {"refresh", "chain"} => pages[page] = WithFirst(before, n)
      /\ outline.pc # "ok" => Chain
  BY <1>4, <1>5 DEF Walk
<1>8. /\ n \in DOMAIN Outline /\ n \in Nat /\ b \in Nodes /\ DOMAIN Outline = 1..Len(Outline)
  BY <1>0, NodesAre, NamesAre DEF OutlineCalls
<1>. HIDE DEF page, n, b
\* A step that writes no page.
<1>9. ASSUME Still, outline'.page = page
      PROVE  NodesApart' /\ Host(Under)' = page /\ pages' = pages /\ mtime' = mtime /\ before' = before
  <2>1. \A p \in Paths : \A x : On(p, x)' <=> On(p, x)
    BY <1>9 DEF On
  <2>2. Host(Under)' = page
    BY <1>7, <2>1, HostStays
  <2>3. NodesApart'
    BY <1>4, <1>5, <1>9, <2>1 DEF NodesApart, page
  <2>. QED
    BY <1>9, <2>2, <2>3
<1>10. ASSUME outline'.next = n, outline'.parent = outline.parent, Chain  PROVE Chain'
  BY <1>10 DEF Chain, n
<1>11. CASE OutlineLooks
  <2>1. outline.pc = "look" /\ Still
    BY <1>11 DEF OutlineLooks
  <2>2. Host(Parent) = page
    BY <1>5, <2>1, ParentIsHere DEF page
  <2>3. outline' = [outline EXCEPT !.pc = "lock", !.at = Host(Parent)]
    BY <1>6, <1>7, <1>11, <2>1, <2>2, NoneIsNoPage, NamesAre DEF OutlineLooks, page
  <2>4. /\ outline'.pc = "lock" /\ outline'.page = page /\ outline'.base = outline.base /\ outline'.next = n
        /\ outline'.parent = outline.parent
    BY <1>0, <2>3 DEF OutlineCalls, page, n
  <2>. QED
    BY <1>7, <1>9, <1>10, <2>1, <2>4 DEF Walk
<1>12. CASE OutlineLocks
  <2>. DEFINE new == Appended(pages[page], b)
  <2>1. outline.pc = "lock" /\ Still
    BY <1>12 DEF OutlineLocks
  <2>2. Host(Parent) = page
    BY <1>5, <2>1, ParentIsHere DEF page
  <2>3. outline' = [outline EXCEPT !.pc = "check", !.lines = new]
    BY <1>7, <1>12, <2>1, <2>2 DEF OutlineLocks, page, n, b
  <2>4. new = WithFirst(before, n)
    <3>1. Appended(WithFirst(before, n - 1), b) = WithFirst(before, n)
      BY <1>0, <1>6, <1>7, <2>1, AppendedNext DEF n, b
    <3>. QED
      BY <1>7, <2>1, <3>1
  <2>. HIDE DEF new
  <2>5. /\ outline'.pc = "check" /\ outline'.page = page /\ outline'.base = outline.base /\ outline'.next = n
        /\ outline'.parent = outline.parent /\ outline'.lines = new
    BY <1>0, <2>3 DEF OutlineCalls, page, n
  <2>. QED
    BY <1>7, <1>9, <1>10, <2>1, <2>4, <2>5 DEF Walk
<1>13. CASE OutlineChecks
  <2>1. outline.pc = "check" /\ Still
    BY <1>13 DEF OutlineChecks
  <2>2. outline' = [outline EXCEPT !.pc = "replace"]
    BY <1>7, <1>13, <2>1 DEF OutlineChecks, Ends, page
  <2>3. /\ outline'.pc = "replace" /\ outline'.page = page /\ outline'.base = outline.base /\ outline'.next = n
        /\ outline'.parent = outline.parent /\ outline'.lines = outline.lines
    BY <1>0, <2>2 DEF OutlineCalls, page, n
  <2>. QED
    BY <1>7, <1>9, <1>10, <2>1, <2>3 DEF Walk
<1>14. CASE OutlineReplaces
  <2>1. /\ outline.pc = "replace" /\ Writes(page, outline.lines)
        /\ outline' = [outline EXCEPT !.pc = "refresh", !.lines = <<>>]
    BY <1>14 DEF OutlineReplaces, page
  <2>2. outline.lines \in Texts
    BY <1>0 DEF OutlineCalls
  <2>3. pages'[page] = outline.lines /\ pages'[page] # None /\ \A p \in Paths : p # page => pages'[p] = pages[p]
    BY <1>0, <1>6, <2>1, <2>2, WritesIs
  <2>4. /\ outline'.pc = "refresh" /\ outline'.page = page /\ outline'.next = n /\ outline'.parent = outline.parent
    BY <1>0, <2>1 DEF OutlineCalls, page, n
  <2>5. pages'[page] = WithFirst(before, n)
    BY <1>7, <2>1, <2>3
  <2>6. \A p \in Paths : \A x : p # page => (On(p, x)' <=> On(p, x))
    BY <2>3 DEF On
  <2>7. Host(Under)' = page
    <3>1. On(page, Under)
      BY <1>0, <1>6, <1>7, HostIs, NamesAre
    <3>2. Under \in Bullets(pages'[page])
      BY <1>7, <1>8, <2>5, WithFirstHas
    <3>3. On(page, Under)'
      <4>1. PICK p \in Paths : p = page
        BY <1>6
      <4>2. On(p, Under)'
        BY <2>3, <3>2, <4>1 DEF On, Bullets
      <4>3. page' = page
        BY <2>4 DEF page
      <4>. QED
        BY <4>1, <4>2, <4>3
    <3>4. ASSUME NEW p \in Paths  PROVE On(p, Under)' <=> On(p, Under)
      <4>1. CASE p = page
        <5>1. On(p, Under)'
          BY <2>3, <3>2, <4>1 DEF On, Bullets
        <5>. QED
          BY <3>1, <4>1, <5>1
      <4>2. CASE p # page
        BY <2>6, <4>2
      <4>. QED
        BY <4>1, <4>2
    <3>. QED
      BY <1>7, <3>4, HostStays
  <2>8. NodesApart'
    BY <1>4, <1>5, <2>4, <2>6 DEF NodesApart, page
  <2>9. Chain'
    BY <1>7, <1>10, <2>1, <2>4
  <2>10. before' = before
    BY <1>4
  <2>. QED
    BY <1>7, <2>4, <2>5, <2>7, <2>8, <2>9, <2>10 DEF Walk
<1>15. CASE OutlineRefreshes
  <2>1. outline.pc = "refresh" /\ Still /\ outline' = [outline EXCEPT !.pc = "chain", !.base = mtime[page]]
    BY <1>15 DEF OutlineRefreshes, page
  <2>2. /\ outline'.pc = "chain" /\ outline'.page = page /\ outline'.base = mtime[page] /\ outline'.next = n
        /\ outline'.parent = outline.parent
    BY <1>0, <2>1 DEF OutlineCalls, page, n
  <2>. QED
    BY <1>7, <1>9, <1>10, <2>1, <2>2 DEF Walk
<1>16. CASE OutlineChains
  <2>. DEFINE parent == SubSeq(Append(outline.parent, b), 1, Outline[n + 1].d + 1)
  <2>1. outline.pc = "chain" /\ Still
    BY <1>16 DEF OutlineChains
  <2>2. Host(b) # None
    <3>1. b \in Bullets(pages[page])
      BY <1>7, <1>8, <2>1, WithFirstHas DEF b
    <3>2. On(page, b)
      BY <1>6, <3>1 DEF On, Bullets
    <3>. QED
      BY <1>0, <1>6, <3>2, HostIs
  <2>3. outline' = IF n = Len(Outline) THEN [outline EXCEPT !.pc = "ok"]
                   ELSE [outline EXCEPT !.pc = "look", !.next = @ + 1, !.parent = parent]
    BY <1>16, <2>2 DEF OutlineChains, Ends, n, b
  <2>. HIDE DEF parent
  <2>4. CASE n = Len(Outline)
    <3>1. outline'.pc = "ok" /\ outline'.page = page /\ outline'.base = outline.base
      BY <1>0, <2>3, <2>4 DEF OutlineCalls, page
    <3>2. pages[page] = WithOutline(before)
      BY <1>7, <2>1, <2>4, WithFirstEnds
    <3>. QED
      BY <1>7, <1>9, <2>1, <3>1, <3>2 DEF Walk
  <2>5. CASE n # Len(Outline)
    <3>1. /\ outline'.pc = "look" /\ outline'.page = page /\ outline'.base = outline.base /\ outline'.next = n + 1
          /\ outline'.parent = parent
      BY <1>0, <2>3, <2>5 DEF OutlineCalls, page, n
    <3>2. Chain'
      <4>1. PICK seq : seq = parent
        OBVIOUS
      <4>. QED
        BY <1>0, <1>6, <1>7, <2>1, <2>5, <3>1, <4>1, ChainGoesOn DEF parent, n, b
    <3>3. outline'.next - 1 = n
      BY <1>8, <3>1
    <3>. QED
      BY <1>7, <1>9, <2>1, <3>1, <3>2, <3>3 DEF Walk
  <2>. QED
    BY <2>4, <2>5
<1>. QED
  BY <1>3, <1>11, <1>12, <1>13, <1>14, <1>15, <1>16 DEF WriteOutline

LEMMA WholeInit ==
    ASSUME MocIsApart, Init
    PROVE  WholeInv
<1>1. /\ pages = [p \in Paths |-> IF p = Main THEN Start ELSE None]
      /\ split.lines = <<>> /\ outline.lines = <<>> /\ large.lines = <<>>
      /\ heal.pc = "idle" /\ outline.pc = "idle" /\ large.pc = "idle"
  BY DEF Init, IdleSplit, IdleHeal, IdleOutline, IdleLarge
<1>2. Clean(Start) /\ Clean(<<>>)
  <2>1. Clean(Start)
    BY NewPagesAssumption DEF NewPagesAssumption, Clean, Once
  <2>. QED
    BY <2>1, EmptyIs, CleanLinks
<1>3. AllClean
  BY <1>1, <1>2 DEF AllClean, Buffers
<1>4. Placed
  <2>1. pages[Moc] = None
    BY <1>1, NamesAre DEF MocIsApart
  <2>. QED
    BY <1>1, <2>1 DEF Placed, Without, On
<1>. QED
  BY <1>1, <1>3, <1>4 DEF WholeInv, NodesApart, Walk

LEMMA WholeNext ==
    ASSUME MocIsApart, KeepInv, WholeInv, [Next]_vars
    PROVE  WholeInv'
<1>1. CASE UNCHANGED vars
  BY <1>1 DEF vars, WholeInv, AllClean, Buffers, Clean, Placed, Without, NodesApart, Walk, Chain, On, Host
<1>2. CASE Next
  <2>1. Types /\ AllClean /\ Placed /\ NodesApart /\ Walk
    BY DEF KeepInv, WholeInv
  <2>2. Tidy
    BY <1>2, <2>1, NextTidy
  <2>3. AllClean'
    BY <2>1, <2>2, TidyKeepsClean
  <2>4. Placed'
    BY <1>2, <2>1, <2>2, PlacedStays
  <2>5. NodesApart' /\ Walk'
    BY <1>2, <2>1, <2>2, QuietKeepsWhole, OutlineKeepsWhole
  <2>. QED
    BY <2>3, <2>4, <2>5 DEF WholeInv
<1>. QED
  BY <1>1, <1>2

\* While nobody else writes, the page of the outline is the one that was captured
\* with the nodes so far in their places, and the next one's parent is on it.
THEOREM WholeInvariant == MocIsApart => (Spec => []WholeInv)
<1>1. ASSUME MocIsApart  PROVE Init /\ [][Next]_vars => []WholeInv
  <2>1. MocIsNoChild
    BY <1>1 DEF MocIsApart
  <2>2. Init => KeepInv /\ WholeInv
    BY <1>1, KeepInit, WholeInit
  <2>3. KeepInv /\ WholeInv /\ [Next]_vars => KeepInv' /\ WholeInv'
    BY <1>1, <2>1, KeepNext, WholeNext
  <2>. QED
    BY <2>2, <2>3, PTL
<1>. QED
  BY <1>1 DEF Spec

\* _headless_write_outline: an outline that nobody interferes with is written
\* whole, for every tree of nodes, every page it goes to and every place on it, and
\* it never takes its own writes for those of another writer.
THEOREM OutlineIsWhole == MocIsApart => (Spec => []OutlineWhole)
<1>1. WholeInv => OutlineWhole
  BY DEF WholeInv, Walk, OutlineWhole
<1>. QED
  BY <1>1, WholeInvariant, PTL
=============================================================================
