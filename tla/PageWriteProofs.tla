---------------------------- MODULE PageWriteProofs ----------------------------
(***************************************************************************)
(* Proofs about PageWrite, for any number of writers, saves of the human,  *)
(* sweeps, errors and crashes.  What a program may do at a line is a       *)
(* matter of its text and is settled first, program by program; the        *)
(* inductive invariant then says what each writer knows of the page at     *)
(* the line it stands at.                                                  *)
(***************************************************************************)
EXTENDS PageWrite, SequenceTheorems, TLAPS

(* What a writer has done by the time it stands at a line.  Every program  *)
(* is a straight line, so this is a matter of its text.                    *)

\* Step s was taken before line i of p, and none of stops since.
Since(p, i, s, stops) ==
    \E j \in 1..(i - 1) : p[j] = s /\ \A m \in (j + 1)..(i - 1) : p[m] \notin stops

\* Inside the with block of page_rmw_lock.
Inside(p, i) == Since(p, i, "lock", {"unlock"})

\* The page was read after the baseline was taken.
FreshRead(p, i) == Since(p, i, "read", {"snapshot", "refresh"})

\* The page was read, or copied to .bak, behind the lock it still holds, and
\* it has not committed since.
LockedRead(p, i) == Since(p, i, "read", {"lock", "unlock", "replace"}) /\ Inside(p, i)
Backed(p, i) == Since(p, i, "backup", {"lock", "unlock", "replace"}) /\ Inside(p, i)

\* What was read under the baseline was found not to have drifted, behind the
\* lock it still holds, and it has not committed since.
Checked(p, i) ==
    /\ Since(p, i, "check", {"lock", "unlock", "replace", "read", "snapshot", "refresh"})
    /\ FreshRead(p, i) /\ Inside(p, i)

(* The orders every program keeps. *)

\* One lock at a time, always released; what is written is written behind it.
LockOrder(p) ==
    /\ ~Inside(p, Len(p) + 1)
    /\ \A i \in 1..Len(p) :
          /\ p[i] = "lock" => ~Inside(p, i)
          /\ p[i] \in {"backup", "check", "tmp", "replace", "unlock"} => Inside(p, i)

\* An attempt is a drift check, if any, the temporary file, os.replace.
AttemptOrder(p) ==
    \A i \in 1..Len(p) :
        /\ p[i] = "check" => i < Len(p) /\ p[i + 1] = "tmp"
        /\ p[i] = "tmp" => i < Len(p) /\ p[i + 1] = "replace"
        /\ p[i] = "replace" => i > 1 /\ p[i - 1] = "tmp"
        /\ p[i] = "tmp" => i = 1 \/ p[i - 1] # "replace"

\* A commit rests on a read behind the lock, on a drift check of what was read
\* or on the copy in .bak.
CommitOrder(p) ==
    \A i \in 1..Len(p) :
        p[i] = "replace" => LockedRead(p, i) \/ Checked(p, i) \/ Backed(p, i)

\* Where the page is read under a baseline, each attempt follows a drift check.
BaselineOrder(p) ==
    \A i \in 1..Len(p) : p[i] \in {"tmp", "replace"} => Checked(p, i)

\* Where the page is read under a baseline or behind the lock, so is what is
\* committed.
GuardedOrder(p) ==
    \A i \in 1..Len(p) : p[i] = "replace" => LockedRead(p, i) \/ Checked(p, i)

Precedes(p, a, b) == \E i, j \in DOMAIN p : i < j /\ p[i] = a /\ p[j] = b

Ordered(p) ==
    /\ p \in Seq(Steps)
    /\ LockOrder(p) /\ AttemptOrder(p) /\ CommitOrder(p)
    /\ Precedes(p, "snapshot", "read") => BaselineOrder(p)
    /\ Precedes(p, "snapshot", "read") \/ Precedes(p, "lock", "read") => GuardedOrder(p)

(* The inductive invariant. *)

\* The program of a writer.
Text(w) == Program(kind[w])

\* A writer stands at a line of its program or has returned; it has an
\* attempt left while it runs; it holds the lock inside the with block.
Control ==
    \A w \in Writers :
        /\ ip[w] <= Len(Text(w)) + 1
        /\ ~Done(w) => tries[w] < Retries
        /\ Holds(w) <=> Inside(Text(w), ip[w])

\* No time is used twice: a temporary file is younger than the page and than
\* every baseline taken so far.
Times ==
    /\ mtime <= clock
    /\ \A w \in Writers :
          /\ base[w] # None => base[w] <= clock
          /\ tmp[w] # None =>
                /\ tmp[w] <= clock /\ tmp[w] # mtime
                /\ \A u \in Writers : tmp[w] # base[u] /\ (u # w => tmp[w] # tmp[u])

\* An unchanged mtime means an unchanged page.
FreshReads ==
    \A w \in Writers :
        ~Done(w) /\ FreshRead(Text(w), ip[w]) /\ base[w] = mtime => buf[w] = page

\* Only the human changes the page while a writer is inside the lock.
LockedReads ==
    \A w \in Writers :
        LockedRead(Text(w), ip[w]) => buf[w] \cap Writers = page \cap Writers

CheckedReads ==
    \A w \in Writers :
        Checked(Text(w), ip[w]) =>
            buf[w] \cap Writers = page \cap Writers /\ seen[w] \subseteq buf[w]

Backups ==
    \A w \in Writers : Backed(Text(w), ip[w]) => page \cap Writers \subseteq bak

Contents == FreshReads /\ LockedReads /\ CheckedReads /\ Backups

Inductive == TypeOK /\ Lock!AtMostOneHolder /\ Control /\ Times /\ Contents

-----------------------------------------------------------------------------
(* The text of the programs. *)

\* Two appends, each with a drift check against the baseline the first one renews.
LEMMA HeadlessWriteOutlineIsOrdered == Ordered(headless_write_outline)
<1> DEFINE p == headless_write_outline
<1> USE DEF headless_write_outline, headless_append_child, Commit
<1>1. p \in Seq(Steps)  BY DEF Steps
<1>2. LockOrder(p)  BY DEF LockOrder, Inside, Since
<1>3. AttemptOrder(p)  BY DEF AttemptOrder
<1>4. BaselineOrder(p)  BY DEF BaselineOrder, Checked, FreshRead, Inside, Since
<1> QED  BY <1>1, <1>2, <1>3, <1>4 DEF Ordered, CommitOrder, BaselineOrder, GuardedOrder

\* The baseline of an injected query is taken when the request arrives.
LEMMA InjectQueryIsOrdered == Ordered(<<"snapshot">> \o headless_append_child)
<1> DEFINE p == <<"snapshot">> \o headless_append_child
<1> USE DEF headless_append_child, Commit
<1>1. p \in Seq(Steps)  BY DEF Steps
<1>2. LockOrder(p)  BY DEF LockOrder, Inside, Since
<1>3. AttemptOrder(p)  BY DEF AttemptOrder
<1>4. BaselineOrder(p)  BY DEF BaselineOrder, Checked, FreshRead, Inside, Since
<1> QED  BY <1>1, <1>2, <1>3, <1>4 DEF Ordered, CommitOrder, BaselineOrder, GuardedOrder

\* Read, copied and checked behind the lock, under a baseline taken before it.
LEMMA EditBlockPropertyLinesIsOrdered == Ordered(edit_block_property_lines)
<1> DEFINE p == edit_block_property_lines
<1> USE DEF edit_block_property_lines, EditCommit, Commit
<1>1. p \in Seq(Steps)  BY DEF Steps
<1>2. LockOrder(p)  BY DEF LockOrder, Inside, Since
<1>3. AttemptOrder(p)  BY DEF AttemptOrder
<1>4. BaselineOrder(p)  BY DEF BaselineOrder, Checked, FreshRead, Inside, Since
<1> QED  BY <1>1, <1>2, <1>3, <1>4 DEF Ordered, CommitOrder, BaselineOrder, GuardedOrder

\* Read behind the lock, then two drift checks.
LEMMA ApplySemanticPageResultIsOrdered == Ordered(apply_semantic_page_result)
<1> DEFINE p == apply_semantic_page_result
<1> USE DEF apply_semantic_page_result, Commit
<1>1. p \in Seq(Steps)  BY DEF Steps
<1>2. LockOrder(p)  BY DEF LockOrder, Inside, Since
<1>3. AttemptOrder(p)  BY DEF AttemptOrder
<1>4. BaselineOrder(p)  BY DEF BaselineOrder, Checked, FreshRead, Inside, Since
<1> QED  BY <1>1, <1>2, <1>3, <1>4 DEF Ordered, CommitOrder, BaselineOrder, GuardedOrder

\* A drift check, then the read it is repeated for at the commit.
LEMMA AppendStructuralLintWarningIsOrdered == Ordered(append_structural_lint_warning)
<1> DEFINE p == append_structural_lint_warning
<1> USE DEF append_structural_lint_warning, Commit
<1>1. p \in Seq(Steps)  BY DEF Steps
<1>2. LockOrder(p)  BY DEF LockOrder, Inside, Since
<1>3. AttemptOrder(p)  BY DEF AttemptOrder
<1>4. BaselineOrder(p)  BY DEF BaselineOrder, Checked, FreshRead, Inside, Since
<1> QED  BY <1>1, <1>2, <1>3, <1>4 DEF Ordered, CommitOrder, BaselineOrder, GuardedOrder

\* Read behind the lock, then two drift checks, and none before the lock.
LEMMA RunPropertyHygieneIsOrdered == Ordered(run_property_hygiene)
<1> DEFINE p == run_property_hygiene
<1> USE DEF run_property_hygiene, Commit
<1>1. p \in Seq(Steps)  BY DEF Steps
<1>2. LockOrder(p)  BY DEF LockOrder, Inside, Since
<1>3. AttemptOrder(p)  BY DEF AttemptOrder
<1>4. BaselineOrder(p)  BY DEF BaselineOrder, Checked, FreshRead, Inside, Since
<1> QED  BY <1>1, <1>2, <1>3, <1>4 DEF Ordered, CommitOrder, BaselineOrder, GuardedOrder

\* The baseline is younger than what was read, but both are behind the lock.
LEMMA RunBacklinkBackpropagatorIsOrdered == Ordered(run_backlink_backpropagator)
<1> DEFINE p == run_backlink_backpropagator
<1> USE DEF run_backlink_backpropagator, Commit
<1>1. p \in Seq(Steps)  BY DEF Steps
<1>2. LockOrder(p)  BY DEF LockOrder, Inside, Since
<1>3. AttemptOrder(p)  BY DEF AttemptOrder
<1>4. ~Precedes(p, "snapshot", "read")  BY DEF Precedes
<1>5. GuardedOrder(p)  BY DEF GuardedOrder, LockedRead, Inside, Since
<1> QED  BY <1>1, <1>2, <1>3, <1>4, <1>5 DEF Ordered, CommitOrder, GuardedOrder

\* Read before the lock, under a baseline.
LEMMA RunEntityConsolidationIsOrdered == Ordered(run_entity_consolidation)
<1> DEFINE p == run_entity_consolidation
<1> USE DEF run_entity_consolidation, AliasCommit, Commit
<1>1. p \in Seq(Steps)  BY DEF Steps
<1>2. LockOrder(p)  BY DEF LockOrder, Inside, Since
<1>3. AttemptOrder(p)  BY DEF AttemptOrder
<1>4. BaselineOrder(p)  BY DEF BaselineOrder, Checked, FreshRead, Inside, Since
<1> QED  BY <1>1, <1>2, <1>3, <1>4 DEF Ordered, CommitOrder, BaselineOrder, GuardedOrder

\* Read before the lock and before the baseline: only the copy saves an edit.
LEMMA AppendPageAliasLineIsOrdered == Ordered(append_page_alias_line)
<1> DEFINE p == append_page_alias_line
<1> USE DEF append_page_alias_line, AliasCommit, Commit
<1>1. p \in Seq(Steps)  BY DEF Steps
<1>2. LockOrder(p)  BY DEF LockOrder, Inside, Since
<1>3. AttemptOrder(p)  BY DEF AttemptOrder
<1>4. ~Precedes(p, "snapshot", "read")  BY DEF Precedes
<1>5. ~Precedes(p, "lock", "read")  BY DEF Precedes
<1>6. CommitOrder(p)  BY DEF CommitOrder, Backed, Inside, Since
<1> QED  BY <1>1, <1>2, <1>3, <1>4, <1>5, <1>6 DEF Ordered

\* Read behind the lock, with no baseline.
LEMMA UnifyTagsIsOrdered == Ordered(unify_tags)
<1> DEFINE p == unify_tags
<1> USE DEF unify_tags, Write
<1>1. p \in Seq(Steps)  BY DEF Steps
<1>2. LockOrder(p)  BY DEF LockOrder, Inside, Since
<1>3. AttemptOrder(p)  BY DEF AttemptOrder
<1>4. ~Precedes(p, "snapshot", "read")  BY DEF Precedes
<1>5. GuardedOrder(p)  BY DEF GuardedOrder, LockedRead, Inside, Since
<1> QED  BY <1>1, <1>2, <1>3, <1>4, <1>5 DEF Ordered, CommitOrder, GuardedOrder

\* Read before the lock, with no baseline: only the copy saves an edit.
LEMMA RefactorLogseqBlocksIsOrdered == Ordered(refactor_logseq_blocks)
<1> DEFINE p == refactor_logseq_blocks
<1> USE DEF refactor_logseq_blocks, Write
<1>1. p \in Seq(Steps)  BY DEF Steps
<1>2. LockOrder(p)  BY DEF LockOrder, Inside, Since
<1>3. AttemptOrder(p)  BY DEF AttemptOrder
<1>4. ~Precedes(p, "snapshot", "read")  BY DEF Precedes
<1>5. ~Precedes(p, "lock", "read")  BY DEF Precedes
<1>6. CommitOrder(p)  BY DEF CommitOrder, Backed, Inside, Since
<1> QED  BY <1>1, <1>2, <1>3, <1>4, <1>5, <1>6 DEF Ordered

\* Every function a call may be of keeps these orders.
LEMMA ProgramsAreOrdered == \A k \in DOMAIN Programs : Ordered(Program(k))
<1> USE DEF Program, Programs
<1>1. Ordered(dispatch_mutate.inject_query)
  BY InjectQueryIsOrdered DEF dispatch_mutate
<1>2. \A k \in DOMAIN dispatch_mutate : Ordered(dispatch_mutate[k])
  <2>1. append_journal_section = unify_tags
    BY DEF append_journal_section, unify_tags
  <2>2. Ordered(dispatch_mutate.write_outline)
    BY HeadlessWriteOutlineIsOrdered DEF dispatch_mutate
  <2>3. Ordered(dispatch_mutate.edit_property)
    BY EditBlockPropertyLinesIsOrdered DEF dispatch_mutate
  <2>4. Ordered(dispatch_mutate.append_journal)
    BY <2>1, UnifyTagsIsOrdered DEF dispatch_mutate
  <2>5. DOMAIN dispatch_mutate =
           {"write_outline", "edit_property", "append_journal", "inject_query"}
    BY DEF dispatch_mutate
  <2> QED  BY <1>1, <2>2, <2>3, <2>4, <2>5
<1>3. \A k \in DOMAIN dispatch_refactor : Ordered(dispatch_refactor[k])
  <2>1. /\ refactor_large_blocks = refactor_logseq_blocks
        /\ append_logseq_flashcards = refactor_logseq_blocks
    BY DEF refactor_large_blocks, refactor_logseq_blocks, append_logseq_flashcards
  <2> QED  BY <2>1, RefactorLogseqBlocksIsOrdered DEF dispatch_refactor
<1>4. \A k \in DOMAIN Direct : Ordered(Direct[k])
  <2>1. /\ append_minimal_semantic_index = append_structural_lint_warning
        /\ run_marpa_framework = run_property_hygiene
        /\ run_auto_split = run_property_hygiene
    BY DEF append_minimal_semantic_index, append_structural_lint_warning,
           run_marpa_framework, run_property_hygiene, run_auto_split
  <2> QED
    BY <2>1, ApplySemanticPageResultIsOrdered, AppendStructuralLintWarningIsOrdered,
       RunPropertyHygieneIsOrdered, RunEntityConsolidationIsOrdered,
       RunBacklinkBackpropagatorIsOrdered, AppendPageAliasLineIsOrdered,
       UnifyTagsIsOrdered DEF Direct
<1> QED  BY <1>2, <1>3, <1>4

\* What a writer has done by the next line, from what it had done by this one.
LEMMA SinceNext ==
    ASSUME NEW p, NEW i \in Nat \ {0}, NEW s, NEW stops
    PROVE  Since(p, i + 1, s, stops) <=> p[i] = s \/ (Since(p, i, s, stops) /\ p[i] \notin stops)
<1>1. ASSUME Since(p, i + 1, s, stops)
      PROVE  p[i] = s \/ (Since(p, i, s, stops) /\ p[i] \notin stops)
  <2>1. PICK j \in 1..i : p[j] = s /\ \A m \in (j + 1)..i : p[m] \notin stops
    BY <1>1 DEF Since
  <2>2. CASE j = i  BY <2>1, <2>2
  <2>3. CASE j < i  BY <2>1, <2>3 DEF Since
  <2> QED  BY <2>2, <2>3
<1>2. ASSUME p[i] = s  PROVE Since(p, i + 1, s, stops)
  BY <1>2 DEF Since
<1>3. ASSUME Since(p, i, s, stops), p[i] \notin stops  PROVE Since(p, i + 1, s, stops)
  <2>1. PICK j \in 1..(i - 1) : p[j] = s /\ \A m \in (j + 1)..(i - 1) : p[m] \notin stops
    BY <1>3 DEF Since
  <2>2. \A m \in (j + 1)..i : p[m] \notin stops  BY <1>3, <2>1
  <2> QED  BY <2>1, <2>2 DEF Since
<1> QED  BY <1>1, <1>2, <1>3

\* Going back over lines that neither do nor undo a thing.
LEMMA SinceBack ==
    ASSUME NEW p, NEW i \in Nat \ {0}, NEW j \in i..(i + 2), NEW s, NEW stops,
           \A m \in i..(j - 1) : p[m] \notin stops
    PROVE  /\ Since(p, i, s, stops) => Since(p, j, s, stops)
           /\ (\A m \in i..(j - 1) : p[m] # s) => (Since(p, j, s, stops) => Since(p, i, s, stops))
<1>1. CASE j = i  BY <1>1
<1>2. CASE j = i + 1  BY <1>2, SinceNext
<1>3. CASE j = i + 2
  <2>1. /\ Since(p, i + 1, s, stops) <=> p[i] = s \/ (Since(p, i, s, stops) /\ p[i] \notin stops)
        /\ Since(p, (i + 1) + 1, s, stops) <=>
              p[i + 1] = s \/ (Since(p, i + 1, s, stops) /\ p[i + 1] \notin stops)
    BY SinceNext
  <2> QED  BY <1>3, <2>1
<1> QED  BY <1>1, <1>2, <1>3

\* At its first line a writer has done nothing.
LEMMA PositionStart ==
    ASSUME NEW p
    PROVE  /\ ~Inside(p, 1) /\ ~FreshRead(p, 1) /\ ~LockedRead(p, 1)
           /\ ~Backed(p, 1) /\ ~Checked(p, 1)
BY DEF Inside, FreshRead, LockedRead, Backed, Checked, Since

\* What a line adds to what a writer has done, and what it undoes.
LEMMA PositionNext ==
    ASSUME NEW p, NEW i \in Nat \ {0}
    PROVE  /\ Inside(p, i + 1) <=> p[i] = "lock" \/ (Inside(p, i) /\ p[i] # "unlock")
           /\ FreshRead(p, i + 1) <=>
                 p[i] = "read" \/ (FreshRead(p, i) /\ p[i] \notin {"snapshot", "refresh"})
           /\ LockedRead(p, i + 1) =>
                 \/ p[i] = "read"
                 \/ LockedRead(p, i) /\ p[i] \notin {"lock", "unlock", "replace"}
           /\ Backed(p, i + 1) =>
                 \/ p[i] = "backup"
                 \/ Backed(p, i) /\ p[i] \notin {"lock", "unlock", "replace"}
           /\ Checked(p, i + 1) =>
                 \/ p[i] = "check" /\ FreshRead(p, i)
                 \/ Checked(p, i) /\ p[i] \notin {"lock", "unlock", "replace", "read"}
<1>1. Inside(p, i + 1) <=> p[i] = "lock" \/ (Inside(p, i) /\ p[i] # "unlock")
  BY SinceNext DEF Inside
<1>2. FreshRead(p, i + 1) <=>
         p[i] = "read" \/ (FreshRead(p, i) /\ p[i] \notin {"snapshot", "refresh"})
  BY SinceNext DEF FreshRead
<1>3. LockedRead(p, i + 1) =>
         \/ p[i] = "read"
         \/ LockedRead(p, i) /\ p[i] \notin {"lock", "unlock", "replace"}
  BY <1>1, SinceNext DEF LockedRead
<1>4. Backed(p, i + 1) =>
         \/ p[i] = "backup"
         \/ Backed(p, i) /\ p[i] \notin {"lock", "unlock", "replace"}
  <2>1. Since(p, i + 1, "backup", {"lock", "unlock", "replace"}) =>
           \/ p[i] = "backup"
           \/ /\ Since(p, i, "backup", {"lock", "unlock", "replace"})
              /\ p[i] \notin {"lock", "unlock", "replace"}
    BY SinceNext
  <2> QED  BY <1>1, <2>1 DEF Backed
<1>5. Checked(p, i + 1) =>
         \/ p[i] = "check" /\ FreshRead(p, i)
         \/ Checked(p, i) /\ p[i] \notin {"lock", "unlock", "replace", "read"}
  <2> DEFINE stops == {"lock", "unlock", "replace", "read", "snapshot", "refresh"}
  <2>1. Since(p, i + 1, "check", stops) =>
           p[i] = "check" \/ (Since(p, i, "check", stops) /\ p[i] \notin stops)
    BY SinceNext
  <2> QED  BY <1>1, <1>2, <2>1 DEF Checked
<1> QED  BY <1>1, <1>2, <1>3, <1>4, <1>5

\* Back to an earlier line of the same attempt.
LEMMA PositionBack ==
    ASSUME NEW p, NEW i \in Nat \ {0}, NEW j \in i..(i + 2),
           \A m \in i..(j - 1) : p[m] \in {"check", "tmp"}
    PROVE  /\ Inside(p, i) <=> Inside(p, j)
           /\ FreshRead(p, i) => FreshRead(p, j)
           /\ LockedRead(p, i) => LockedRead(p, j)
           /\ Backed(p, i) => Backed(p, j)
           /\ Checked(p, i) => Checked(p, j)
BY SinceBack DEF Inside, FreshRead, LockedRead, Backed, Checked

-----------------------------------------------------------------------------
(* Where the steps lead. *)

\* Every writer runs a program that keeps the orders above.
LEMMA TextIsOrdered ==
    ASSUME TypeOK, NEW w \in Writers
    PROVE  Ordered(Text(w)) /\ Len(Text(w)) \in Nat
<1>1. kind[w] \in DOMAIN Programs  BY PageWriteAssumption DEF TypeOK
<1>2. Ordered(Text(w))  BY <1>1, ProgramsAreOrdered DEF Text
<1> QED  BY <1>2, LenProperties DEF Ordered

\* A writer that takes a step stands at a line of its program.
LEMMA LineOf ==
    ASSUME TypeOK, NEW w \in Writers, At(w) # "done"
    PROVE  /\ ~Done(w)
           /\ ip[w] \in 1..Len(Text(w))
           /\ At(w) = Text(w)[ip[w]]
BY TextIsOrdered DEF At, Done, Text, TypeOK

\* The next attempt starts at an earlier line of the same attempt.
LEMMA AttemptStartLine ==
    ASSUME TypeOK, NEW w \in Writers, At(w) \in {"tmp", "replace"}
    PROVE  /\ AttemptStart(w) \in 1..ip[w] /\ ip[w] <= AttemptStart(w) + 2
           /\ \A m \in AttemptStart(w)..(ip[w] - 1) : Text(w)[m] \in {"check", "tmp"}
<1> DEFINE p == Text(w)
           n == ip[w]
           Starts(i) == p[i] = "check" \/ (p[i] = "tmp" /\ (i = 1 \/ p[i - 1] # "check"))
<1>1. n \in 1..Len(p) /\ p[n] \in {"tmp", "replace"} /\ AttemptOrder(p) /\ Len(p) \in Nat
  BY LineOf, TextIsOrdered DEF Ordered
<1>2. \E i \in {n - 2, n - 1, n} \cap 1..n : Starts(i)
  <2>1. ASSUME NEW t \in {n - 1, n} \cap 1..n, p[t] = "tmp"
        PROVE  \E i \in {t - 1, t} \cap 1..n : Starts(i)
    <3>1. CASE t = 1 \/ p[t - 1] # "check"  BY <1>1, <2>1, <3>1
    <3>2. CASE t # 1 /\ p[t - 1] = "check"
      <4>1. t - 1 \in {t - 1, t} \cap 1..n /\ Starts(t - 1)  BY <1>1, <3>2
      <4> QED  BY <4>1
    <3> QED  BY <3>1, <3>2
  <2>2. CASE p[n] = "tmp"  BY <1>1, <2>1, <2>2
  <2>3. CASE p[n] = "replace"
    <3>1. n - 1 \in {n - 1, n} \cap 1..n /\ p[n - 1] = "tmp"
      BY <1>1, <2>3 DEF AttemptOrder
    <3>2. \E i \in {(n - 1) - 1, n - 1} \cap 1..n : Starts(i)  BY <2>1, <3>1
    <3> QED  BY <1>1, <3>2
  <2> QED  BY <1>1, <2>2, <2>3
<1>3. AttemptStart(w) \in {n - 2, n - 1, n} \cap 1..n /\ Starts(AttemptStart(w))
  BY <1>2 DEF AttemptStart, Text
<1> HIDE DEF p, n
<1>4. ASSUME NEW i \in {n - 2, n - 1, n} \cap 1..n, Starts(i), NEW m \in i..(n - 1)
      PROVE  p[m] \in {"check", "tmp"}
  BY <1>1, <1>4 DEF AttemptOrder
<1>5. /\ AttemptStart(w) \in 1..n /\ n <= AttemptStart(w) + 2
      /\ \A m \in AttemptStart(w)..(n - 1) : p[m] \in {"check", "tmp"}
  BY <1>1, <1>3, <1>4
<1> QED  BY <1>5 DEF p, n

(* A step of a writer in one of three forms: it passes the line it stands  *)
(* at, it makes its attempt again, or it returns.                          *)

Passes(w) ==
    LET s == At(w) IN
    /\ s \in Steps
    /\ s = "lock" => holder[Page] = {}
    /\ s \in {"verify", "drift", "check"} => base[w] = mtime
    /\ s = "replace" => tmp[w] # None
    /\ ip' = [ip EXCEPT ![w] = @ + 1]
    /\ holder' = CASE s = "lock" -> [holder EXCEPT ![Page] = {w}]
                   [] s = "unlock" -> [holder EXCEPT ![Page] = @ \ {w}]
                   [] OTHER -> holder
    /\ tries' = IF s = "unlock" THEN [tries EXCEPT ![w] = 0] ELSE tries
    /\ base' = IF s \in {"snapshot", "refresh"} THEN [base EXCEPT ![w] = mtime] ELSE base
    /\ buf' = IF s = "read" THEN [buf EXCEPT ![w] = page] ELSE buf
    /\ bak' = IF s = "backup" THEN page ELSE bak
    /\ seen' = IF s = "check" THEN [seen EXCEPT ![w] = page] ELSE seen
    /\ clock' = IF s = "tmp" THEN clock + 1 ELSE clock
    /\ tmp' = CASE s = "tmp" -> [tmp EXCEPT ![w] = clock + 1]
                [] s = "replace" -> [tmp EXCEPT ![w] = None]
                [] OTHER -> tmp
    /\ page' = IF s = "replace" THEN buf[w] \cup {w} ELSE page
    /\ mtime' = IF s = "replace" THEN tmp[w] ELSE mtime
    /\ UNCHANGED <<kind, saves, faults>>

TriesAgain(w) ==
    /\ At(w) \in {"tmp", "replace"} /\ tries[w] + 1 < Retries
    /\ tries' = [tries EXCEPT ![w] = @ + 1]
    /\ ip' = [ip EXCEPT ![w] = AttemptStart(w)]
    /\ tmp' = [tmp EXCEPT ![w] = None]
    /\ faults' \in Nat
    /\ UNCHANGED <<page, mtime, bak, clock, holder, kind, base, buf, seen, saves>>

Returns(w) ==
    /\ ip' = [ip EXCEPT ![w] = Len(Text(w)) + 1]
    /\ tmp' = [tmp EXCEPT ![w] = None]
    /\ holder' = [holder EXCEPT ![Page] = @ \ {w}]
    /\ tries' = tries \/ (tries[w] < Retries /\ tries' = [tries EXCEPT ![w] = @ + 1])
    /\ faults' \in Nat
    /\ UNCHANGED <<page, mtime, bak, clock, kind, base, buf, seen, saves>>

\* Every step of a writer has one of these forms.
LEMMA WriterStepForms ==
    ASSUME TypeOK, Control, NEW w \in Writers,
           WriterStep(w) \/ NothingToDo(w) \/ TransientError(w) \/ Crash(w)
    PROVE  Passes(w) \/ TriesAgain(w) \/ Returns(w)
<1> USE DEF TypeOK, Lock!MutexTypeOK, Page
<1>1. ASSUME Return(w)
      PROVE  /\ ip' = [ip EXCEPT ![w] = Len(Text(w)) + 1]
             /\ tmp' = [tmp EXCEPT ![w] = None]
             /\ holder' = [holder EXCEPT ![Page] = @ \ {w}]
  BY <1>1 DEF Return, Lock!Leave, Holds, Text
<1>2. CASE Snapshot(w)  BY <1>2 DEF Snapshot, Advance, Passes, Steps
<1>3. CASE Verify(w)
  <2>1. CASE file_mtime_drifted(w)
    BY <1>1, <1>3, <2>1 DEF Verify, Returns
  <2>2. CASE ~file_mtime_drifted(w)
    BY <1>3, <2>2 DEF Verify, file_mtime_drifted, Advance, Passes, Steps
  <2> QED  BY <2>1, <2>2
<1>4. CASE TakeLock(w)  BY <1>4 DEF TakeLock, Lock!Enter, Advance, Passes, Steps
<1>5. CASE LockUnavailable(w)  BY <1>1, <1>5 DEF LockUnavailable, Returns
<1>6. CASE Read(w)  BY <1>6 DEF Read, Advance, Passes, Steps
<1>7. CASE Backup(w)  BY <1>7 DEF Backup, Advance, Passes, Steps
<1>8. CASE Check(w)
  <2>1. CASE file_mtime_drifted(w)
    BY <1>1, <1>8, <2>1 DEF Check, Returns
  <2>2. CASE ~file_mtime_drifted(w)
    BY <1>8, <2>2 DEF Check, file_mtime_drifted, Advance, Passes, Steps
  <2> QED  BY <2>1, <2>2
<1>9. CASE WriteTmp(w)  BY <1>9 DEF WriteTmp, Advance, Passes, Steps
<1>10. CASE Replace(w)  BY <1>10 DEF Replace, Advance, Passes, Steps
<1>11. ASSUME AttemptFails(w), At(w) \in {"tmp", "replace"}, faults' \in Nat
       PROVE  TriesAgain(w) \/ Returns(w)
  <2>1. tries[w] < Retries  BY <1>11, LineOf DEF Control
  <2>2. CASE tries[w] + 1 >= Retries
    BY <1>1, <1>11, <2>1, <2>2 DEF AttemptFails, Returns
  <2>3. CASE ~(tries[w] + 1 >= Retries)
    <3>1. tries[w] + 1 < Retries  BY <2>3, PageWriteAssumption
    <3> QED  BY <1>11, <2>3, <3>1 DEF AttemptFails, TriesAgain
  <2> QED  BY <2>2, <2>3
<1>12. CASE ReplaceMissingTmp(w)  BY <1>11, <1>12 DEF ReplaceMissingTmp
<1>13. CASE Unlock(w)  BY <1>13 DEF Unlock, Lock!Leave, Advance, Passes, Steps
<1>14. CASE NothingToDo(w)  BY <1>1, <1>14 DEF NothingToDo, Returns
<1>15. CASE TransientError(w)  BY <1>11, <1>15 DEF TransientError
<1>16. CASE Crash(w)  BY <1>1, <1>16 DEF Crash, Returns
<1> QED
  BY <1>2, <1>3, <1>4, <1>5, <1>6, <1>7, <1>8, <1>9, <1>10, <1>12, <1>13, <1>14, <1>15, <1>16
     DEF WriterStep

-----------------------------------------------------------------------------
(* The invariant is inductive. *)

\* Nobody has done anything yet.
LEMMA InductiveInit == Init => Inductive
<1> SUFFICES ASSUME Init  PROVE Inductive
  OBVIOUS
<1> USE PageWriteAssumption DEF Init, Lock!MutexInit
<1>1. TypeOK  BY DEF TypeOK, Lock!MutexTypeOK, Edits
<1>2. Lock!AtMostOneHolder  BY DEF Lock!AtMostOneHolder
<1>3. Control
  <2> SUFFICES ASSUME NEW w \in Writers
               PROVE  /\ ip[w] <= Len(Text(w)) + 1
                      /\ tries[w] < Retries
                      /\ Holds(w) <=> Inside(Text(w), ip[w])
    BY DEF Control
  <2>1. Len(Text(w)) \in Nat /\ ~Inside(Text(w), 1)  BY <1>1, TextIsOrdered, PositionStart
  <2> QED  BY <2>1 DEF Holds, Page
<1>4. Times  BY DEF Times
<1>5. Contents
  BY PositionStart DEF Contents, FreshReads, LockedReads, CheckedReads, Backups
<1> QED  BY <1>1, <1>2, <1>3, <1>4, <1>5 DEF Inductive

\* The three forms of a writer's step keep the types.
LEMMA TypeStep == TypeOK /\ Control /\ [Next]_vars => TypeOK'
<1> SUFFICES ASSUME TypeOK, Control, [Next]_vars  PROVE TypeOK'
  OBVIOUS
<1> USE PageWriteAssumption DEF TypeOK, Lock!MutexTypeOK, Page
<1>1. ASSUME NEW w \in Writers, Passes(w)  PROVE TypeOK'
  <2>1. page' \subseteq Edits /\ bak' \subseteq Edits /\ mtime' \in Nat /\ clock' \in Nat
    BY <1>1 DEF Passes, Edits
  <2>2. holder' \in [{Page} -> SUBSET Writers]
    BY <1>1 DEF Passes
  <2>3. ip' \in [Writers -> Nat \ {0}] /\ tries' \in [Writers -> 0..Retries]
    BY <1>1 DEF Passes
  <2>4. base' \in [Writers -> Nat \cup {None}] /\ tmp' \in [Writers -> Nat \cup {None}]
    BY <1>1 DEF Passes
  <2>5. buf' \in [Writers -> SUBSET Edits] /\ seen' \in [Writers -> SUBSET Edits]
    BY <1>1 DEF Passes
  <2> QED  BY <1>1, <2>1, <2>2, <2>3, <2>4, <2>5 DEF Passes
<1>2. ASSUME NEW w \in Writers, TriesAgain(w)  PROVE TypeOK'
  <2>1. AttemptStart(w) \in Nat \ {0}  BY <1>2, AttemptStartLine DEF TriesAgain
  <2> QED  BY <1>2, <2>1 DEF TriesAgain
<1>3. ASSUME NEW w \in Writers, Returns(w)  PROVE TypeOK'
  <2>1. Len(Text(w)) + 1 \in Nat \ {0}  BY TextIsOrdered
  <2>2. tries' \in [Writers -> 0..Retries]  BY <1>3 DEF Returns
  <2> QED  BY <1>3, <2>1, <2>2 DEF Returns
<1>4. CASE HumanSave
  <2>1. saves + 1 \in Edits  BY <1>4 DEF HumanSave, Edits, Saves
  <2> QED  BY <1>4, <2>1 DEF HumanSave, writerVars
<1>5. CASE SweepTmp  BY <1>5 DEF SweepTmp
<1>6. CASE UNCHANGED vars  BY <1>6 DEF vars
<1> QED  BY <1>1, <1>2, <1>3, <1>4, <1>5, <1>6, WriterStepForms DEF Next

\* A writer enters the with block alone and is inside until it leaves it.
LEMMA ControlStep ==
    TypeOK /\ Control /\ Lock!AtMostOneHolder /\ [Next]_vars =>
        Control' /\ Lock!AtMostOneHolder'
<1> SUFFICES ASSUME TypeOK, Control, Lock!AtMostOneHolder, [Next]_vars
             PROVE  Control' /\ Lock!AtMostOneHolder'
  OBVIOUS
<1> USE PageWriteAssumption DEF Page
<1>1. holder \in [{Page} -> SUBSET Writers] /\ \A t, u \in holder[Page] : t = u
  BY DEF TypeOK, Lock!MutexTypeOK, Lock!AtMostOneHolder
<1> DEFINE Keeps(u) == /\ ip'[u] <= Len(Text(u)) + 1
                       /\ ip'[u] <= Len(Text(u)) => tries'[u] < Retries
                       /\ u \in holder'[Page] <=> Inside(Text(u), ip'[u])
<1>2. ASSUME kind' = kind, \A u \in Writers : Keeps(u)  PROVE Control'
  BY <1>2, TextIsOrdered, TypeStep DEF Control, Done, Holds, Text, TypeOK
<1>3. ASSUME NEW u \in Writers, UNCHANGED <<ip[u], tries[u], u \in holder[Page]>>
      PROVE  Keeps(u)
  BY <1>3, TextIsOrdered DEF Control, Done, Holds, Text, TypeOK
<1>4. ASSUME NEW w \in Writers, Passes(w)  PROVE Control' /\ Lock!AtMostOneHolder'
  <2> DEFINE p == Text(w)
  <2>1. ip[w] \in 1..Len(p) /\ At(w) = p[ip[w]] /\ LockOrder(p) /\ Len(p) \in Nat
    BY <1>4, LineOf, TextIsOrdered DEF Passes, Steps, Ordered
  <2>2. ip'[w] = ip[w] + 1  BY <1>4 DEF Passes, TypeOK
  <2>3. tries'[w] < Retries
    <3>1. tries[w] < Retries  BY <1>4, LineOf DEF Passes, Steps, Control
    <3> QED  BY <1>4, <3>1 DEF Passes, TypeOK
  <2>4. w \in holder[Page] <=> Inside(p, ip[w])  BY DEF Control, Holds
  <2>5. Inside(p, ip[w] + 1) <=> p[ip[w]] = "lock" \/ (Inside(p, ip[w]) /\ p[ip[w]] # "unlock")
    BY <2>1, PositionNext
  <2>6. w \in holder'[Page] <=> Inside(p, ip'[w])
    BY <1>1, <1>4, <2>1, <2>2, <2>4, <2>5 DEF Passes
  <2>7. ASSUME NEW u \in Writers, u # w  PROVE UNCHANGED <<ip[u], tries[u], u \in holder[Page]>>
    BY <1>1, <1>4, <2>7 DEF Passes, TypeOK
  <2>8. \A t, u \in holder'[Page] : t = u  BY <1>1, <1>4 DEF Passes
  <2>9. \A u \in Writers : Keeps(u)  BY <1>3, <2>1, <2>2, <2>3, <2>6, <2>7
  <2> QED  BY <1>2, <1>4, <2>8, <2>9 DEF Passes, Lock!AtMostOneHolder
<1>5. ASSUME NEW w \in Writers, TriesAgain(w)  PROVE Control' /\ Lock!AtMostOneHolder'
  <2> DEFINE p == Text(w)
             n == AttemptStart(w)
  <2>1. ip[w] \in 1..Len(p) /\ Len(p) \in Nat
    BY <1>5, LineOf, TextIsOrdered DEF TriesAgain
  <2>2. n \in 1..ip[w] /\ ip[w] \in n..(n + 2) /\ (Inside(p, n) <=> Inside(p, ip[w]))
    <3>1. /\ n \in 1..ip[w] /\ ip[w] <= n + 2
          /\ \A m \in n..(ip[w] - 1) : p[m] \in {"check", "tmp"}
      BY <1>5, AttemptStartLine DEF TriesAgain
    <3>2. n \in Nat \ {0} /\ ip[w] \in n..(n + 2)  BY <2>1, <3>1
    <3> QED  BY <3>1, <3>2, PositionBack
  <2>3. ip'[w] = n /\ tries'[w] < Retries /\ (w \in holder'[Page] <=> w \in holder[Page])
    BY <1>5 DEF TriesAgain, TypeOK
  <2>4. Keeps(w)  BY <2>1, <2>2, <2>3 DEF Control, Holds
  <2>5. ASSUME NEW u \in Writers, u # w  PROVE UNCHANGED <<ip[u], tries[u], u \in holder[Page]>>
    BY <1>5, <2>5 DEF TriesAgain, TypeOK
  <2>6. \A u \in Writers : Keeps(u)  BY <1>3, <2>4, <2>5
  <2> QED  BY <1>1, <1>2, <1>5, <2>6 DEF TriesAgain, Lock!AtMostOneHolder
<1>6. ASSUME NEW w \in Writers, Returns(w)  PROVE Control' /\ Lock!AtMostOneHolder'
  <2> DEFINE p == Text(w)
  <2>1. Len(p) \in Nat /\ ~Inside(p, Len(p) + 1)
    BY TextIsOrdered DEF Ordered, LockOrder
  <2>2. ip'[w] = Len(p) + 1 /\ w \notin holder'[Page]
    BY <1>1, <1>6 DEF Returns, TypeOK
  <2>3. Keeps(w)  BY <2>1, <2>2
  <2>4. ASSUME NEW u \in Writers, u # w  PROVE UNCHANGED <<ip[u], tries[u], u \in holder[Page]>>
    BY <1>1, <1>6, <2>4 DEF Returns, TypeOK
  <2>5. \A u \in Writers : Keeps(u)  BY <1>3, <2>3, <2>4
  <2>6. \A t, u \in holder'[Page] : t = u  BY <1>1, <1>6 DEF Returns
  <2> QED  BY <1>2, <1>6, <2>5, <2>6 DEF Returns, Lock!AtMostOneHolder
<1>7. ASSUME UNCHANGED <<ip, kind, tries, holder>>  PROVE Control' /\ Lock!AtMostOneHolder'
  BY <1>1, <1>2, <1>3, <1>7 DEF Lock!AtMostOneHolder
<1>8. CASE HumanSave  BY <1>7, <1>8 DEF HumanSave, writerVars
<1>9. CASE SweepTmp  BY <1>7, <1>9 DEF SweepTmp
<1>10. CASE UNCHANGED vars  BY <1>7, <1>10 DEF vars
<1> QED  BY <1>4, <1>5, <1>6, <1>8, <1>9, <1>10, WriterStepForms DEF Next

\* No time is used twice.
LEMMA TimesStep == TypeOK /\ Control /\ Times /\ [Next]_vars => Times'
<1> SUFFICES ASSUME TypeOK, Control, Times, [Next]_vars  PROVE Times'
  OBVIOUS
<1> USE PageWriteAssumption
<1>1. ASSUME NEW w \in Writers, Passes(w)  PROVE Times'
  <2>1. CASE At(w) = "tmp"  BY <1>1, <2>1 DEF Passes, Times, TypeOK
  <2>2. CASE At(w) = "replace"  BY <1>1, <2>2 DEF Passes, Times, TypeOK
  <2>3. CASE At(w) \in {"snapshot", "refresh"}  BY <1>1, <2>3 DEF Passes, Times, TypeOK
  <2>4. CASE At(w) \notin {"tmp", "replace", "snapshot", "refresh"}
    BY <1>1, <2>4 DEF Passes, Times
  <2> QED  BY <2>1, <2>2, <2>3, <2>4
<1>2. ASSUME NEW w \in Writers, UNCHANGED <<mtime, clock, base>>, tmp' = [tmp EXCEPT ![w] = None]
      PROVE  Times'
  BY <1>2 DEF Times, TypeOK
<1>3. ASSUME NEW w \in Writers, TriesAgain(w)  PROVE Times'
  BY <1>2, <1>3 DEF TriesAgain
<1>4. ASSUME NEW w \in Writers, Returns(w)  PROVE Times'
  BY <1>2, <1>4 DEF Returns
<1>5. CASE HumanSave  BY <1>5 DEF HumanSave, writerVars, Times, TypeOK
<1>6. CASE SweepTmp  BY <1>6 DEF SweepTmp, Times
<1>7. CASE UNCHANGED vars  BY <1>7 DEF vars, Times
<1> QED  BY <1>1, <1>3, <1>4, <1>5, <1>6, <1>7, WriterStepForms DEF Next


\* A writer whose baseline is still the mtime of the page holds the content of
\* the page.
LEMMA FreshReadsStep == TypeOK /\ Control /\ Times /\ FreshReads /\ [Next]_vars => FreshReads'
<1> SUFFICES ASSUME TypeOK, Control, Times, FreshReads, [Next]_vars,
                    NEW u \in Writers,
                    ~Done(u)', FreshRead(Text(u), ip[u])', (base[u] = mtime)'
             PROVE  buf'[u] = page'
  BY DEF FreshReads
<1> USE PageWriteAssumption
<1> DEFINE p == Text(u)
<1>1. Len(p) \in Nat /\ ip[u] \in Nat \ {0} /\ mtime \in Nat
  BY TextIsOrdered DEF TypeOK
<1>2. ASSUME UNCHANGED <<kind, ip[u], base[u], buf[u], mtime, page>>  PROVE buf'[u] = page'
  BY <1>2 DEF FreshReads, Text, Done
<1>3. ASSUME NEW w \in Writers, Passes(w), At(w) = "replace"  PROVE FALSE
  <2>1. base'[u] = base[u] /\ mtime' = tmp[w] /\ tmp[w] # None
    BY <1>3 DEF Passes
  <2> QED  BY <2>1 DEF Times
<1>4. ASSUME Passes(u), At(u) # "replace"  PROVE buf'[u] = page'
  <2>1. /\ ip'[u] = ip[u] + 1 /\ kind' = kind /\ ip[u] \in 1..Len(p)
        /\ p[ip[u]] = At(u) /\ ~Done(u)
    BY <1>4, LineOf DEF Passes, TypeOK, Steps
  <2>2. \/ p[ip[u]] = "read"
        \/ FreshRead(p, ip[u]) /\ p[ip[u]] \notin {"snapshot", "refresh"}
    <3>1. FreshRead(p, ip[u] + 1)  BY <2>1 DEF Text
    <3> QED  BY <1>1, <3>1, PositionNext
  <2>3. CASE p[ip[u]] = "read"  BY <1>4, <2>1, <2>3 DEF Passes, TypeOK
  <2>4. CASE FreshRead(p, ip[u]) /\ p[ip[u]] \notin {"read", "snapshot", "refresh"}
    <3>1. UNCHANGED <<base, buf, mtime, page>>  BY <1>4, <2>1, <2>4 DEF Passes
    <3> QED  BY <2>1, <2>4, <3>1 DEF FreshReads
  <2> QED  BY <2>2, <2>3, <2>4
<1>5. ASSUME NEW w \in Writers, Passes(w)  PROVE buf'[u] = page'
  <2>1. CASE At(w) = "replace"  BY <1>3, <1>5, <2>1
  <2>2. CASE w = u /\ At(w) # "replace"  BY <1>4, <1>5, <2>2
  <2>3. CASE w # u /\ At(w) # "replace"
    <3>1. UNCHANGED <<kind, ip[u], base[u], buf[u], mtime, page>>
      BY <1>5, <2>3 DEF Passes, TypeOK
    <3> QED  BY <1>2, <3>1
  <2> QED  BY <2>1, <2>2, <2>3
<1>6. ASSUME NEW w \in Writers, TriesAgain(w)  PROVE buf'[u] = page'
  <2>1. CASE w # u
    <3>1. UNCHANGED <<kind, ip[u], base[u], buf[u], mtime, page>>
      BY <1>6, <2>1 DEF TriesAgain, TypeOK
    <3> QED  BY <1>2, <3>1
  <2>2. CASE w = u
    <3> DEFINE n == AttemptStart(u)
    <3>1. /\ n \in 1..ip[u] /\ ip[u] <= n + 2
          /\ \A m \in n..(ip[u] - 1) : p[m] \in {"check", "tmp"}
      BY <1>6, <2>2, AttemptStartLine DEF TriesAgain
    <3>2. n \in Nat \ {0} /\ ip[u] \in n..(n + 2)  BY <1>1, <3>1
    <3>3. ip'[u] = n /\ UNCHANGED <<kind, base, buf, mtime, page>>
      BY <1>6, <2>2 DEF TriesAgain, TypeOK
    <3>4. FreshRead(p, n)  BY <3>3 DEF Text
    <3>5. FreshRead(p, ip[u])  BY <3>1, <3>2, <3>4, PositionBack
    <3>6. ~Done(u)  BY <1>6, <2>2, LineOf DEF TriesAgain
    <3> QED  BY <3>3, <3>5, <3>6 DEF FreshReads
  <2> QED  BY <2>1, <2>2
<1>7. ASSUME NEW w \in Writers, Returns(w)  PROVE buf'[u] = page'
  <2>1. CASE w # u
    <3>1. UNCHANGED <<kind, ip[u], base[u], buf[u], mtime, page>>
      BY <1>7, <2>1 DEF Returns, TypeOK
    <3> QED  BY <1>2, <3>1
  <2>2. CASE w = u
    <3>1. ip'[u] = Len(p) + 1 /\ kind' = kind  BY <1>7, <2>2 DEF Returns, TypeOK
    <3>2. ip'[u] <= Len(p)  BY <1>1, <3>1 DEF Done, Text
    <3> QED  BY <1>1, <3>1, <3>2
  <2> QED  BY <2>1, <2>2
<1>8. CASE HumanSave
  <2>1. base[u] = clock + 1 /\ clock \in Nat  BY <1>8 DEF HumanSave, writerVars, TypeOK
  <2> QED  BY <2>1 DEF Times
<1>9. CASE SweepTmp  BY <1>2, <1>9 DEF SweepTmp
<1>10. CASE UNCHANGED vars  BY <1>2, <1>10 DEF vars
<1> QED  BY <1>5, <1>6, <1>7, <1>8, <1>9, <1>10, WriterStepForms DEF Next

\* Behind its lock only a writer itself commits or copies the page.
LEMMA OnlyHolderCommits ==
    ASSUME TypeOK, Control, Lock!AtMostOneHolder,
           NEW u \in Writers, NEW w \in Writers, w # u,
           Inside(Text(u), ip[u]), At(w) \in {"replace", "backup"}
    PROVE  FALSE
<1>1. LockOrder(Text(w)) /\ ip[w] \in 1..Len(Text(w)) /\ Text(w)[ip[w]] = At(w)
  BY LineOf, TextIsOrdered DEF Ordered
<1>2. Inside(Text(w), ip[w])  BY <1>1 DEF LockOrder
<1>3. u \in holder[Page] /\ w \in holder[Page]  BY <1>2 DEF Control, Holds
<1> QED  BY <1>3 DEF Lock!AtMostOneHolder, Page

\* What a writer has read, checked or copied behind its lock stays what the
\* calls have committed.
LEMMA LockedStep ==
    /\ TypeOK /\ Control /\ Lock!AtMostOneHolder /\ Contents /\ [Next]_vars
    => LockedReads' /\ CheckedReads' /\ Backups'
<1> DEFINE Locked(u) == LockedRead(Text(u), ip[u]) => buf[u] \cap Writers = page \cap Writers
           Tested(u) == Checked(Text(u), ip[u]) =>
                           buf[u] \cap Writers = page \cap Writers /\ seen[u] \subseteq buf[u]
           Copied(u) == Backed(Text(u), ip[u]) => page \cap Writers \subseteq bak
           Knows(u) == Locked(u) /\ Tested(u) /\ Copied(u)
<1> SUFFICES ASSUME TypeOK, Control, Lock!AtMostOneHolder, Contents, [Next]_vars,
                    NEW u \in Writers
             PROVE  Knows(u)'
  BY DEF LockedReads, CheckedReads, Backups
<1> USE PageWriteAssumption
<1> DEFINE p == Text(u)
<1>1. Knows(u) /\ Ordered(p) /\ Len(p) \in Nat /\ ip[u] \in Nat \ {0}
  BY TextIsOrdered DEF Contents, LockedReads, CheckedReads, Backups, TypeOK
<1>2. ASSUME UNCHANGED <<kind, ip[u], buf[u], seen[u]>>, page' \cap Writers = page \cap Writers,
             bak' = bak
      PROVE  Knows(u)'
  BY <1>1, <1>2 DEF Text
<1>3. ASSUME kind' = kind, ~Inside(p, ip'[u])  PROVE Knows(u)'
  BY <1>3 DEF LockedRead, Checked, Backed, Text
<1>4. ASSUME Passes(u)  PROVE Knows(u)'
  <2> DEFINE s == p[ip[u]]
  <2>1. /\ ip'[u] = ip[u] + 1 /\ kind' = kind /\ ip[u] \in 1..Len(p)
        /\ At(u) = s /\ ~Done(u)
    BY <1>4, LineOf DEF Passes, TypeOK, Steps
  <2>2. /\ Text(u)' = p
        /\ LockedRead(p, ip[u] + 1) =>
              s = "read" \/ (LockedRead(p, ip[u]) /\ s \notin {"lock", "unlock", "replace"})
        /\ Backed(p, ip[u] + 1) =>
              s = "backup" \/ (Backed(p, ip[u]) /\ s \notin {"lock", "unlock", "replace"})
        /\ Checked(p, ip[u] + 1) =>
              \/ s = "check" /\ FreshRead(p, ip[u])
              \/ Checked(p, ip[u]) /\ s \notin {"lock", "unlock", "replace", "read"}
    BY <1>1, <2>1, PositionNext DEF Text
  <2> HIDE DEF p, s
  <2>3. Locked(u)'
    <3>1. CASE s = "read"  BY <1>4, <2>1, <3>1 DEF Passes, TypeOK
    <3>2. CASE LockedRead(p, ip[u]) /\ s \notin {"read", "replace"}
      <4>1. UNCHANGED <<buf, page>>  BY <1>4, <2>1, <3>2 DEF Passes
      <4>2. buf[u] \cap Writers = page \cap Writers  BY <1>1, <3>2 DEF p
      <4> QED  BY <4>1, <4>2
    <3>3. CASE ~LockedRead(p, ip[u] + 1)  BY <2>1, <2>2, <3>3
    <3> QED  BY <2>2, <3>1, <3>2, <3>3
  <2>4. Tested(u)'
    <3>1. CASE s = "check" /\ FreshRead(p, ip[u])
      <4>1. buf[u] = page  BY <1>4, <2>1, <3>1 DEF Contents, FreshReads, Passes, p
      <4>2. seen'[u] = page /\ UNCHANGED <<buf, page>>
        BY <1>4, <2>1, <3>1 DEF Passes, TypeOK
      <4> QED  BY <4>1, <4>2
    <3>2. CASE Checked(p, ip[u]) /\ s \notin {"read", "replace", "check"}
      <4>1. UNCHANGED <<buf, page, seen>>  BY <1>4, <2>1, <3>2 DEF Passes
      <4>2. buf[u] \cap Writers = page \cap Writers /\ seen[u] \subseteq buf[u]
        BY <1>1, <3>2 DEF p
      <4> QED  BY <4>1, <4>2
    <3>3. CASE ~Checked(p, ip[u] + 1)  BY <2>1, <2>2, <3>3
    <3>4. Checked(p, ip[u]) => FreshRead(p, ip[u])  BY DEF Checked
    <3> QED  BY <2>2, <3>1, <3>2, <3>3, <3>4
  <2>5. Copied(u)'
    <3>1. CASE s = "backup"  BY <1>4, <2>1, <3>1 DEF Passes
    <3>2. CASE Backed(p, ip[u]) /\ s \notin {"backup", "replace"}
      <4>1. UNCHANGED <<page, bak>>  BY <1>4, <2>1, <3>2 DEF Passes
      <4> QED  BY <1>1, <3>2, <4>1 DEF p
    <3>3. CASE ~Backed(p, ip[u] + 1)  BY <2>1, <2>2, <3>3
    <3> QED  BY <2>2, <3>1, <3>2, <3>3
  <2> QED  BY <2>3, <2>4, <2>5
<1>5. ASSUME NEW w \in Writers, w # u, Passes(w)  PROVE Knows(u)'
  <2>1. UNCHANGED <<kind, ip[u], buf[u], seen[u]>>  BY <1>5 DEF Passes, TypeOK
  <2>2. CASE ~Inside(p, ip[u])  BY <1>3, <2>1, <2>2
  <2>3. CASE Inside(p, ip[u])
    <3>1. At(w) \notin {"replace", "backup"}  BY <1>5, <2>3, OnlyHolderCommits
    <3>2. UNCHANGED <<page, bak>>  BY <1>5, <3>1 DEF Passes
    <3> QED  BY <1>2, <2>1, <3>2
  <2> QED  BY <2>2, <2>3
<1>6. ASSUME NEW w \in Writers, TriesAgain(w)  PROVE Knows(u)'
  <2>1. CASE w # u
    <3>1. UNCHANGED <<kind, ip[u], buf[u], seen[u], page, bak>>
      BY <1>6, <2>1 DEF TriesAgain, TypeOK
    <3> QED  BY <1>2, <3>1
  <2>2. CASE w = u
    <3> DEFINE n == AttemptStart(u)
    <3>1. /\ n \in 1..ip[u] /\ ip[u] <= n + 2
          /\ \A m \in n..(ip[u] - 1) : p[m] \in {"check", "tmp"}
      BY <1>6, <2>2, AttemptStartLine DEF TriesAgain
    <3>2. n \in Nat \ {0} /\ ip[u] \in n..(n + 2)  BY <1>1, <3>1
    <3>3. ip'[u] = n /\ UNCHANGED <<kind, buf, seen, page, bak>> /\ Text(u)' = p
      BY <1>6, <2>2 DEF TriesAgain, TypeOK, Text
    <3>4. /\ LockedRead(p, n) => LockedRead(p, ip[u])
          /\ Backed(p, n) => Backed(p, ip[u])
          /\ Checked(p, n) => Checked(p, ip[u])
      BY <3>1, <3>2, PositionBack
    <3> QED  BY <1>1, <3>3, <3>4
  <2> QED  BY <2>1, <2>2
<1>7. ASSUME NEW w \in Writers, Returns(w)  PROVE Knows(u)'
  <2>1. CASE w # u
    <3>1. UNCHANGED <<kind, ip[u], buf[u], seen[u], page, bak>>
      BY <1>7, <2>1 DEF Returns, TypeOK
    <3> QED  BY <1>2, <3>1
  <2>2. CASE w = u
    <3>1. ip'[u] = Len(p) + 1 /\ kind' = kind  BY <1>7, <2>2 DEF Returns, TypeOK
    <3>2. ~Inside(p, Len(p) + 1)  BY <1>1 DEF Ordered, LockOrder
    <3> QED  BY <1>3, <3>1, <3>2
  <2> QED  BY <2>1, <2>2
<1>8. CASE HumanSave
  <2>1. saves + 1 \notin Writers  BY DEF TypeOK
  <2> QED  BY <1>2, <1>8, <2>1 DEF HumanSave, writerVars
<1>9. CASE SweepTmp  BY <1>2, <1>9 DEF SweepTmp
<1>10. CASE UNCHANGED vars  BY <1>2, <1>10 DEF vars
<1> QED  BY <1>4, <1>5, <1>6, <1>7, <1>8, <1>9, <1>10, WriterStepForms DEF Next

\* No step breaks the invariant.
LEMMA InductiveNext == Inductive /\ [Next]_vars => Inductive'
BY TypeStep, ControlStep, TimesStep, FreshReadsStep, LockedStep DEF Inductive, Contents

\* The invariant holds throughout every behaviour.
THEOREM InvariantHolds == Spec => []Inductive
BY InductiveInit, InductiveNext, PTL DEF Spec

-----------------------------------------------------------------------------
(* What the runs check. *)

\* Every variable keeps its type: no attempt is counted beyond IO_RETRY_ATTEMPTS,
\* and the page always has an mtime.
THEOREM TypeIsCorrect == Spec => []TypeOK
<1>1. Inductive => TypeOK  BY DEF Inductive
<1> QED  BY <1>1, InvariantHolds, PTL

\* The commit of a function that read the page under its baseline carries
\* everything the page carried at the drift check before it.
THEOREM CommitsAreFresh == Spec => []CheckedCommitsAreFresh
<1>1. Inductive => CheckedCommitsAreFresh
  <2> SUFFICES ASSUME Inductive, NEW w \in Writers,
                      UnderBaseline(kind[w]), At(w) \in {"tmp", "replace"}
               PROVE  seen[w] \subseteq buf[w]
    BY DEF CheckedCommitsAreFresh
  <2>1. ip[w] \in 1..Len(Text(w)) /\ At(w) = Text(w)[ip[w]] /\ Ordered(Text(w))
    BY LineOf, TextIsOrdered DEF Inductive
  <2>2. Precedes(Text(w), "snapshot", "read")
    BY DEF UnderBaseline, Before, Precedes, Text
  <2>3. Checked(Text(w), ip[w])  BY <2>1, <2>2 DEF Ordered, BaselineOrder
  <2> QED  BY <2>3 DEF Inductive, Contents, CheckedReads
<1> QED  BY <1>1, InvariantHolds, PTL

\* What the calls have committed changes only by a commit.
LEMMA PageChange ==
    ASSUME TypeOK, Control, [Next]_vars
    PROVE  \/ page' \cap Writers = page \cap Writers
           \/ \E w \in Writers : Passes(w) /\ At(w) = "replace"
<1> USE PageWriteAssumption
<1>1. ASSUME NEW w \in Writers, Passes(w), At(w) # "replace"  PROVE page' = page
  BY <1>1 DEF Passes
<1>2. ASSUME NEW w \in Writers, TriesAgain(w) \/ Returns(w)  PROVE page' = page
  BY <1>2 DEF TriesAgain, Returns
<1>3. ASSUME HumanSave  PROVE page' \cap Writers = page \cap Writers
  BY <1>3 DEF HumanSave, TypeOK
<1>4. ASSUME SweepTmp  PROVE page' = page
  BY <1>4 DEF SweepTmp
<1>5. ASSUME UNCHANGED vars  PROVE page' = page
  BY <1>5 DEF vars
<1> QED  BY <1>1, <1>2, <1>3, <1>4, <1>5, WriterStepForms DEF Next

\* A commit drops an edit of another call only if the copy made under the same
\* lock has it.
THEOREM DroppedEditsAreBackedUp == Spec => DroppedEditsAreInBackup
<1>1. Inductive /\ [Next]_vars => (page \ page') \cap Writers \subseteq bak
  <2> SUFFICES ASSUME Inductive, [Next]_vars
               PROVE  (page \ page') \cap Writers \subseteq bak
    OBVIOUS
  <2>1. ASSUME NEW w \in Writers, Passes(w), At(w) = "replace"
        PROVE  (page \ page') \cap Writers \subseteq bak
    <3>1. /\ ip[w] \in 1..Len(Text(w)) /\ Text(w)[ip[w]] = "replace"
          /\ CommitOrder(Text(w))
      BY <2>1, LineOf, TextIsOrdered DEF Inductive, Ordered
    <3>2. \/ LockedRead(Text(w), ip[w]) \/ Checked(Text(w), ip[w])
          \/ Backed(Text(w), ip[w])
      BY <3>1 DEF CommitOrder
    <3>3. buf[w] \cap Writers = page \cap Writers \/ page \cap Writers \subseteq bak
      BY <3>2 DEF Inductive, Contents, LockedReads, CheckedReads, Backups
    <3>4. page' = buf[w] \cup {w}  BY <2>1 DEF Passes
    <3> QED  BY <3>3, <3>4
  <2> QED  BY <2>1, PageChange DEF Inductive
<1> QED  BY <1>1, InvariantHolds, PTL DEF Spec, DroppedEditsAreInBackup

\* Calls that read behind the lock or under a baseline implement a page that
\* grows by one whole edit at a time.
THEOREM PageIsSerial == Spec => ImplementsSerialPage
<1> DEFINE abstract == IF \A w \in Writers : Guarded(kind[w]) THEN page \cap Writers ELSE {}
<1>1. Init => Serial!SerialInit
  BY DEF Init, Serial!SerialInit
<1>2. Inductive /\ [Next]_vars => [Serial!SerialNext]_abstract
  <2> SUFFICES ASSUME Inductive, [Next]_vars  PROVE [Serial!SerialNext]_abstract
    OBVIOUS
  <2>1. kind' = kind
    BY WriterStepForms
       DEF Inductive, Next, vars, Passes, TriesAgain, Returns, HumanSave, writerVars, SweepTmp
  <2>2. CASE ~(\A w \in Writers : Guarded(kind[w]))  BY <2>1, <2>2
  <2>3. CASE \A w \in Writers : Guarded(kind[w])
    <3>1. abstract = page \cap Writers /\ abstract' = page' \cap Writers  BY <2>1, <2>3
    <3>2. ASSUME NEW w \in Writers, Passes(w), At(w) = "replace"
          PROVE  [Serial!SerialNext]_abstract
      <4>1. /\ ip[w] \in 1..Len(Text(w)) /\ Text(w)[ip[w]] = "replace"
            /\ Ordered(Text(w))
        BY <3>2, LineOf, TextIsOrdered DEF Inductive
      <4>2. Precedes(Text(w), "snapshot", "read") \/ Precedes(Text(w), "lock", "read")
        BY <2>3 DEF Guarded, UnderBaseline, Before, Precedes, Text
      <4>3. LockedRead(Text(w), ip[w]) \/ Checked(Text(w), ip[w])
        BY <4>1, <4>2 DEF Ordered, GuardedOrder
      <4>4. buf[w] \cap Writers = page \cap Writers
        BY <4>3 DEF Inductive, Contents, LockedReads, CheckedReads
      <4>5. page' \cap Writers = (page \cap Writers) \cup {w}
        BY <3>2, <4>4 DEF Passes
      <4>6. CASE w \in page  BY <3>1, <4>5, <4>6
      <4>7. CASE w \notin page
        <5>1. Serial!AddEdit(w)  BY <3>1, <4>5, <4>7 DEF Serial!AddEdit
        <5> QED  BY <5>1 DEF Serial!SerialNext
      <4> QED  BY <4>6, <4>7
    <3>3. CASE page' \cap Writers = page \cap Writers  BY <3>1, <3>3
    <3> QED  BY <3>2, <3>3, PageChange DEF Inductive
  <2> QED  BY <2>2, <2>3
<1> QED  BY <1>1, <1>2, InvariantHolds, PTL DEF Spec, ImplementsSerialPage, Serial!SerialSpec
====
