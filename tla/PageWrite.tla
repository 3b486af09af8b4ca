----------------------------- MODULE PageWrite ------------------------------
(***************************************************************************)
(* The read-modify-write cycles of one page.  Every function of the code   *)
(* that rewrites a page is a program: the order in which it reads the      *)
(* page, takes the mtime baseline of the optimistic concurrency control    *)
(* (OCC), locks, checks for drift, and commits through a temporary file    *)
(* and os.replace.  The programs differ in that order, and the order is    *)
(* what decides which edits can be lost.  A human saves the page from      *)
(* Logseq without any lock; an MCP server that starts sweeps temporary     *)
(* files, also those in use.                                               *)
(*                                                                         *)
(* The content of the page is the set of edits it carries: a writer reads  *)
(* it into a buffer and commits the buffer with its own edit added.  Every *)
(* file written gets an mtime of its own.                                  *)
(***************************************************************************)
EXTENDS Naturals, Sequences, FiniteSets

CONSTANTS
    None,
    Writers,     \* concurrent calls, each in a thread or process of its own
    Kinds,       \* the functions they may run, by name
    Retries,     \* IO_RETRY_ATTEMPTS
    MaxSaves,    \* bound on the saves of the human
    MaxFaults    \* bound on sweeps, transient OSErrors and crashes

Page == "page"

-----------------------------------------------------------------------------
(* The programs, one per function that rewrites a page. *)

Commit == <<"check", "tmp", "replace">>
Write  == <<"tmp", "replace">>

\* Behind the lock, of the two functions that copy the page to .bak first.
EditCommit == <<"backup">> \o Commit \o <<"unlock">>
AliasCommit == <<"lock", "drift", "backup">> \o Commit \o <<"unlock">>

apply_semantic_page_result ==
    <<"snapshot", "verify", "lock", "read", "drift">> \o Commit \o <<"unlock">>
append_structural_lint_warning ==
    <<"snapshot", "verify", "lock", "drift", "read">> \o Commit \o <<"unlock">>
append_minimal_semantic_index ==
    <<"snapshot", "verify", "lock", "drift", "read">> \o Commit \o <<"unlock">>
run_property_hygiene ==
    <<"snapshot", "lock", "read", "drift">> \o Commit \o <<"unlock">>
run_marpa_framework ==
    <<"snapshot", "lock", "read", "drift">> \o Commit \o <<"unlock">>
run_auto_split ==
    <<"snapshot", "lock", "read", "drift">> \o Commit \o <<"unlock">>
edit_block_property_lines ==
    <<"snapshot", "verify", "lock", "read">> \o EditCommit
headless_append_child ==
    <<"verify", "lock", "drift", "read">> \o Commit \o <<"refresh", "unlock">>
headless_write_outline ==
    <<"snapshot">> \o headless_append_child \o headless_append_child
run_backlink_backpropagator ==
    <<"lock", "read", "snapshot">> \o Commit \o <<"unlock">>
\* Mutant: the baseline is taken and never compared.
run_entity_consolidation_unchecked ==
    <<"snapshot", "read", "lock", "backup">> \o Write \o <<"unlock">>

run_entity_consolidation ==
    <<"snapshot", "read">> \o AliasCommit
append_page_alias_line ==
    <<"read", "snapshot">> \o AliasCommit
unify_tags ==
    <<"lock", "read", "backup">> \o Write \o <<"unlock">>
append_journal_section ==
    <<"lock", "read", "backup">> \o Write \o <<"unlock">>
refactor_logseq_blocks ==
    <<"read", "lock", "backup">> \o Write \o <<"unlock">>
\* Mutant: the copy is made before the lock.
refactor_large_blocks_early_backup ==
    <<"read", "backup", "lock">> \o Write \o <<"unlock">>

refactor_large_blocks ==
    <<"read", "lock", "backup">> \o Write \o <<"unlock">>
append_logseq_flashcards ==
    <<"read", "lock", "backup">> \o Write \o <<"unlock">>

\* The two tools of the MCP server that write.  The baseline of a property
\* edit or an injected query is taken when the request arrives, before its
\* worker thread starts.
dispatch_mutate ==
    [write_outline  |-> headless_write_outline,
     edit_property  |-> edit_block_property_lines,
     append_journal |-> append_journal_section,
     inject_query   |-> <<"snapshot">> \o headless_append_child]

dispatch_refactor ==
    [split_large         |-> refactor_large_blocks,
     reparent            |-> refactor_logseq_blocks,
     generate_flashcards |-> append_logseq_flashcards]

\* What the daemon runs, and the functions nothing but tests calls.
Direct ==
    [apply_semantic_page_result     |-> apply_semantic_page_result,
     append_structural_lint_warning |-> append_structural_lint_warning,
     append_minimal_semantic_index  |-> append_minimal_semantic_index,
     run_property_hygiene           |-> run_property_hygiene,
     run_marpa_framework            |-> run_marpa_framework,
     run_auto_split                 |-> run_auto_split,
     run_entity_consolidation       |-> run_entity_consolidation,
     run_backlink_backpropagator    |-> run_backlink_backpropagator,
     append_page_alias_line         |-> append_page_alias_line,
     unify_tags                     |-> unify_tags]

Programs ==
    [k \in DOMAIN dispatch_mutate \cup DOMAIN dispatch_refactor \cup DOMAIN Direct |->
        IF k \in DOMAIN dispatch_mutate THEN dispatch_mutate[k]
        ELSE IF k \in DOMAIN dispatch_refactor THEN dispatch_refactor[k]
        ELSE Direct[k]]

Program(k) == Programs[k]

\* The calls are of functions of the code, an attempt is made at all, and a
\* writer is neither a time nor an edit of the human.
ASSUME PageWriteAssumption ==
    /\ Kinds \subseteq DOMAIN Programs
    /\ Retries \in Nat \ {0} /\ MaxSaves \in Nat
    /\ None \notin Nat
    /\ Writers \cap Nat = {}

\* a stands before b in a program.
Before(k, a, b) ==
    \E i, j \in DOMAIN Program(k) : i < j /\ Program(k)[i] = a /\ Program(k)[j] = b

\* The page is read under the baseline it is compared with, or inside the lock.
UnderBaseline(k) == Before(k, "snapshot", "read")
Guarded(k) == UnderBaseline(k) \/ Before(k, "lock", "read")

-----------------------------------------------------------------------------
VARIABLES
    page,     \* the edits the page carries
    mtime,    \* its st_mtime
    bak,      \* the edits in its .bak copy
    clock,    \* the time of the last write to any file
    holder,   \* who holds the lock of the page
    kind,     \* the function each writer runs
    ip,       \* the line it is at; past the end of its program it has returned
    base,     \* baseline_mtime, or None
    buf,      \* the content it works on
    tmp,      \* the mtime of its temporary file, or None
    tries,    \* failed attempts of its commit
    seen,     \* history: what the page carried at its last drift check
    saves,    \* saves of the human so far
    faults    \* sweeps, transient errors and crashes so far

writerVars == <<kind, ip, base, buf, tmp, tries, seen>>
vars == <<page, mtime, bak, clock, holder, kind, ip, base, buf, tmp, tries, seen, saves, faults>>

Saves == 1..MaxSaves
Edits == Writers \cup Saves

Lock == INSTANCE RmwMutex WITH Threads <- Writers, Pages <- {Page}

Steps == {"snapshot", "verify", "lock", "read", "drift", "backup",
          "check", "tmp", "replace", "refresh", "unlock"}

Done(w) == ip[w] > Len(Program(kind[w]))
At(w)   == IF Done(w) THEN "done" ELSE Program(kind[w])[ip[w]]
Holds(w) == w \in holder[Page]

TypeOK ==
    /\ page \subseteq Edits /\ bak \subseteq Edits
    /\ mtime \in Nat /\ clock \in Nat /\ saves \in Nat /\ faults \in Nat
    /\ Lock!MutexTypeOK
    /\ kind \in [Writers -> Kinds]
    /\ ip \in [Writers -> Nat \ {0}]
    /\ base \in [Writers -> Nat \cup {None}]
    /\ buf \in [Writers -> SUBSET Edits] /\ seen \in [Writers -> SUBSET Edits]
    /\ tmp \in [Writers -> Nat \cup {None}]
    /\ tries \in [Writers -> 0..Retries]

Init ==
    /\ page = {} /\ bak = {}
    /\ mtime = 0 /\ clock = 0 /\ saves = 0 /\ faults = 0
    /\ Lock!MutexInit
    /\ kind \in [Writers -> Kinds]
    /\ ip = [w \in Writers |-> 1]
    /\ base = [w \in Writers |-> None]
    /\ buf = [w \in Writers |-> {}] /\ seen = [w \in Writers |-> {}]
    /\ tmp = [w \in Writers |-> None]
    /\ tries = [w \in Writers |-> 0]

Advance(w) == ip' = [ip EXCEPT ![w] = @ + 1]

\* A return, an exception or the end of the with block: a writer that holds
\* the lock releases it on the way out.
Return(w) ==
    /\ ip' = [ip EXCEPT ![w] = Len(Program(kind[w])) + 1]
    /\ tmp' = [tmp EXCEPT ![w] = None]
    /\ IF Holds(w) THEN Lock!Leave({w}) ELSE UNCHANGED holder

\* Mutant: only a newer file counts as drift.
file_mtime_newer(w) == mtime > base[w]

file_mtime_drifted(w) == base[w] # mtime

\* occ_snapshot, OCCSnapshot.capture, read_file_mtime; between two appends of
\* an outline, OCCSnapshot.refresh_after_own_write.
Snapshot(w) ==
    /\ At(w) \in {"snapshot", "refresh"}
    /\ base' = [base EXCEPT ![w] = mtime]
    /\ Advance(w)
    /\ UNCHANGED <<page, mtime, bak, clock, holder, kind, buf, tmp, tries, seen, saves, faults>>

\* A drift check before the commit: before the lock or inside it.
Verify(w) ==
    /\ At(w) \in {"verify", "drift"}
    /\ IF file_mtime_drifted(w) THEN Return(w)
       ELSE Advance(w) /\ UNCHANGED <<tmp, holder>>
    /\ UNCHANGED <<page, mtime, bak, clock, kind, base, buf, tries, seen, saves, faults>>

\* page_rmw_lock is entered, or its bounded attempts run out while another
\* writer is inside.
TakeLock(w) ==
    /\ At(w) = "lock"
    /\ Lock!Enter(w, Page)
    /\ Advance(w)
    /\ UNCHANGED <<page, mtime, bak, clock, kind, base, buf, tmp, tries, seen, saves, faults>>

LockUnavailable(w) ==
    /\ At(w) = "lock" /\ holder[Page] # {}
    /\ Return(w)
    /\ UNCHANGED <<page, mtime, bak, clock, kind, base, buf, tries, seen, saves, faults>>

Read(w) ==
    /\ At(w) = "read"
    /\ buf' = [buf EXCEPT ![w] = page]
    /\ Advance(w)
    /\ UNCHANGED <<page, mtime, bak, clock, holder, kind, base, tmp, tries, seen, saves, faults>>

\* What was read needs no edit, or the edit does not apply to it.
NothingToDo(w) ==
    /\ ip[w] > 1 /\ Program(kind[w])[ip[w] - 1] = "read" /\ ~Done(w)
    /\ Return(w)
    /\ UNCHANGED <<page, mtime, bak, clock, kind, base, buf, tries, seen, saves, faults>>

\* shutil.copy2(path, path.bak)
Backup(w) ==
    /\ At(w) = "backup"
    /\ bak' = page
    /\ Advance(w)
    /\ UNCHANGED <<page, mtime, clock, holder, kind, base, buf, tmp, tries, seen, saves, faults>>

\* The check of atomic_write_bytes_if_unchanged and of each attempt of
\* atomic_write_bytes.
Check(w) ==
    /\ At(w) = "check"
    /\ IF file_mtime_drifted(w) THEN Return(w) /\ UNCHANGED seen
       ELSE Advance(w) /\ seen' = [seen EXCEPT ![w] = page] /\ UNCHANGED <<tmp, holder>>
    /\ UNCHANGED <<page, mtime, bak, clock, kind, base, buf, tries, saves, faults>>

\* mkstemp, write, fsync: the new content and its mtime exist beside the page.
WriteTmp(w) ==
    /\ At(w) = "tmp"
    /\ clock' = clock + 1
    /\ tmp' = [tmp EXCEPT ![w] = clock + 1]
    /\ Advance(w)
    /\ UNCHANGED <<page, mtime, bak, holder, kind, base, buf, tries, seen, saves, faults>>

\* Mutant: the page's mtime is taken from a temporary file that may be gone.
ReplaceUnguarded(w) ==
    /\ At(w) = "replace"
    /\ page' = buf[w] \cup {w}
    /\ mtime' = tmp[w]
    /\ tmp' = [tmp EXCEPT ![w] = None]
    /\ Advance(w)
    /\ UNCHANGED <<bak, clock, holder, kind, base, buf, tries, seen, saves, faults>>

\* os.replace: the page becomes the temporary file, its mtime included.
Replace(w) ==
    /\ At(w) = "replace" /\ tmp[w] # None
    /\ page' = buf[w] \cup {w}
    /\ mtime' = tmp[w]
    /\ tmp' = [tmp EXCEPT ![w] = None]
    /\ Advance(w)
    /\ UNCHANGED <<bak, clock, holder, kind, base, buf, tries, seen, saves, faults>>

\* The line the current attempt started at: the drift check where there is a
\* baseline.
AttemptStart(w) ==
    CHOOSE i \in {ip[w] - 2, ip[w] - 1, ip[w]} \cap 1..ip[w] :
        LET Line(j) == Program(kind[w])[j]
        IN  \/ Line(i) = "check"
            \/ Line(i) = "tmp" /\ (i = 1 \/ Line(i - 1) # "check")

\* Mutant: os.replace is tried again without writing the file again, and the
\* attempt is not counted.
AttemptFailsInPlace(w) == UNCHANGED <<page, mtime, bak, clock, holder, kind, ip, base, buf, tmp, tries, seen, saves>>

\* An OSError in the attempt: the temporary file goes, the attempt is made
\* again from its drift check, or the last error is raised.
AttemptFails(w) ==
    /\ tries' = [tries EXCEPT ![w] = @ + 1]
    /\ IF tries[w] + 1 >= Retries THEN Return(w)
       ELSE /\ ip' = [ip EXCEPT ![w] = AttemptStart(w)]
            /\ tmp' = [tmp EXCEPT ![w] = None]
            /\ UNCHANGED holder
    /\ UNCHANGED <<page, mtime, bak, clock, kind, base, buf, seen, saves>>

\* os.replace does not find the temporary file.
ReplaceMissingTmp(w) ==
    /\ At(w) = "replace" /\ tmp[w] = None
    /\ AttemptFails(w)
    /\ UNCHANGED faults

\* Any other OSError of the attempt.
TransientError(w) ==
    /\ At(w) \in {"tmp", "replace"} /\ faults < MaxFaults
    /\ faults' = faults + 1
    /\ AttemptFails(w)

Unlock(w) ==
    /\ At(w) = "unlock"
    /\ Lock!Leave({w})
    /\ Advance(w)
    /\ tries' = [tries EXCEPT ![w] = 0]
    /\ UNCHANGED <<page, mtime, bak, clock, kind, base, buf, tmp, seen, saves, faults>>

\* The process of the writer is killed; the kernel releases its flock.
Crash(w) ==
    /\ ~Done(w) /\ faults < MaxFaults
    /\ faults' = faults + 1
    /\ Return(w)
    /\ UNCHANGED <<page, mtime, bak, clock, kind, base, buf, tries, seen, saves>>

\* The human saves the page from Logseq, on top of what is on disk.
HumanSave ==
    /\ saves < MaxSaves
    /\ saves' = saves + 1
    /\ page' = page \cup {saves + 1}
    /\ clock' = clock + 1 /\ mtime' = clock + 1
    /\ UNCHANGED <<bak, holder, writerVars, faults>>

\* sweep_dangling_atomic_tmp_files of a starting MCP server: every temporary
\* file goes, also one a writer is about to replace the page with.
SweepTmp ==
    /\ faults < MaxFaults /\ \E w \in Writers : tmp[w] # None
    /\ tmp' = [w \in Writers |-> None]
    /\ faults' = faults + 1
    /\ UNCHANGED <<page, mtime, bak, clock, holder, kind, ip, base, buf, tries, seen, saves>>

-----------------------------------------------------------------------------
WriterStep(w) ==
    \/ Snapshot(w) \/ Verify(w) \/ TakeLock(w) \/ LockUnavailable(w)
    \/ Read(w) \/ Backup(w) \/ Check(w) \/ WriteTmp(w) \/ Replace(w)
    \/ ReplaceMissingTmp(w) \/ Unlock(w)

Next ==
    \/ \E w \in Writers : WriterStep(w) \/ NothingToDo(w) \/ TransientError(w) \/ Crash(w)
    \/ HumanSave
    \/ SweepTmp

Spec == Init /\ [][Next]_vars

\* A writer that has started gets to run its next line.
FairSpec == Spec /\ \A w \in Writers : WF_vars(WriterStep(w))

-----------------------------------------------------------------------------
(* Properties *)

\* What OCC does guarantee: the commit of a function that read the page under
\* its baseline carries everything the page carried at the last drift check
\* before it.  Only an edit saved between that check and os.replace can be
\* lost.
CheckedCommitsAreFresh ==
    \A w \in Writers :
        UnderBaseline(kind[w]) /\ At(w) \in {"tmp", "replace"} => seen[w] \subseteq buf[w]

\* shutil.copy2(path, bak): the functions that read the page before they lock
\* it can drop an edit another call has committed since; whatever a commit
\* drops is in the .bak copy that was made under the same lock.
DroppedEditsAreInBackup == [][(page \ page') \cap Writers \subseteq bak]_vars

\* Lock attempts, commit attempts and drift checks are all bounded: every
\* call returns, however often it is disturbed.
CallsReturn == \A w \in Writers : <>Done(w)

\* page_rmw_lock serializes read-modify-write cycles: whatever the writers
\* that read inside it or under a baseline interleave, retry or lose in a
\* crash, their edits enter the page whole, one at a time, and none drops an
\* edit another one committed.  Other runs stand still in the abstract page.
Serial == INSTANCE SerialPage WITH
    Edits <- Writers,
    page  <- IF \A w \in Writers : Guarded(kind[w]) THEN page \cap Writers ELSE {}

ImplementsSerialPage == Serial!SerialSpec
=============================================================================
