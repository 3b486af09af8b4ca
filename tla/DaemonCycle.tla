---------------------------- MODULE DaemonCycle -----------------------------
(***************************************************************************)
(* src/agent/maintenance_daemon.py: the duty cycle of the maintenance      *)
(* daemon.  It lists the pages that changed since their ledger record,     *)
(* settles the ones that need no model, gives the others to the LLM,       *)
(* commits the result under optimistic concurrency control and records the *)
(* page in a ledger that is checkpointed after every file.  A human edits  *)
(* and deletes pages at any moment; the daemon is stopped, killed and      *)
(* started again; checkpoints fail.                                        *)
(*                                                                         *)
(* What is abstracted: a page is the kind of its text, the number of       *)
(* semantic index sections it carries, its mtime and the version of the    *)
(* human's text.  A commit is one step here; PageWrite has its lines.      *)
(***************************************************************************)
EXTENDS Naturals, FiniteSets

CONSTANTS
    Pages,
    None,
    MaxFiles,     \* max_files_per_cycle
    Modules,      \* lint_config.any_enabled: the cognitive modules run
    BootDone,     \* whether Phase 1 has completed before the first start
    MaxEdits,     \* bound on what the human does
    MaxFaults,    \* bound on kills, stops, failed saves, busy locks, bad answers
    MaxTouches    \* bound on the pages the cognitive modules rewrite, and on audits

Statuses == {"processed", "skipped", "error", "lock_backoff"}
FileState == [status : Statuses, mtime : Nat, wait : BOOLEAN]

ASSUME DaemonCycleAssumption ==
    /\ IsFiniteSet(Pages) /\ None \notin Pages /\ None \notin FileState
    /\ MaxFiles \in Nat \ {0}
    /\ Modules \in BOOLEAN /\ BootDone \in BOOLEAN
    /\ MaxEdits \in Nat /\ MaxFaults \in Nat /\ MaxTouches \in Nat

VARIABLES
    text,       \* disk: "none" (no file), "empty", "malformed" or "text"
    sections,   \* disk: semantic index sections of the page
    mtime,      \* disk: st_mtime
    human,      \* history: the mtime of the human's last save
    saved,      \* disk: the ledger of the last checkpoint
    savedBoot,  \* disk: bootstrap_complete / bootstrap_failed of it
    catalogOk,  \* disk: is_bootstrap_catalog_complete
    pc,         \* what the daemon is doing
    files,      \* state.files
    boot,       \* "no", "complete" or "failed"
    todo,       \* the pages of the loop still to come
    budget,     \* cycle_budget
    turns,      \* llm_turns_this_cycle
    cur,        \* the page being processed
    start,      \* its mtime when its turn began
    base,       \* baseline_mtime
    got,        \* history: the human version in the content last read
    unsaved,    \* _state_persist_failed
    stop,       \* _stop_requested
    commits,    \* history: index commits of a page since it was last changed
    edits, faults, touches

pageVars == <<text, sections, mtime, human>>
diskVars == <<saved, savedBoot, catalogOk>>
turnVars == <<cur, start, base, got>>
loopVars == <<boot, todo, budget, turns>>
counts   == <<edits, faults, touches>>
vars == <<text, sections, mtime, human, saved, savedBoot, catalogOk, pc, files, boot, todo,
          budget, turns, cur, start, base, got, unsaved, stop, commits, edits, faults, touches>>

Record(s, m) == [status |-> s, mtime |-> m, wait |-> s = "lock_backoff"]

PCs == {"down", "boot", "scan", "idle", "fast", "quarantine", "settle", "relist", "turn", "snapshot",
        "content", "modules", "reread", "resnapshot", "infer", "apply", "quarantined",
        "record", "checkpoint", "reload", "sleep", "final"}

TypeOK ==
    /\ text \in [Pages -> {"none", "empty", "malformed", "text"}]
    /\ sections \in [Pages -> Nat] /\ mtime \in [Pages -> Nat] /\ human \in [Pages -> Nat]
    /\ saved \in [Pages -> FileState \cup {None}] /\ files \in [Pages -> FileState \cup {None}]
    /\ savedBoot \in {"no", "complete", "failed"} /\ boot \in {"no", "complete", "failed"}
    /\ catalogOk \in BOOLEAN /\ unsaved \in BOOLEAN /\ stop \in BOOLEAN
    /\ pc \in PCs
    /\ todo \subseteq Pages /\ budget \in 0..MaxFiles /\ turns \in 0..MaxFiles
    /\ cur \in Pages \cup {None}
    /\ start \in Nat \cup {None} /\ base \in Nat \cup {None} /\ got \in Nat \cup {None}
    /\ commits \in [Pages -> Nat]
    /\ edits \in Nat /\ faults \in Nat /\ touches \in Nat

Exists(p) == text[p] # "none"

-----------------------------------------------------------------------------
(* Which pages are pending *)

Matches(p) == files[p] # None /\ files[p].mtime = mtime[p]
BackingOff(p) == files[p] # None /\ files[p].wait

\* page_needs_phase2_cognitive
NeedsPhase2(p) ==
    /\ text[p] = "text"
    /\ Matches(p) => \/ files[p].status = "skipped" /\ sections[p] > 0
                     \/ files[p].status = "lock_backoff" /\ ~BackingOff(p)

\* The rule of list_pending_files before Phase 1 has completed.
NeedsPhase1(p) ==
    /\ Exists(p)
    /\ Matches(p) => files[p].status = "lock_backoff" /\ ~BackingOff(p)

list_pending_files(complete) ==
    {p \in Pages : IF complete THEN NeedsPhase2(p) ELSE NeedsPhase1(p)}

-----------------------------------------------------------------------------
Init ==
    /\ text \in [Pages -> {"malformed", "text"}]
    /\ sections = [p \in Pages |-> 0]
    /\ mtime = [p \in Pages |-> 1] /\ human = [p \in Pages |-> 1]
    /\ saved = [p \in Pages |-> None] /\ files = saved
    /\ savedBoot = IF BootDone THEN "complete" ELSE "no"
    /\ catalogOk = BootDone
    /\ pc = "down" /\ boot = "no" /\ todo = {} /\ budget = 0 /\ turns = 0
    /\ cur = None /\ start = None /\ base = None /\ got = None
    /\ unsaved = FALSE /\ stop = FALSE
    /\ commits = [p \in Pages |-> 0]
    /\ edits = 0 /\ faults = 0 /\ touches = 0

\* _save_cycle_checkpoint of ledger f: it may fail, and only logs that.
SaveCheckpoint(f) ==
    \/ saved' = f /\ unsaved' = FALSE /\ UNCHANGED faults
    \/ faults < MaxFaults /\ faults' = faults + 1 /\ unsaved' = TRUE /\ UNCHANGED saved

\* A save_daemon_state outside of it: when it raises, the loop of run_forever
\* ends.
SaveOrDie(f, b, next) ==
    /\ UNCHANGED unsaved
    /\ \/ saved' = f /\ savedBoot' = b /\ pc' = next /\ UNCHANGED faults
       \/ /\ faults < MaxFaults /\ faults' = faults + 1
          /\ pc' = "final" /\ UNCHANGED <<saved, savedBoot>>

\* A record for the page at hand.
Put(p, s, m) == files' = [files EXCEPT ![p] = Record(s, m)]

-----------------------------------------------------------------------------
(* Start, Phase 1, stop *)

\* run_forever up to its loop: clear_phase1_error_backoff, and
\* _hydrate_bootstrap_phase from the checkpoint and the catalog.
StartDaemon ==
    /\ pc = "down"
    /\ files' = [p \in Pages |->
                    IF saved[p] # None /\ saved[p].status = "error" THEN None ELSE saved[p]]
    /\ saved' = files'
    /\ boot' = IF catalogOk THEN "complete" ELSE savedBoot
    /\ savedBoot' = boot'
    /\ pc' = IF boot' = "complete" THEN "scan" ELSE "boot"
    /\ stop' = FALSE /\ unsaved' = FALSE
    /\ UNCHANGED <<pageVars, catalogOk, todo, budget, turns, turnVars, commits, counts>>

\* is_bootstrap_catalog_complete: rows follow the harvest and go stale with
\* the pages.  Once Phase 1 is complete in the ledger nobody asks any more.
CatalogMayBecome(ok) ==
    catalogOk' \in IF savedBoot = "complete" THEN {catalogOk} ELSE {ok, catalogOk}

\* run_bootstrap_pipeline: the harvest writes a minimal index into pages that
\* have none (a page may be skipped for a conflict or an error), and completes,
\* fails, or is stopped.
BootPages(S) ==
    /\ S \subseteq {p \in Pages : text[p] = "text" /\ sections[p] = 0}
    /\ sections' = [p \in Pages |-> IF p \in S THEN 1 ELSE sections[p]]
    /\ mtime' = [p \in Pages |-> IF p \in S THEN mtime[p] + 1 ELSE mtime[p]]
    /\ UNCHANGED <<text, human>>

run_bootstrap_pipeline ==
    /\ pc = "boot"
    /\ \E S \in SUBSET Pages : BootPages(S)
    /\ \/ ~stop /\ boot' = "complete" /\ CatalogMayBecome(TRUE)
       \/ ~stop /\ boot' = "failed" /\ CatalogMayBecome(TRUE)
       \/ stop /\ UNCHANGED <<boot, catalogOk>>
    /\ SaveOrDie(files, boot', IF stop THEN "final" ELSE "scan")
    /\ UNCHANGED <<files, todo, budget, turns, turnVars, stop, commits, edits, touches>>

\* run_plumber_audit, a process of its own, harvests the stale pages again.
run_plumber_audit ==
    /\ touches < MaxTouches
    /\ touches' = touches + 1
    /\ \E S \in SUBSET Pages :
         /\ BootPages(S)
         /\ commits' = [p \in Pages |-> IF p \in S THEN 0 ELSE commits[p]]
    /\ CatalogMayBecome(TRUE)
    /\ UNCHANGED <<saved, savedBoot, pc, files, loopVars, turnVars, unsaved, stop,
                   edits, faults>>

\* _handle_daemon_graceful_shutdown
StopSignal ==
    /\ pc # "down" /\ ~stop /\ faults < MaxFaults
    /\ stop' = TRUE /\ faults' = faults + 1
    /\ UNCHANGED <<pageVars, diskVars, pc, files, loopVars, turnVars, unsaved, commits, edits, touches>>

Forget ==
    /\ pc' = "down" /\ files' = [p \in Pages |-> None] /\ boot' = "no"
    /\ todo' = {} /\ budget' = 0 /\ turns' = 0
    /\ cur' = None /\ start' = None /\ base' = None /\ got' = None
    /\ unsaved' = FALSE /\ stop' = FALSE

\* _finalize_graceful_shutdown: the ledger is saved once more, if it can be.
Finalize ==
    /\ pc = "final"
    /\ \/ saved' = files /\ savedBoot' = boot /\ UNCHANGED faults
       \/ faults < MaxFaults /\ faults' = faults + 1 /\ UNCHANGED <<saved, savedBoot>>
    /\ Forget
    /\ UNCHANGED <<pageVars, catalogOk, commits, edits, touches>>

\* SIGKILL or a power cut.
Crash ==
    /\ pc # "down" /\ faults < MaxFaults
    /\ faults' = faults + 1
    /\ Forget
    /\ UNCHANGED <<pageVars, diskVars, commits, edits, touches>>

-----------------------------------------------------------------------------
(* run_cycle: listing and the fast track *)

\* Up to list_pending_files, with the checkpoint before it.
Scan ==
    /\ pc = "scan"
    /\ boot' = IF catalogOk THEN "complete" ELSE boot
    /\ files' = [p \in Pages |-> IF Exists(p) THEN files[p] ELSE None]
    /\ LET pending == {p \in Pages : IF boot' = "complete" THEN NeedsPhase2(p) ELSE NeedsPhase1(p)}
       IN  /\ todo' = pending
           /\ SaveOrDie(files', boot', IF pending = {} THEN "idle" ELSE "fast")
    /\ budget' = MaxFiles /\ turns' = 0
    /\ UNCHANGED <<pageVars, catalogOk, turnVars, stop, commits, edits, touches>>

\* With nothing pending the cycle is refresh_catalog_if_stale: a harvest of
\* the pages without a current catalog row.
RefreshCatalog ==
    /\ pc = "idle"
    /\ \E S \in SUBSET Pages : BootPages(S)
    /\ CatalogMayBecome(TRUE)
    /\ SaveOrDie(files, boot, "reload")
    /\ UNCHANGED <<files, loopVars, turnVars, stop, commits, edits, touches>>

\* The file tree cannot be listed: status "error", the cycle ends.
ScanFails ==
    /\ pc = "scan" /\ faults < MaxFaults
    /\ faults' = faults + 1
    /\ pc' = "reload"
    /\ UNCHANGED <<pageVars, diskVars, files, loopVars, turnVars, unsaved, stop, commits, edits, touches>>

\* _try_fast_track_cycle_file on the next page of the list: an empty page,
\* and before Phase 1 completes a page with an index, is settled at the mtime
\* it had before it was read; other pages are left for the LLM.
FastTrack(p) ==
    /\ pc = "fast" /\ p \in todo /\ budget > 0 /\ ~stop
    /\ text[p] # "malformed"
    /\ todo' = todo \ {p}
    /\ IF text[p] = "empty" \/ (text[p] = "text" /\ sections[p] > 0 /\ boot # "complete")
       THEN /\ Put(p, "skipped", mtime[p])
            /\ SaveCheckpoint(files')
            /\ budget' = budget - 1
       ELSE UNCHANGED <<files, saved, unsaved, faults, budget>>
    /\ UNCHANGED <<pageVars, savedBoot, catalogOk, pc, boot, turns, turnVars, stop, commits, edits, touches>>

\* It read malformed block references: the page goes to quarantine.
FastTrackMalformed(p) ==
    /\ pc = "fast" /\ p \in todo /\ budget > 0 /\ ~stop
    /\ text[p] = "malformed"
    /\ todo' = todo \ {p}
    /\ cur' = p /\ start' = mtime[p]
    /\ pc' = "quarantine"
    /\ UNCHANGED <<pageVars, diskVars, files, boot, budget, turns, base, got, unsaved, stop, commits, counts>>

\* append_structural_lint_warning: nothing is written when the section is
\* there already, or when the page changed or is locked.
QuarantineWrites ==
    /\ pc = "quarantine"
    /\ \/ Exists(cur) /\ mtime' = [mtime EXCEPT ![cur] = @ + 1]
       \/ UNCHANGED mtime
    /\ pc' = "settle"
    /\ UNCHANGED <<text, sections, human, diskVars, files, loopVars, turnVars, unsaved, stop,
                   commits, counts>>

\* The mtime a record gets that is taken after the write.
MtimeNow(p) == IF Exists(p) THEN mtime[p] ELSE start

\* The rest of _quarantine_structural_lint, and the checkpoint after it.
QuarantineSettles ==
    /\ pc = "settle"
    /\ Put(cur, "skipped", MtimeNow(cur))
    /\ SaveCheckpoint(files')
    /\ budget' = budget - 1
    /\ cur' = None /\ start' = None
    /\ pc' = "fast"
    /\ UNCHANGED <<pageVars, savedBoot, catalogOk, boot, todo, turns, base, got, stop, commits, edits, touches>>

\* The end of the fast track.  After a failed Phase 1 no page goes to the LLM.
Relist ==
    /\ pc = "fast" /\ (todo = {} \/ budget = 0 \/ stop)
    /\ todo' = IF stop \/ boot = "failed" THEN {} ELSE list_pending_files(boot = "complete")
    /\ pc' = "turn"
    /\ UNCHANGED <<pageVars, diskVars, files, boot, budget, turns, turnVars, unsaved, stop, commits, counts>>

-----------------------------------------------------------------------------
(* _process_llm_cycle_file *)

TakeTurn(p, within) ==
    /\ pc = "turn" /\ p \in todo /\ within /\ ~stop
    /\ todo' = todo \ {p}
    /\ IF Exists(p)
       THEN /\ cur' = p /\ start' = mtime[p] /\ base' = None /\ got' = None
            /\ SaveCheckpoint(files)
            /\ pc' = "snapshot"
       ELSE /\ pc' = "final"
            /\ UNCHANGED <<turnVars, saved, unsaved, faults>>
    /\ UNCHANGED <<pageVars, savedBoot, catalogOk, files, boot, budget, turns, stop, commits, edits, touches>>

\* Mutant: the turns of the cycle are not counted against the budget.
BeginPageOverBudget(p) == TakeTurn(p, TRUE)

\* path.stat() and the checkpoint before the work.  The stat is outside the
\* try block: a page that is gone raises out of run_forever.
BeginPage(p) == TakeTurn(p, turns < budget)

Snapshot ==
    /\ pc \in {"snapshot", "resnapshot"}
    /\ base' = IF Exists(cur) THEN mtime[cur] ELSE base
    /\ pc' = IF pc = "snapshot" THEN "content" ELSE "infer"
    /\ UNCHANGED <<pageVars, diskVars, files, loopVars, cur, start, got, unsaved, stop, commits, counts>>

ReadContent ==
    /\ pc \in {"content", "reread"}
    /\ got' = IF Exists(cur) THEN human[cur] ELSE got
    /\ pc' = IF pc = "reread" THEN IF Exists(cur) THEN "resnapshot" ELSE "infer"
             ELSE IF Modules THEN "modules" ELSE "infer"
    /\ UNCHANGED <<pageVars, diskVars, files, loopVars, cur, start, base, unsaved, stop, commits, counts>>

\* run_cognitive_lint_pipeline: a module may rewrite this page, or another
\* one (an alias, a page it splits off), and a checkpoint is saved.
RunModules ==
    /\ pc = "modules"
    /\ \E S \in SUBSET {p \in Pages : text[p] = "text"} :
         /\ touches + Cardinality(S) <= MaxTouches
         /\ touches' = touches + Cardinality(S)
         /\ mtime' = [p \in Pages |-> IF p \in S THEN mtime[p] + 1 ELSE mtime[p]]
         /\ commits' = [p \in Pages |-> IF p \in S THEN 0 ELSE commits[p]]
    /\ SaveCheckpoint(files)
    /\ pc' = "reread"
    /\ UNCHANGED <<text, sections, human, savedBoot, catalogOk, files, loopVars, turnVars, stop, edits>>

file_mtime_drifted == base # None /\ (~Exists(cur) \/ base # mtime[cur])

\* Mutant: a failed inference leaves no record.
InferForgetsErrors ==
    /\ pc = "infer"
    /\ \/ pc' = "checkpoint" /\ UNCHANGED turns
       \/ ~file_mtime_drifted /\ pc' = "apply" /\ turns' \in {turns, turns + 1}
    /\ UNCHANGED <<pageVars, diskVars, files, boot, todo, budget, turnVars, unsaved, stop, commits, counts>>

\* index_page: the model answers, or it fails and the page gets an error
\* record with the mtime of the start.  Token counts decide what is a turn: a
\* cached answer is none, nor is one whose page has changed by then.
Infer ==
    /\ pc = "infer"
    /\ \/ file_mtime_drifted /\ pc' = "checkpoint" /\ UNCHANGED <<files, turns>>
       \/ ~file_mtime_drifted /\ pc' = "apply" /\ turns' \in {turns, turns + 1} /\ UNCHANGED files
       \/ ~file_mtime_drifted /\ pc' = "checkpoint" /\ Put(cur, "error", start)
          /\ turns' \in {turns, turns + 1}
    /\ UNCHANGED <<pageVars, diskVars, boot, todo, budget, turnVars, unsaved, stop, commits, counts>>

\* A commit to a page that has text, and no write to any other.
CommitIndex(unchanged, index) ==
    /\ pc = "apply" /\ unchanged /\ text[cur] # "malformed"
    /\ IF text[cur] = "text"
       THEN /\ mtime' = [mtime EXCEPT ![cur] = @ + 1]
            /\ sections' = [sections EXCEPT ![cur] = index]
            /\ commits' = [commits EXCEPT ![cur] = @ + 1]
       ELSE UNCHANGED <<mtime, sections, commits>>
    /\ pc' = "record"
    /\ UNCHANGED <<text, human, diskVars, files, loopVars, turnVars, unsaved, stop, counts>>

\* Mutants: a page with an index gets a second one; the page is not compared
\* with its baseline.
CommitAppends == CommitIndex(~file_mtime_drifted, sections[cur] + 1)
CommitUnchecked == CommitIndex(TRUE, IF sections[cur] = 0 THEN 1 ELSE sections[cur])

\* apply_semantic_page_result commits the index, once: a section that is
\* there stays.  An empty page, or one gone since before the snapshot, is
\* left alone.
Commit == CommitIndex(~file_mtime_drifted, IF sections[cur] = 0 THEN 1 ELSE sections[cur])

\* The page changed since the baseline: nothing is written or recorded.
CommitAborts ==
    /\ pc = "apply" /\ file_mtime_drifted
    /\ pc' = "checkpoint"
    /\ UNCHANGED <<pageVars, diskVars, files, loopVars, turnVars, unsaved, stop, commits, counts>>

\* PageLockUnavailableError: the page backs off.
CommitLocked ==
    /\ pc = "apply" /\ faults < MaxFaults
    /\ faults' = faults + 1
    /\ Put(cur, "lock_backoff", start)
    /\ pc' = "checkpoint"
    /\ UNCHANGED <<pageVars, diskVars, loopVars, turnVars, unsaved, stop, commits, edits, touches>>

\* The text to be written has malformed block references: the quarantine of
\* the page may append its warning section.
CommitMalformed ==
    /\ pc = "apply" /\ ~file_mtime_drifted /\ text[cur] = "malformed"
    /\ \/ mtime' = [mtime EXCEPT ![cur] = @ + 1]
       \/ UNCHANGED mtime
    /\ pc' = "quarantined"
    /\ UNCHANGED <<text, sections, human, diskVars, files, loopVars, turnVars, unsaved, stop,
                   commits, counts>>

\* The model's answer has them, or a page that is to link back: this page is
\* quarantined for it.
AnswerMalformed ==
    /\ pc = "apply" \/ (pc = "record" /\ Modules)
    /\ faults < MaxFaults
    /\ faults' = faults + 1
    /\ pc' = "quarantined"
    /\ UNCHANGED <<pageVars, diskVars, files, loopVars, turnVars, unsaved, stop, commits,
                   edits, touches>>

\* run_backlink_backpropagator, after the commit: a page gets a link back.
Backpropagate ==
    /\ pc = "record" /\ Modules /\ touches < MaxTouches
    /\ touches' = touches + 1
    /\ \E p \in {q \in Pages \ {cur} : text[q] = "text"} :
         /\ mtime' = [mtime EXCEPT ![p] = @ + 1]
         /\ commits' = [commits EXCEPT ![p] = 0]
    /\ UNCHANGED <<text, sections, human, diskVars, pc, files, loopVars, turnVars, unsaved, stop, edits, faults>>

\* It finds a page locked or fails, or _sync_catalog_after_page_write cannot
\* save the row: the committed page has a record with the mtime of the start.
RecordFails ==
    /\ pc = "record" /\ faults < MaxFaults
    /\ faults' = faults + 1
    /\ \E status \in IF Modules THEN {"error", "lock_backoff"} ELSE {"error"} : Put(cur, status, start)
    /\ pc' = "checkpoint"
    /\ UNCHANGED <<pageVars, diskVars, loopVars, turnVars, unsaved, stop, commits, edits, touches>>

\* The record of a malformed result: the page is skipped as it is now.
RecordSkipped ==
    /\ pc = "quarantined"
    /\ Put(cur, "skipped", MtimeNow(cur))
    /\ pc' = "checkpoint"
    /\ UNCHANGED <<pageVars, diskVars, loopVars, turnVars, unsaved, stop, commits, counts>>

\* Mutant: the record keeps the mtime the page had before the commit.
RecordProcessedAtStart ==
    /\ pc = "record"
    /\ Put(cur, "processed", start)
    /\ pc' = "checkpoint"
    /\ UNCHANGED <<pageVars, diskVars, loopVars, turnVars, unsaved, stop, commits, counts>>

\* state.files[key] = processed at path.stat().st_mtime, which raises into
\* the handler when the page is gone.
RecordProcessed ==
    /\ pc = "record"
    /\ IF Exists(cur) THEN Put(cur, "processed", mtime[cur]) ELSE Put(cur, "error", start)
    /\ pc' = "checkpoint"
    /\ UNCHANGED <<pageVars, diskVars, loopVars, turnVars, unsaved, stop, commits, counts>>

\* Mutant: the ledger is saved at the end of the cycle only.
CheckpointLater ==
    /\ pc = "checkpoint"
    /\ cur' = None /\ start' = None /\ base' = None /\ got' = None
    /\ pc' = "turn"
    /\ UNCHANGED <<pageVars, diskVars, files, loopVars, unsaved, stop, commits, counts>>

\* The checkpoint after each file.
Checkpoint ==
    /\ pc = "checkpoint"
    /\ SaveCheckpoint(files)
    /\ cur' = None /\ start' = None /\ base' = None /\ got' = None
    /\ pc' = "turn"
    /\ UNCHANGED <<pageVars, savedBoot, catalogOk, files, loopVars, stop, commits, edits, touches>>

-----------------------------------------------------------------------------
(* The end of run_cycle and the loop of run_forever *)

EndCycle ==
    /\ pc = "turn" /\ (todo = {} \/ turns >= budget \/ stop)
    /\ SaveOrDie(files, boot, "reload")
    /\ todo' = {} /\ budget' = 0 /\ turns' = 0
    /\ UNCHANGED <<pageVars, catalogOk, files, boot, turnVars, stop, commits, edits, touches>>

\* Mutant: the loop clears the stop request before it sleeps.
ReloadRearms ==
    /\ pc = "reload"
    /\ files' = IF unsaved THEN files ELSE saved
    /\ pc' = "sleep" /\ stop' = FALSE
    /\ UNCHANGED <<pageVars, diskVars, loopVars, turnVars, unsaved, commits, counts>>

\* The ledger is loaded again unless the last checkpoint failed.
Reload ==
    /\ pc = "reload"
    /\ files' = IF unsaved THEN files ELSE saved
    /\ pc' = IF stop THEN "final" ELSE "sleep"
    /\ UNCHANGED <<pageVars, diskVars, loopVars, turnVars, unsaved, stop, commits, counts>>

\* _shutdown_event.wait(poll_seconds)
Wake ==
    /\ pc = "sleep"
    /\ pc' = IF stop THEN "final" ELSE "scan"
    /\ UNCHANGED <<pageVars, diskVars, files, loopVars, turnVars, unsaved, stop, commits, counts>>

\* lock_backoff_until passes.
BackoffExpires(p) ==
    /\ BackingOff(p) \/ (saved[p] # None /\ saved[p].wait)
    /\ files' = IF files[p] = None THEN files ELSE [files EXCEPT ![p].wait = FALSE]
    /\ saved' = IF saved[p] = None THEN saved ELSE [saved EXCEPT ![p].wait = FALSE]
    /\ UNCHANGED <<pageVars, savedBoot, catalogOk, pc, loopVars, turnVars, unsaved, stop, commits, counts>>

-----------------------------------------------------------------------------
(* The human *)

\* A save from Logseq: the text changes, the index section may be deleted, the
\* catalog row is stale (its mtime counts seconds).
HumanSave(p, kind) ==
    /\ edits < MaxEdits
    /\ edits' = edits + 1
    /\ text' = [text EXCEPT ![p] = kind]
    /\ \/ kind # "empty" /\ Exists(p) /\ UNCHANGED sections
       \/ sections' = [sections EXCEPT ![p] = 0]
    /\ mtime' = [mtime EXCEPT ![p] = @ + 1] /\ human' = [human EXCEPT ![p] = mtime[p] + 1]
    /\ commits' = [commits EXCEPT ![p] = 0]
    /\ CatalogMayBecome(FALSE)
    /\ UNCHANGED <<saved, savedBoot, pc, files, loopVars, turnVars, unsaved, stop, faults, touches>>

\* A page is deleted or renamed.
HumanDelete(p) ==
    /\ edits < MaxEdits /\ Exists(p)
    /\ edits' = edits + 1
    /\ text' = [text EXCEPT ![p] = "none"] /\ sections' = [sections EXCEPT ![p] = 0]
    /\ UNCHANGED <<mtime, human, diskVars, pc, files, loopVars, turnVars, unsaved, stop,
                   commits, faults, touches>>

-----------------------------------------------------------------------------
TurnStep ==
    \/ \E p \in Pages : BeginPage(p)
    \/ Snapshot \/ ReadContent \/ RunModules \/ Infer
    \/ Commit \/ CommitAborts \/ CommitMalformed \/ Backpropagate \/ RecordSkipped \/ RecordProcessed \/ Checkpoint

DaemonStep ==
    \/ run_bootstrap_pipeline \/ Scan \/ RefreshCatalog
    \/ \E p \in Pages : FastTrack(p) \/ FastTrackMalformed(p)
    \/ QuarantineWrites \/ QuarantineSettles \/ Relist
    \/ TurnStep \/ EndCycle \/ Reload \/ Wake \/ Finalize

Next ==
    \/ DaemonStep \/ StartDaemon \/ ScanFails \/ CommitLocked \/ AnswerMalformed \/ RecordFails
    \/ run_plumber_audit \/ StopSignal \/ Crash
    \/ \E p \in Pages : BackoffExpires(p) \/ HumanDelete(p)
    \/ \E p \in Pages, kind \in {"empty", "malformed", "text"} : HumanSave(p, kind)

Spec == Init /\ [][Next]_vars

\* The daemon's thread runs, and a model call returns or times out.
FairSpec == Spec /\ WF_vars(DaemonStep)

-----------------------------------------------------------------------------
(* Properties *)

\* Whatever is retried, restarted or interleaved with Phase 1, a page never
\* gets a second semantic index section.
AtMostOneIndex == \A p \in Pages : sections[p] <= 1

\* A crash loses the record of the page in hand and nothing else, unless a
\* checkpoint could not be saved.
CrashLosesOnePage ==
    pc \notin {"down", "final"} /\ ~unsaved => \A p \in Pages \ {cur} : saved[p] = files[p]

\* The daemon's own commit never makes the page pending again: a page that
\* nobody else changes is committed once, and once more for every fault.
NoSelfTrigger == \A p \in Pages : commits[p] <= 1 + faults

\* No commit to a page that was there when its baseline was taken promotes a
\* payload computed on obsolete bytes.
PayloadIsFresh ==
    [][\A p \in Pages : commits'[p] > commits[p] /\ base # None => got = human[p]]_vars

\* When the human leaves the pages alone, every page is settled in the end.
PagesSettle ==
    <>[](pc = "down" \/ \A p \in Pages : ~NeedsPhase2(p))

\* A stop is honoured wherever in the cycle it arrives.
StopEnds == stop ~> pc = "down"
=============================================================================
