-------------------------- MODULE BootstrapHarvest --------------------------
(***************************************************************************)
(* src/graph/bootstrap_harvest.py and the daemon's use of it: Phase 1      *)
(* reads every page, takes the summary of its semantic index or asks the   *)
(* model for one and appends it, and saves the catalog; Phase 2 indexes    *)
(* the pages again, one row at a time, and when nothing is pending it      *)
(* harvests the pages whose rows are stale and drops the rows of deleted   *)
(* ones.  An audit does the same harvest from another process.             *)
(*                                                                         *)
(* What is abstracted: a page is the number of its text and the text its   *)
(* index is about; the order of the pages is free; an append and a turn of *)
(* Phase 2 are one step each (PageWrite, DaemonCycle); the three attempts  *)
(* of Phase 1 are not counted.                                             *)
(***************************************************************************)
EXTENDS MasterCatalog

CONSTANTS
    Daemon,         \* the process of the daemon; the others run audits
    Empty,          \* pages that are empty at first
    Later,          \* pages that do not exist at first
    Headed,         \* pages that have the heading of an index and no summary at first
    Long,           \* pages longer than mapreduce_trigger_chars
    Turns,          \* the turns of the model for a long page: its chunks and the reduce
    MaxFaults,      \* bound: audits, kills, failed calls and damages of the catalog
    MaxEvents,      \* bound: edits, audits and faults together
    MaxStops        \* bound: stops

ASSUME HarvestAssumption ==
    /\ Daemon \in Procs /\ Pages # {}
    /\ Empty \subseteq Pages /\ Later \subseteq Pages
    /\ Headed \subseteq Pages \ (Empty \cup Later)
    /\ Long \subseteq Pages /\ Turns \in Nat /\ Turns >= 2
    /\ MaxFaults \in Nat /\ MaxEvents \in Nat /\ MaxStops \in Nat

VARIABLES
    text,       \* what the human has written in a page
    about,      \* the text the page's semantic index summarises
    bare,       \* pages with the heading of an index and no summary to read in it
    spoilt,     \* pages that are, or were, bare
    sec,        \* the second of its mtime
    drift,      \* processes whose page was written since they took its baseline
    live,       \* the pages that exist
    settled,    \* the ledger: pages with a record of Phase 2 at the mtime they have
    failed,     \* those whose record is an error
    clock,
    masterIndex,    \* the master index page exists
    complete,   \* bootstrap_complete, in memory and in the ledger
    before,     \* titles_before: the pages Phase 1 started from
    stopping,   \* _stop_requested
    pc,         \* where each process is
    todo,       \* pages its harvest has not visited
    job,        \* the page it visits, with what it has read of it
    full,       \* not incremental
    changed,    \* a row has changed
    calls,      \* answers of the model for a page, in harvests
    edits,      \* saves, deletions and new pages by the human
    stops, audits, faults

content == <<text, about, bare, spoilt>>
records == <<settled, failed>>
pages == <<content, sec, drift, live, records>>
harvest == <<todo, job, full, changed>>
counters == <<edits, stops, audits, faults>>
phase == <<masterIndex, complete, before>>
vars == <<catalogVars, pages, clock, phase, stopping, pc, harvest, calls, counters>>

\* chunk_outliner_content: what one summary of a page takes.
TurnsOf(p) == IF p \in Long THEN Turns ELSE 1

\* text: what the summary is about, 0 when the answer says nothing.
Job == [page : Pages, sec : Seconds, text : Texts, answers : 0..(Turns - 1)]
NoJob == [page |-> CHOOSE p \in Pages : TRUE, sec |-> 0, text |-> 0, answers |-> 0]

TypeOK ==
    /\ CatalogTypeOK
    /\ text \in [Pages -> Texts] /\ about \in [Pages -> Texts] /\ sec \in [Pages -> Seconds]
    /\ bare \subseteq spoilt /\ spoilt \subseteq Pages
    /\ drift \subseteq Procs /\ live \subseteq Pages /\ settled \subseteq Pages /\ failed \subseteq Pages
    /\ clock \in Seconds /\ masterIndex \in BOOLEAN /\ complete \in BOOLEAN /\ before \subseteq Pages
    /\ stopping \in BOOLEAN
    /\ pc \in [Procs -> {"off", "boot", "next", "read", "baseline", "infer", "append", "row",
                         "end", "harvest", "cycle", "phase2", "idle", "prune"}]
    /\ todo \in [Procs -> SUBSET Pages] /\ job \in [Procs -> Job]
    /\ full \in [Procs -> BOOLEAN] /\ changed \in [Procs -> BOOLEAN]
    /\ calls \in [Pages -> Nat]
    /\ {edits, audits, faults} \subseteq 0..MaxEvents /\ stops \in 0..MaxStops

Init ==
    /\ CatalogInit
    /\ text = [p \in Pages |-> IF p \in Empty \cup Later THEN 0 ELSE 1]
    /\ about = [p \in Pages |-> 0] /\ sec = [p \in Pages |-> 0]
    /\ bare = Headed /\ spoilt = Headed
    /\ drift = {} /\ live = Pages \ Later /\ settled = {} /\ failed = {}
    /\ clock = 0 /\ masterIndex = FALSE /\ complete = FALSE /\ before = {} /\ stopping = FALSE
    /\ pc = [x \in Procs |-> "off"] /\ todo = [x \in Procs |-> {}]
    /\ job = [x \in Procs |-> NoJob]
    /\ full = [x \in Procs |-> FALSE] /\ changed = [x \in Procs |-> FALSE]
    /\ calls = [p \in Pages |-> 0]
    /\ edits = 0 /\ stops = 0 /\ audits = 0 /\ faults = 0

Goes(x, here, there) == pc[x] = here /\ pc' = [pc EXCEPT ![x] = there]
\* Another edit, audit or fault.
More == edits + audits + faults < MaxEvents
Fault == More /\ audits + faults < MaxFaults /\ faults' = faults + 1 /\ UNCHANGED <<edits, stops, audits>>

\* A page is written: its mtime is the clock's, and baselines of it are old.
Stamped(p) ==
    /\ sec' = [sec EXCEPT ![p] = clock]
    /\ settled' = settled \ {p} /\ UNCHANGED failed
Drifted(p) == drift \cup {x \in Procs : pc[x] \in {"infer", "append"} /\ job[x].page = p}
Written(p) == Stamped(p) /\ drift' = Drifted(p)

\* The locals of a page's turn go.
Forget(x) ==
    job' = [job EXCEPT ![x] = NoJob]

-----------------------------------------------------------------------------
(* run_bootstrap_harvest *)

list_stale_page_paths(c) == {p \in live : needs_refresh(c, p, sec[p])}

\* The catalog is read again, the pages are listed and the rows of deleted
\* pages dropped.
HarvestBegins(x, here, isFull) ==
    LET loaded == load_master_catalog(x, TRUE)
        pruned == prune_missing_pages(loaded, live)
    IN /\ Goes(x, here, "next")
       /\ Keeps(x, TRUE, pruned)
       /\ todo' = [todo EXCEPT ![x] = IF isFull THEN live ELSE list_stale_page_paths(loaded)]
       /\ full' = [full EXCEPT ![x] = isFull]
       /\ changed' = [changed EXCEPT ![x] = pruned # loaded]
       /\ before' = IF isFull THEN live ELSE before
       /\ UNCHANGED <<pages, clock, masterIndex, complete, stopping, job, calls>>

\* Phase 1 looks at the stop; a refresh and an audit are given none.
Stopped(x) == x = Daemon /\ stopping /\ full[x]

\* The next page and its mtime; a page that is gone loses its row.
NextPage(x, p) ==
    /\ ~Stopped(x) /\ p \in todo[x]
    /\ pc[x] = "next"
    /\ todo' = [todo EXCEPT ![x] = @ \ {p}]
    /\ IF p \in live
       THEN /\ pc' = [pc EXCEPT ![x] = "read"]
            /\ job' = [job EXCEPT ![x] = [page |-> p, sec |-> sec[p], text |-> 0, answers |-> 0]]
            /\ UNCHANGED <<catalogVars, changed>>
       ELSE /\ cached' = [cached EXCEPT ![x] = remove(@, p)]
            /\ changed' = [changed EXCEPT ![x] = TRUE]
            /\ UNCHANGED <<disk, current, pc, job>>
    /\ UNCHANGED <<pages, clock, phase, stopping, full, calls, counters>>

\* harvest_page_into_catalog: an empty page, and one that can no longer be read.
SkipPage(x) ==
    LET p == job[x].page IN
    /\ Goes(x, "read", "next")
    /\ p \in live => text[p] = 0
    /\ Forget(x)
    /\ UNCHANGED <<catalogVars, pages, clock, phase, stopping, todo, full, changed, calls, counters>>

\* The summary is in the page: the row takes the mtime read before.
RegexHarvest(x) ==
    LET p == job[x].page IN
    /\ Goes(x, "read", "next")
    /\ p \in live /\ text[p] # 0 /\ about[p] # 0
    /\ cached' = [cached EXCEPT ![x] = upsert(@, p, [about |-> about[p], sec |-> job[x].sec])]
    /\ changed' = [changed EXCEPT ![x] = TRUE]
    /\ Forget(x)
    /\ UNCHANGED <<disk, current, pages, clock, phase, stopping, todo, full, calls, counters>>

\* It is not: the content is kept for the model, and the stop asked for.
ReadForModel(x) ==
    LET p == job[x].page IN
    /\ pc[x] = "read" /\ p \in live /\ text[p] # 0 /\ about[p] = 0
    /\ pc' = [pc EXCEPT ![x] = IF Stopped(x) THEN "next" ELSE "baseline"]
    /\ IF Stopped(x) THEN Forget(x) ELSE job' = [job EXCEPT ![x].text = text[p]]
    /\ UNCHANGED <<catalogVars, pages, clock, phase, stopping, todo, full, changed, calls, counters>>

TakeBaseline(x) ==
    /\ Goes(x, "baseline", "infer")
    /\ drift' = drift \ {x}
    /\ UNCHANGED <<catalogVars, content, sec, live, records, clock, phase, stopping, harvest, calls, counters>>

\* mapreduce_harvest_page_summary: a chunk of a long page is answered; the
\* stop is looked at before every turn.
SummariseChunk(x) ==
    LET p == job[x].page IN
    /\ pc[x] = "infer" /\ ~Stopped(x)
    /\ job[x].answers + 1 < TurnsOf(p)
    /\ job' = [job EXCEPT ![x].answers = @ + 1]
    /\ calls' = [calls EXCEPT ![p] = @ + 1]
    /\ UNCHANGED <<catalogVars, pages, clock, phase, stopping, pc, todo, full, changed, counters>>

\* The one turn of a short page, or the reduce of a long one.
LastTurn(x) ==
    /\ Goes(x, "infer", "append")
    /\ ~Stopped(x) /\ job[x].answers + 1 = TurnsOf(job[x].page)
    /\ calls' = [calls EXCEPT ![job[x].page] = @ + 1]
    /\ UNCHANGED <<catalogVars, pages, clock, phase, stopping, todo, full, changed>>

Summarise(x) == LastTurn(x) /\ UNCHANGED <<job, counters>>

\* BootstrapSummaryResult bounds neither the summary nor the tags from below.
EmptyAnswer(x) == LastTurn(x) /\ job' = [job EXCEPT ![x].text = 0] /\ Fault

\* BootstrapHarvestStopped: the answers so far are dropped.
StopSummary(x) ==
    /\ Goes(x, "infer", "next")
    /\ Stopped(x) /\ Forget(x)
    /\ UNCHANGED <<catalogVars, pages, clock, phase, stopping, todo, full, changed, calls, counters>>

\* An error of the model, or of a file, is counted and the harvest goes on.
PageFails(x) ==
    /\ pc[x] \in {"read", "infer", "append"}
    /\ pc' = [pc EXCEPT ![x] = "next"]
    /\ Fault /\ Forget(x)
    /\ UNCHANGED <<catalogVars, pages, clock, phase, stopping, todo, full, changed, calls>>

\* Mutant: the append forgets the semantic index it has just asked for.
AppendNothing(x) ==
    /\ Goes(x, "append", "row")
    /\ UNCHANGED <<catalogVars, pages, clock, phase, stopping, harvest, calls, counters>>

\* The page has the heading of a semantic index, with a summary or without.
HasHeading(p) == about[p] # 0 \/ p \in bare

\* _append_minimal_semantic_index, unless the page has drifted or has one; an
\* answer that says nothing leaves a heading without a summary.
Appends(x) ==
    LET p == job[x].page IN
    /\ about' = [about EXCEPT ![p] = job[x].text]
    /\ bare' = IF job[x].text = 0 THEN bare \cup {p} ELSE bare
    /\ spoilt' = spoilt \cup bare'
    /\ Stamped(p)
    /\ drift' = Drifted(p) \ {x}

\* After it the baseline has served.
AppendIndex(x) ==
    LET p == job[x].page IN
    /\ Goes(x, "append", "row")
    /\ IF p \in live /\ x \notin drift /\ ~HasHeading(p)
       THEN Appends(x)
       ELSE drift' = drift \ {x} /\ UNCHANGED <<about, bare, spoilt, sec, records>>
    /\ UNCHANGED <<text, live, catalogVars, clock, phase, stopping, harvest, calls, counters>>

\* The row takes the mtime the page has by then, whether or not the index
\* was appended; a page that is gone raises.
UpsertRow(x) ==
    LET p == job[x].page IN
    /\ Goes(x, "row", "next")
    /\ IF p \in live
       THEN /\ cached' = [cached EXCEPT
                   ![x] = upsert(@, p, [about |-> job[x].text, sec |-> sec[p]])]
            /\ changed' = [changed EXCEPT ![x] = TRUE]
       ELSE UNCHANGED <<cached, changed>>
    /\ Forget(x)
    /\ UNCHANGED <<disk, current, pages, clock, phase, stopping, todo, full, calls, counters>>

\* After the last page, or at a stop.
HarvestEnds(x) ==
    /\ Goes(x, "next", "end")
    /\ todo[x] = {} \/ Stopped(x)
    /\ IF ~Stopped(x) /\ (changed[x] \/ full[x])
       THEN SavesLoaded(x) /\ masterIndex' = TRUE
       ELSE UNCHANGED <<catalogVars, masterIndex>>
    /\ todo' = [todo EXCEPT ![x] = {}] /\ changed' = [changed EXCEPT ![x] = FALSE]
    /\ UNCHANGED <<pages, clock, complete, before, stopping, job, full, calls, counters>>

\* catalog.save or write_master_index_page raises: Phase 1 is tried again, or
\* has failed after its last attempt; a refresh and an audit swallow it.
HarvestFails(x) ==
    /\ \E there \in IF x = Daemon /\ full[x] THEN {"harvest", "cycle"} ELSE {"end"} : Goes(x, "next", there)
    /\ todo[x] = {} /\ ~Stopped(x) /\ (changed[x] \/ full[x])
    /\ SavesLoaded(x) \/ UNCHANGED catalogVars
    /\ changed' = [changed EXCEPT ![x] = FALSE] /\ full' = [full EXCEPT ![x] = FALSE]
    /\ Fault
    /\ UNCHANGED <<pages, clock, phase, stopping, todo, job, calls>>

-----------------------------------------------------------------------------
(* The daemon: run_forever, run_bootstrap_pipeline, run_cycle *)

Fresh(c, p) == c.rows[p] # NoRow /\ ~needs_refresh(c, p, sec[p])

\* every page with a text has a row that looks fresh and says something
is_bootstrap_catalog_complete(c) ==
    (\E p \in Pages : c.rows[p] # NoRow)
    /\ \A p \in live : text[p] # 0 => Fresh(c, p) /\ c.rows[p].about # 0

\* clear_phase1_error_backoff: the records of errors go.
Start ==
    /\ Goes(Daemon, "off", "boot")
    /\ stopping' = FALSE
    /\ settled' = settled \ failed /\ failed' = {}
    /\ UNCHANGED <<catalogVars, content, sec, drift, live, clock, phase, harvest, calls, counters>>

\* _hydrate_bootstrap_phase: Phase 1 is over, or the catalog says so.
Hydrates(there) ==
    LET c == load_master_catalog(Daemon, FALSE)
    IN /\ complete' = (complete \/ (masterIndex /\ is_bootstrap_catalog_complete(c)))
       /\ pc' = [pc EXCEPT ![Daemon] = IF complete' THEN "phase2" ELSE there]
       /\ IF ~complete /\ masterIndex THEN Keeps(Daemon, FALSE, c) ELSE UNCHANGED catalogVars
       /\ UNCHANGED <<pages, clock, masterIndex, before, stopping, harvest, calls, counters>>

Hydrate == pc[Daemon] = "boot" /\ Hydrates("harvest")

RunBootstrap == HarvestBegins(Daemon, "harvest", TRUE) /\ UNCHANGED counters

\* Mutant: Phase 1 is over after a stop, too.
PipelineAlwaysEnds ==
    /\ full[Daemon] /\ Goes(Daemon, "end", IF stopping THEN "idle" ELSE "cycle")
    /\ complete' = (live \subseteq before)
    /\ full' = [full EXCEPT ![Daemon] = FALSE]
    /\ UNCHANGED <<catalogVars, pages, clock, masterIndex, before, stopping, todo, job, changed,
                   calls, counters>>

\* After Phase 1: a stop leaves the phase as it was, and so does a page that
\* appeared (files_created), for which Phase 1 has failed.
PipelineEnds ==
    /\ full[Daemon] /\ Goes(Daemon, "end", IF stopping THEN "idle" ELSE "cycle")
    /\ complete' = (~stopping /\ live \subseteq before)
    /\ full' = [full EXCEPT ![Daemon] = FALSE]
    /\ UNCHANGED <<catalogVars, pages, clock, masterIndex, before, stopping, todo, job, changed,
                   calls, counters>>

RefreshEnds ==
    /\ ~full[Daemon] /\ Goes(Daemon, "end", "prune")
    /\ UNCHANGED <<catalogVars, pages, clock, phase, stopping, harvest, calls, counters>>

\* A cycle begins: when Phase 1 has failed it looks at the catalog again.
Rehydrate == pc[Daemon] = "cycle" /\ ~stopping /\ Hydrates("phase2")

\* list_pending_files.  After Phase 1 a text that is not processed at its
\* mtime; before, one without the heading (the others are only recorded).
Pending ==
    {p \in live : text[p] # 0 /\ IF complete THEN p \notin settled ELSE ~HasHeading(p)}

\* A page is written again, with an index when it has no heading of one, and
\* its row saved: _sync_catalog_after_page_write, unless there is no summary.
IndexPage(p) ==
    /\ pc[Daemon] = "phase2" /\ complete /\ ~stopping /\ p \in Pending
    /\ about' = IF HasHeading(p) THEN about ELSE [about EXCEPT ![p] = text[p]]
    /\ sec' = [sec EXCEPT ![p] = clock]
    /\ settled' = settled \cup {p} /\ failed' = failed \ {p}
    /\ drift' = drift \cup {x \in Procs : pc[x] \in {"infer", "append"} /\ job[x].page = p}
    /\ IF p \in bare
       THEN UNCHANGED catalogVars
       ELSE Saves(Daemon, FALSE, upsert(load_master_catalog(Daemon, FALSE), p,
                                        [about |-> about'[p], sec |-> clock]))
    /\ UNCHANGED <<text, bare, spoilt, live, clock, phase, stopping, pc, harvest, calls, counters>>

\* An error is recorded with the page's mtime.
IndexFails(p) ==
    /\ pc[Daemon] = "phase2" /\ complete /\ ~stopping /\ p \in Pending
    /\ settled' = settled \cup {p} /\ failed' = failed \cup {p}
    /\ Fault
    /\ UNCHANGED <<content, sec, drift, live, catalogVars, clock, phase, stopping, pc, harvest, calls>>

\* bootstrap_failed: no page is indexed.
SkipPhase2 ==
    /\ Goes(Daemon, "phase2", "prune")
    /\ ~complete /\ ~stopping /\ Pending # {}
    /\ UNCHANGED <<catalogVars, pages, clock, phase, stopping, harvest, calls, counters>>

\* Nothing is pending: refresh_catalog_if_stale.
Refresh ==
    Pending = {} /\ HarvestBegins(Daemon, "phase2", FALSE) /\ UNCHANGED counters

\* _prune_stale_catalog_entries
Prune ==
    LET c == load_master_catalog(Daemon, FALSE)
        pruned == prune_missing_pages(c, live)
    IN /\ Goes(Daemon, "prune", IF stopping THEN "idle" ELSE "cycle")
       /\ IF pruned # c THEN Saves(Daemon, FALSE, pruned) ELSE Keeps(Daemon, FALSE, c)
       /\ UNCHANGED <<pages, clock, phase, stopping, harvest, calls, counters>>

\* release_phase1_memory, maybe_release_after_cycle
ReleaseMemory ==
    /\ pc[Daemon] = "phase2" /\ cached[Daemon].loaded
    /\ Unloads(Daemon)
    /\ UNCHANGED <<pages, clock, phase, stopping, pc, harvest, calls, counters>>

\* A stop within a cycle still prunes, one between two cycles does not.
StopPhase2 ==
    /\ Goes(Daemon, "phase2", "prune") \/ Goes(Daemon, "cycle", "idle")
    /\ stopping
    /\ UNCHANGED <<catalogVars, pages, clock, phase, stopping, harvest, calls, counters>>

\* _finalize_graceful_shutdown saves what the cache holds; then the process ends.
Finalize ==
    LET c == load_master_catalog(Daemon, FALSE)
    IN /\ Goes(Daemon, "idle", "off")
       /\ IF c.persist
          THEN file' = "good" /\ rows' = c.rows /\ current' = {}
          ELSE file' = FileAfterLoad(Daemon, FALSE) /\ UNCHANGED rows /\ current' = current \ {Daemon}
       /\ BackupAfterLoad(Daemon, FALSE)
       /\ cached' = [cached EXCEPT ![Daemon] = Unloaded]
       /\ UNCHANGED <<pages, clock, phase, stopping, harvest, calls, counters>>

-----------------------------------------------------------------------------
(* Another process: run_plumber_audit *)

AuditBegins(x) ==
    /\ x # Daemon /\ More /\ audits + faults < MaxFaults /\ audits' = audits + 1
    /\ HarvestBegins(x, "off", FALSE)
    /\ UNCHANGED <<edits, stops, faults>>

AuditEnds(x) ==
    /\ x # Daemon /\ Goes(x, "end", "off")
    /\ Unloads(x)
    /\ UNCHANGED <<pages, clock, phase, stopping, harvest, calls, counters>>

-----------------------------------------------------------------------------
(* The human, the clock, faults *)

\* A save keeps the page's index, leaves it out, or leaves its summary out.
Edit(p) ==
    /\ p \in live /\ text[p] < MaxText /\ More
    /\ text' = [text EXCEPT ![p] = @ + 1]
    /\ \/ UNCHANGED <<about, bare>>
       \/ HasHeading(p) /\ about' = [about EXCEPT ![p] = 0] /\ bare' \in {bare \ {p}, bare \cup {p}}
    /\ spoilt' = spoilt \cup bare'
    /\ Written(p)
    /\ edits' = edits + 1
    /\ UNCHANGED <<live, catalogVars, clock, phase, stopping, pc, harvest, calls, stops, audits, faults>>

Delete(p) ==
    /\ p \in live /\ More
    /\ live' = live \ {p}
    /\ edits' = edits + 1
    /\ UNCHANGED <<content, sec, drift, records, catalogVars, clock, phase, stopping, pc, harvest, calls,
                   stops, audits, faults>>

\* A new page (a deleted one does not come back).
Create(p) ==
    /\ p \in Later \ live /\ text[p] = 0 /\ More
    /\ live' = live \cup {p}
    /\ text' = [text EXCEPT ![p] = @ + 1] /\ about' = [about EXCEPT ![p] = 0]
    /\ Written(p)
    /\ edits' = edits + 1
    /\ UNCHANGED <<bare, spoilt, catalogVars, clock, phase, stopping, pc, harvest, calls, stops, audits, faults>>

Tick ==
    /\ clock < MaxSec /\ clock' = clock + 1
    /\ UNCHANGED <<catalogVars, pages, phase, stopping, pc, harvest, calls, counters>>

RequestStop ==
    /\ pc[Daemon] # "off" /\ ~stopping /\ stops < MaxStops
    /\ stopping' = TRUE /\ stops' = stops + 1
    /\ UNCHANGED <<catalogVars, pages, clock, phase, pc, harvest, calls, edits, audits, faults>>

Kill(x) ==
    /\ pc[x] # "off" /\ Fault
    /\ pc' = [pc EXCEPT ![x] = "off"]
    /\ Unloads(x) /\ Forget(x)
    /\ todo' = [todo EXCEPT ![x] = {}] /\ changed' = [changed EXCEPT ![x] = FALSE]
    /\ full' = [full EXCEPT ![x] = FALSE]
    /\ UNCHANGED <<pages, clock, phase, stopping, calls>>

Damage ==
    /\ DamageCatalog /\ Fault
    /\ UNCHANGED <<pages, clock, phase, stopping, pc, harvest, calls>>

HarvestStep(x) ==
    \/ \E p \in Pages : NextPage(x, p)
    \/ SkipPage(x) \/ RegexHarvest(x) \/ ReadForModel(x) \/ TakeBaseline(x)
    \/ SummariseChunk(x) \/ Summarise(x) \/ StopSummary(x) \/ AppendIndex(x) \/ UpsertRow(x) \/ HarvestEnds(x)

DaemonStep ==
    \/ HarvestStep(Daemon)
    \/ Start \/ Hydrate \/ RunBootstrap \/ PipelineEnds \/ RefreshEnds \/ Rehydrate
    \/ \E p \in Pages : IndexPage(p)
    \/ SkipPhase2 \/ Refresh \/ Prune \/ StopPhase2 \/ Finalize

AuditStep(x) == HarvestStep(x) \/ AuditEnds(x)

Next ==
    \/ DaemonStep \/ ReleaseMemory
    \/ \E x \in Procs \ {Daemon} : AuditBegins(x) \/ AuditStep(x)
    \/ \E x \in Procs : PageFails(x) \/ EmptyAnswer(x) \/ HarvestFails(x) \/ Kill(x)
    \/ \E p \in Pages : IndexFails(p) \/ Edit(p) \/ Delete(p) \/ Create(p)
    \/ Tick \/ RequestStop \/ Damage

Spec == Init /\ [][Next]_vars

\* A daemon that was stopped or killed is started again; no process stands still.
FairSpec ==
    /\ Spec
    /\ WF_vars(DaemonStep)
    /\ \A x \in Procs \ {Daemon} : WF_vars(AuditStep(x))

-----------------------------------------------------------------------------
(* Properties *)

\* harvest_page_into_catalog, mapreduce_harvest_page_summary: the answers for
\* one summary of a page are paid for once, and again only after a save, after
\* a fault or beside an audit; a stop costs at most the chunks of a long page
\* that were answered before it.  (A page with the heading of an index and no
\* summary to read is asked about by every harvest that comes by.)
SummaryIsPaidOnce ==
    \A p \in Pages \ spoilt :
        calls[p] <= TurnsOf(p) * (1 + edits + audits + faults) + (TurnsOf(p) - 1) * stops

\* run_bootstrap_pipeline, load_master_catalog, MasterCatalog.save: while no
\* call fails, no file is damaged and no audit saves over the daemon's rows,
\* Phase 2 finds a row for every page Phase 1 began with, whatever stops,
\* restarts, edits and released memory do.  (A page that was empty has none
\* when it is first written after Phase 1 has passed it.)
Phase2HasItsRows ==
    complete /\ faults = 0 /\ audits = 0 =>
        \A p \in (live \cap before) \ Empty : rows[p] # NoRow

CatalogMatchesPages ==
    /\ \A p \in live : text[p] # 0 =>
        /\ rows[p] # NoRow /\ rows[p].sec = sec[p]
        /\ faults = 0 => HasHeading(p)
        /\ audits = 0 /\ faults = 0 /\ p \notin bare => rows[p].about = about[p]
    /\ \A p \in Pages \ live : rows[p] = NoRow

\* bootstrap_failed: a page appeared in Phase 1, and a page has no index.
PhaseTwoBlocked == pc[Daemon] \in {"cycle", "phase2", "prune"} /\ ~complete /\ Pending # {}

\* refresh_catalog_if_stale, _prune_stale_catalog_entries: once the human
\* and the faults leave it alone, the daemon makes the catalog on disk say
\* what the pages say, also when file and backup were lost, unless Phase 1
\* has failed.  (After a fault or beside an audit a row may keep a summary of
\* a text its page no longer has, and after an error of Phase 2 a page has no
\* index until it is saved again or the daemon restarts; the row of a page
\* that has a heading and no summary says what the model was last asked.)
CatalogCatchesUp == <>[](CatalogMatchesPages \/ PhaseTwoBlocked)
=============================================================================
