----------------------- MODULE BootstrapHarvestProofs -----------------------
(***************************************************************************)
(* Theorems on BootstrapHarvest, for every set of pages and processes and  *)
(* every bound: types, that Phase 2 finds the rows of Phase 1, and what    *)
(* stops, saves, faults and audits make the summary of a page cost.        *)
(***************************************************************************)
EXTENDS BootstrapHarvest, FiniteSetTheorems, TLAPS

-----------------------------------------------------------------------------
(* Types *)

\* A load gives a catalog, and leaves a file and a backup.
LEMMA LoadTypes ==
    ASSUME TypeOK, NEW x \in Procs, NEW force \in BOOLEAN
    PROVE  /\ load_master_catalog(x, force) \in MasterCatalogs
           /\ FileAfterLoad(x, force) \in FileKinds
           /\ Knows(x, force) \subseteq Procs
           /\ BackupAfterLoad(x, force) => bak' \in FileKinds /\ bakRows' \in AllRows
<1> USE CatalogAssumption DEF TypeOK, CatalogTypeOK, FileKinds, MasterCatalogs
<1>1. FromDisk \in MasterCatalogs
  BY DEF FromDisk, Catalog, NoRows, AllRows
<1>2. load_master_catalog(x, force) \in MasterCatalogs
  BY <1>1 DEF load_master_catalog
<1>3. FileAfterLoad(x, force) \in FileKinds /\ Knows(x, force) \subseteq Procs
  BY DEF FileAfterLoad, Knows
<1>4. BackupAfterLoad(x, force) => bak' \in FileKinds /\ bakRows' \in AllRows
  BY DEF BackupAfterLoad
<1> QED  BY <1>2, <1>3, <1>4

\* Keeping, saving and unloading a catalog.
LEMMA KeepTypes ==
    ASSUME TypeOK, NEW x \in Procs, NEW force \in BOOLEAN, NEW c \in MasterCatalogs,
           Keeps(x, force, c) \/ Saves(x, force, c)
    PROVE  CatalogTypeOK'
<1>1. CASE Keeps(x, force, c)
  BY <1>1, LoadTypes DEF Keeps, TypeOK, CatalogTypeOK
<1>2. CASE c.persist /\ Saves(x, force, c)
  BY <1>2, LoadTypes DEF Saves, TypeOK, CatalogTypeOK, FileKinds, MasterCatalogs
<1> QED  BY <1>1, <1>2 DEF Saves

LEMMA SaveTypes == TypeOK /\ (\E x \in Procs : SavesLoaded(x)) => CatalogTypeOK'
<1> SUFFICES ASSUME TypeOK, NEW x \in Procs, SavesLoaded(x)  PROVE CatalogTypeOK'
  OBVIOUS
<1>1. cached[x].rows \in AllRows
  BY DEF TypeOK, CatalogTypeOK, MasterCatalogs
<1> QED  BY <1>1 DEF SavesLoaded, TypeOK, CatalogTypeOK, FileKinds, catalogVars, disk

LEMMA EditTypes ==
    ASSUME NEW c \in MasterCatalogs, NEW p \in Pages, NEW e \in CatalogEntry, NEW S \in SUBSET Pages
    PROVE  /\ upsert(c, p, e) \in MasterCatalogs /\ remove(c, p) \in MasterCatalogs
           /\ prune_missing_pages(c, S) \in MasterCatalogs
  BY DEF upsert, remove, prune_missing_pages, MasterCatalogs, AllRows

\* The catalog's part of a state it leaves alone.
LEMMA CatalogUnchanged == CatalogTypeOK /\ UNCHANGED catalogVars => CatalogTypeOK'
  BY DEF CatalogTypeOK, catalogVars, disk

\* A row or an unload in one process' memory.
LEMMA MemoryTypes ==
    ASSUME TypeOK, NEW x \in Procs, UNCHANGED <<disk, current>>,
           \/ Unloads(x)
           \/ \E c \in MasterCatalogs : cached' = [cached EXCEPT ![x] = c]
    PROVE  CatalogTypeOK'
<1>1. Unloaded \in MasterCatalogs
  BY DEF Unloaded, MasterCatalogs, NoRows, AllRows
<1>2. PICK c \in MasterCatalogs : cached' = [cached EXCEPT ![x] = c]
  BY <1>1 DEF Unloads
<1> QED  BY <1>2 DEF TypeOK, CatalogTypeOK, disk

\* A turn of the harvest begins with a load.
LEMMA BeginTypes ==
    ASSUME TypeOK, NEW x \in Procs, NEW here, NEW isFull \in BOOLEAN, HarvestBegins(x, here, isFull),
           UNCHANGED <<edits, stops, faults>>, audits' \in 0..MaxEvents
    PROVE  TypeOK'
<1> USE DEF content
<1> DEFINE c == load_master_catalog(x, TRUE)
<1>1. c \in MasterCatalogs /\ prune_missing_pages(c, live) \in MasterCatalogs
  <2>1. c \in MasterCatalogs
    BY LoadTypes
  <2> QED  BY <2>1 DEF prune_missing_pages, MasterCatalogs, AllRows
<1>2. CatalogTypeOK'
  BY <1>1, KeepTypes DEF HarvestBegins
<1>3. list_stale_page_paths(c) \subseteq Pages
  BY DEF list_stale_page_paths, TypeOK
<1> QED  BY <1>2, <1>3 DEF HarvestBegins, TypeOK, Goes, pages, records

LEMMA TypeStep == TypeOK /\ [Next]_vars => TypeOK'
<1> SUFFICES ASSUME TypeOK, [Next]_vars  PROVE TypeOK'
  OBVIOUS
<1> USE CatalogAssumption, HarvestAssumption DEF TypeOK, Goes, More, Fault, Stamped, Drifted, Written, Forget,
        pages, records, content, harvest, counters, phase, Job, Texts, Seconds
<1>0. NoJob \in Job
  BY DEF NoJob
<1>1. ASSUME NEW x \in Procs, HarvestStep(x)  PROVE TypeOK'
  <2> USE <1>1, <1>0
  <2>0. /\ job[x].page \in Pages /\ job[x].text \in Texts /\ job[x].sec \in Seconds
        /\ job[x].answers \in 0..(Turns - 1) /\ cached[x] \in MasterCatalogs
    BY DEF CatalogTypeOK
  <2>1. ASSUME NEW p \in Pages, NextPage(x, p)  PROVE TypeOK'
    <3>1. CASE p \notin live
      <4>1. remove(cached[x], p) \in MasterCatalogs
        BY <2>0 DEF remove, MasterCatalogs, AllRows
      <4>2. CatalogTypeOK'
        BY <2>1, <3>1, <4>1, MemoryTypes DEF NextPage
      <4> QED  BY <2>1, <3>1, <4>2 DEF NextPage
    <3>2. CASE p \in live
      <4>1. [page |-> p, sec |-> sec[p], text |-> 0, answers |-> 0] \in Job
        OBVIOUS
      <4>2. job' \in [Procs -> Job] /\ UNCHANGED catalogVars
        BY <2>1, <3>2, <4>1 DEF NextPage
      <4> QED  BY <2>1, <3>2, <4>2, CatalogUnchanged DEF NextPage
    <3> QED  BY <3>1, <3>2
  <2>2. CASE SkipPage(x)       BY <2>2, CatalogUnchanged DEF SkipPage
  <2>3. CASE RegexHarvest(x)
    <3>1. [about |-> about[job[x].page], sec |-> job[x].sec] \in CatalogEntry
      BY <2>0 DEF CatalogEntry
    <3>2. CatalogTypeOK'
      BY <2>0, <2>3, <3>1, EditTypes, MemoryTypes DEF RegexHarvest
    <3> QED  BY <2>3, <3>2 DEF RegexHarvest
  <2>4. CASE ReadForModel(x)
    <3>1. [job[x] EXCEPT !.text = text[job[x].page]] \in Job
      BY <2>0
    <3>2. job' \in [Procs -> Job]
      BY <2>4, <3>1 DEF ReadForModel
    <3> QED  BY <2>4, <3>2, CatalogUnchanged DEF ReadForModel
  <2>5. CASE TakeBaseline(x)   BY <2>5, CatalogUnchanged DEF TakeBaseline
  <2>6. CASE Summarise(x)      BY <2>0, <2>6, CatalogUnchanged DEF Summarise, LastTurn
  <2>7. CASE AppendIndex(x)
    <3>1. CASE Appends(x)
      <4>1. about' \in [Pages -> Texts] /\ sec' \in [Pages -> Seconds]
        <5>1. about' = [about EXCEPT ![job[x].page] = job[x].text] /\ sec' = [sec EXCEPT ![job[x].page] = clock]
          BY <3>1 DEF Appends
        <5>2. [about EXCEPT ![job[x].page] = job[x].text] \in [Pages -> Texts]
          BY <2>0
        <5> QED  BY <5>1, <5>2
      <4>2. drift' \subseteq Procs /\ bare' \subseteq spoilt' /\ spoilt' \subseteq Pages /\ settled' \subseteq Pages /\ failed' \subseteq Pages
        BY <2>0, <3>1 DEF Appends
      <4> QED  BY <2>7, <4>1, <4>2, CatalogUnchanged DEF AppendIndex
    <3>2. CASE drift' = drift \ {x} /\ UNCHANGED <<about, bare, spoilt, sec, records>>
      BY <2>7, <3>2, CatalogUnchanged DEF AppendIndex
    <3> QED  BY <2>7, <3>1, <3>2 DEF AppendIndex
  <2>8. CASE UpsertRow(x)
    <3>1. [about |-> job[x].text, sec |-> sec[job[x].page]] \in CatalogEntry
      BY <2>0 DEF CatalogEntry
    <3>2. upsert(cached[x], job[x].page, [about |-> job[x].text, sec |-> sec[job[x].page]]) \in MasterCatalogs
      BY <2>0, <3>1 DEF upsert, MasterCatalogs, AllRows
    <3>3. CASE job[x].page \in live
      BY <2>8, <3>2, <3>3, MemoryTypes DEF UpsertRow
    <3>4. CASE job[x].page \notin live
      <4>1. UNCHANGED catalogVars
        BY <2>8, <3>4 DEF UpsertRow, catalogVars, disk
      <4> QED  BY <2>8, <4>1, CatalogUnchanged DEF UpsertRow
    <3> QED  BY <2>8, <3>3, <3>4 DEF UpsertRow
  <2>9. CASE HarvestEnds(x)
    <3>1. CatalogTypeOK'
      BY <2>9, SaveTypes, CatalogUnchanged DEF HarvestEnds
    <3> QED  BY <2>9, <3>1 DEF HarvestEnds
  <2>10. CASE SummariseChunk(x)
    <3>1. job[x].answers + 1 \in 0..(Turns - 1)
      BY <2>0, <2>10 DEF SummariseChunk, TurnsOf
    <3>2. [job[x] EXCEPT !.answers = @ + 1] \in Job
      BY <2>0, <3>1
    <3>3. job' \in [Procs -> Job] /\ calls' \in [Pages -> Nat]
      BY <2>0, <2>10, <3>2 DEF SummariseChunk
    <3> QED  BY <2>10, <3>3, CatalogUnchanged DEF SummariseChunk
  <2>11. CASE StopSummary(x)   BY <2>11, CatalogUnchanged DEF StopSummary
  <2> QED  BY <2>1, <2>2, <2>3, <2>4, <2>5, <2>6, <2>7, <2>8, <2>9, <2>10, <2>11 DEF HarvestStep
<1>2. CASE Start               BY <1>2, CatalogUnchanged DEF Start
<1>3. ASSUME NEW there \in {"harvest", "phase2"}, Hydrates(there)  PROVE TypeOK'
  <2>1. CatalogTypeOK'
    BY <1>3, LoadTypes, KeepTypes, CatalogUnchanged DEF Hydrates
  <2> QED  BY <1>3, <2>1 DEF Hydrates
<1>4. CASE RunBootstrap        BY <1>4, BeginTypes DEF RunBootstrap
<1>5. CASE PipelineEnds        BY <1>5, CatalogUnchanged DEF PipelineEnds
<1>6. CASE RefreshEnds         BY <1>6, CatalogUnchanged DEF RefreshEnds
<1>7. ASSUME NEW p \in Pages, IndexPage(p)  PROVE TypeOK'
  <2>0. about' \in [Pages -> Texts]
    BY <1>7 DEF IndexPage
  <2>1. [about |-> about'[p], sec |-> clock] \in CatalogEntry
    BY <2>0 DEF CatalogEntry
  <2>2. CASE p \notin bare
    <3>1. CatalogTypeOK'
      BY <1>7, <2>1, <2>2, LoadTypes, EditTypes, KeepTypes DEF IndexPage
    <3> QED  BY <1>7, <2>0, <3>1 DEF IndexPage
  <2>3. CASE p \in bare
    BY <1>7, <2>0, <2>3, CatalogUnchanged DEF IndexPage
  <2> QED  BY <2>2, <2>3
<1>8. CASE Refresh             BY <1>8, BeginTypes DEF Refresh
<1>9. CASE Prune
  <2>1. CatalogTypeOK'
    <3> DEFINE c == load_master_catalog(Daemon, FALSE)
    <3>1. c \in MasterCatalogs /\ prune_missing_pages(c, live) \in MasterCatalogs
      <4>1. c \in MasterCatalogs
        BY LoadTypes
      <4> QED  BY <4>1 DEF prune_missing_pages, MasterCatalogs, AllRows
    <3> QED  BY <1>9, <3>1, KeepTypes DEF Prune
  <2> QED  BY <1>9, <2>1 DEF Prune
<1>10. CASE ReleaseMemory
  <2>1. CatalogTypeOK'
    BY <1>10, MemoryTypes DEF ReleaseMemory, Unloads, disk
  <2> QED  BY <1>10, <2>1 DEF ReleaseMemory
<1>11. CASE StopPhase2 \/ SkipPhase2
  BY <1>11, CatalogUnchanged DEF StopPhase2, SkipPhase2
<1>12. CASE Finalize
  <2>1. Unloaded \in MasterCatalogs
    BY DEF Unloaded, MasterCatalogs, NoRows, AllRows
  <2>2. /\ load_master_catalog(Daemon, FALSE) \in MasterCatalogs
        /\ FileAfterLoad(Daemon, FALSE) \in FileKinds
        /\ BackupAfterLoad(Daemon, FALSE) => bak' \in FileKinds /\ bakRows' \in AllRows
    BY LoadTypes
  <2>3. file' \in FileKinds /\ rows' \in AllRows /\ bak' \in FileKinds /\ bakRows' \in AllRows
    BY <1>12, <2>2 DEF Finalize, CatalogTypeOK, FileKinds, MasterCatalogs
  <2>4. CatalogTypeOK'
    BY <1>12, <2>1, <2>3 DEF Finalize, CatalogTypeOK
  <2> QED  BY <1>12, <2>4 DEF Finalize
<1>13. ASSUME NEW x \in Procs, AuditBegins(x)  PROVE TypeOK'
  <2>1. audits' \in 0..MaxEvents /\ UNCHANGED <<edits, stops, faults>>
    BY <1>13 DEF AuditBegins
  <2>2. HarvestBegins(x, "off", FALSE)
    BY <1>13 DEF AuditBegins
  <2> QED  BY <2>1, <2>2, BeginTypes
<1>14. ASSUME NEW x \in Procs, AuditEnds(x)  PROVE TypeOK'
  <2>1. CatalogTypeOK'
    BY <1>14, MemoryTypes DEF AuditEnds, Unloads, disk
  <2> QED  BY <1>14, <2>1 DEF AuditEnds
<1>15. ASSUME NEW x \in Procs, PageFails(x)  PROVE TypeOK'
  BY <1>15, <1>0, CatalogUnchanged DEF PageFails
<1>16. ASSUME NEW x \in Procs, Kill(x)  PROVE TypeOK'
  <2>1. CatalogTypeOK'
    BY <1>16, MemoryTypes DEF Kill, Unloads, disk
  <2> QED  BY <1>16, <1>0, <2>1 DEF Kill
<1>17. ASSUME NEW p \in Pages, Edit(p) \/ Delete(p) \/ Create(p)  PROVE TypeOK'
  <2>1. CASE Edit(p)           BY <2>1, CatalogUnchanged DEF Edit
  <2>2. CASE Delete(p)         BY <2>2, CatalogUnchanged DEF Delete
  <2>3. CASE Create(p)         BY <2>3, CatalogUnchanged DEF Create
  <2> QED  BY <1>17, <2>1, <2>2, <2>3
<1>18. CASE Tick               BY <1>18, CatalogUnchanged DEF Tick
<1>19. CASE RequestStop        BY <1>19, CatalogUnchanged DEF RequestStop
<1>20. CASE Damage
  <2>1. CatalogTypeOK'
    BY <1>20 DEF Damage, DamageCatalog, CatalogTypeOK, FileKinds, NoRows, AllRows
  <2> QED  BY <1>20, <2>1 DEF Damage
<1>21. CASE UNCHANGED vars     BY <1>21, CatalogUnchanged DEF vars
<1>22. ASSUME NEW x \in Procs, EmptyAnswer(x)  PROVE TypeOK'
  <2>1. job[x] \in Job
    OBVIOUS
  <2>2. [job[x] EXCEPT !.text = 0] \in Job
    BY <2>1
  <2>3. job' \in [Procs -> Job] /\ calls' \in [Pages -> Nat]
    BY <1>22, <2>1, <2>2 DEF EmptyAnswer, LastTurn
  <2> QED  BY <1>22, <2>3, CatalogUnchanged DEF EmptyAnswer, LastTurn
<1>23. ASSUME NEW x \in Procs, HarvestFails(x)  PROVE TypeOK'
  <2>1. CatalogTypeOK'
    BY <1>23, SaveTypes, CatalogUnchanged DEF HarvestFails
  <2> QED  BY <1>23, <2>1 DEF HarvestFails
<1>24. ASSUME NEW p \in Pages, IndexFails(p)  PROVE TypeOK'
  BY <1>24, CatalogUnchanged DEF IndexFails
<1> QED
  BY <1>1, <1>2, <1>3, <1>4, <1>5, <1>6, <1>7, <1>8, <1>9, <1>10, <1>11, <1>12, <1>13, <1>14, <1>15,
     <1>16, <1>17, <1>18, <1>19, <1>20, <1>21, <1>22, <1>23, <1>24
     DEF Next, DaemonStep, AuditStep, Hydrate, Rehydrate

LEMMA TypeInit == Init => TypeOK
<1>1. NoJob \in Job
  BY CatalogAssumption, HarvestAssumption DEF NoJob, Job, Texts, Seconds
<1>2. Init => CatalogTypeOK
  BY DEF Init, CatalogInit, CatalogTypeOK, FileKinds, MasterCatalogs, Unloaded, NoRows, AllRows
<1> SUFFICES ASSUME Init  PROVE TypeOK
  OBVIOUS
<1>3. job \in [Procs -> Job]
  BY <1>1 DEF Init
<1>4. text \in [Pages -> Texts] /\ about \in [Pages -> Texts] /\ sec \in [Pages -> Seconds] /\ clock \in Seconds
  BY CatalogAssumption DEF Init, Texts, Seconds
<1>5. {edits, audits, faults} \subseteq 0..MaxEvents /\ stops \in 0..MaxStops /\ calls \in [Pages -> Nat]
  BY HarvestAssumption DEF Init
<1>6. bare \subseteq spoilt /\ spoilt \subseteq Pages /\ settled \subseteq Pages /\ failed \subseteq Pages
  BY HarvestAssumption DEF Init
<1> QED  BY <1>2, <1>3, <1>4, <1>5, <1>6 DEF Init, TypeOK

\* The catalog, its backup and every copy in memory are well typed, also
\* after a damage, and every counter stays within its bound.
THEOREM HarvestTypeCorrect == Spec => []TypeOK
  BY TypeInit, TypeStep, PTL DEF Spec

-----------------------------------------------------------------------------
(* The inductive invariant of Phase2HasItsRows.  What Phase 1 has gathered  *)
(* lives in the daemon's memory until its end, and may be unloaded, stopped *)
(* or reloaded at many places: the parts say where a row must be by then.   *)

Mine == cached[Daemon]

\* No fault and no audit so far.
Quiet == faults = 0 /\ audits = 0

\* The pages that had a text when Phase 1 began, and are still there.
Due == (live \cap before) \ Empty
InHand == {"next", "read", "baseline", "infer", "append", "row"}

Alone == \A x \in Procs \ {Daemon} : pc[x] = "off"

\* A file that exists is good, and so is what was loaded from it.
Sound ==
    /\ file \in {"missing", "good"}
    /\ Mine.loaded => Mine.persist
    /\ masterIndex \/ complete => file = "good"

\* A page that is not Empty has a text as long as it exists.
Texted == \A p \in (live \cup before) \ Empty : text[p] # 0

\* Where the cache is known to be loaded, and not to be.
Memory ==
    /\ pc[Daemon] \in {"off", "boot"} => ~Mine.loaded
    /\ pc[Daemon] \in InHand \cup {"end"} => Mine.loaded

\* Phase 1 begins only while it is not over.
Undecided ==
    pc[Daemon] = "harvest" \/ (full[Daemon] /\ pc[Daemon] \in InHand \cup {"end"}) => ~complete

\* The pages Phase 1 has passed have rows in memory, unless it was stopped ...
Visited ==
    full[Daemon] /\ ~stopping /\ pc[Daemon] \in InHand =>
        \A p \in Due \ todo[Daemon] :
            Mine.rows[p] # NoRow \/ (pc[Daemon] # "next" /\ p = job[Daemon].page)

\* ... and at its end, on disk.
Saved ==
    full[Daemon] /\ ~stopping /\ pc[Daemon] = "end" =>
        file = "good" /\ \A p \in Due : rows[p] # NoRow /\ Mine.rows[p] # NoRow

\* A row in memory that has not changed since the last save is on disk.
Synced ==
    /\ Mine.loaded
    /\ \/ pc[Daemon] \in {"cycle", "phase2"}
       \/ pc[Daemon] \in {"prune", "end"} /\ ~stopping
       \/ pc[Daemon] \in InHand /\ ~changed[Daemon]
    => \A p \in Pages : Mine.rows[p] # NoRow => rows[p] # NoRow

\* After Phase 1 no load, save or refresh loses a row that is due.
Kept ==
    complete => \A p \in Due : rows[p] # NoRow /\ (Mine.loaded => Mine.rows[p] # NoRow)

QuietInv == Alone /\ Sound /\ Memory /\ Undecided /\ Visited /\ Saved /\ Synced /\ Kept

RowsInv == Texted /\ (Quiet => QuietInv)

\* What a load gives while every file is good, and what keeping or saving it does.
LEMMA GoodLoad ==
    ASSUME TypeOK, Sound, NEW force \in BOOLEAN,
           NEW c, c = load_master_catalog(Daemon, force)
    PROVE  /\ c \in MasterCatalogs /\ c.loaded /\ c.persist
           /\ \/ ~force /\ Mine.loaded /\ c = Mine
              \/ file = "good" /\ c.rows = rows
              \/ file = "missing" /\ c.rows = NoRows
           /\ FileAfterLoad(Daemon, force) = file
<1> USE HarvestAssumption
<1>1. c \in MasterCatalogs
  BY LoadTypes
<1>2. \/ FromDisk = Catalog(NoRows, TRUE) /\ file = "missing"
      \/ FromDisk = Catalog(rows, TRUE) /\ file = "good"
  BY DEF FromDisk, Catalog, Sound
<1>3. FileAfterLoad(Daemon, force) = file
  BY DEF FileAfterLoad, Quarantined, Sound
<1>4. CASE Reloads(Daemon, force)
  BY <1>1, <1>2, <1>3, <1>4 DEF load_master_catalog, Catalog
<1>5. CASE ~Reloads(Daemon, force)
  BY <1>1, <1>3, <1>5 DEF load_master_catalog, Reloads, Sound, Mine
<1> QED  BY <1>4, <1>5

LEMMA GoodKeep ==
    ASSUME TypeOK, Sound, NEW force \in BOOLEAN, NEW c,
           Keeps(Daemon, force, c)
    PROVE  Mine' = c /\ file' = file /\ rows' = rows
  BY GoodLoad, HarvestAssumption DEF Keeps, Mine, TypeOK, CatalogTypeOK

LEMMA GoodSave ==
    ASSUME TypeOK, NEW force \in BOOLEAN, NEW c, c.persist, Saves(Daemon, force, c)
    PROVE  Mine' = c /\ file' = "good" /\ rows' = c.rows
  BY HarvestAssumption DEF Saves, Mine, TypeOK, CatalogTypeOK

LEMMA Pruned ==
    ASSUME NEW c \in MasterCatalogs, NEW S \in SUBSET Pages
    PROVE  /\ prune_missing_pages(c, S) \in MasterCatalogs
           /\ prune_missing_pages(c, S).loaded = c.loaded
           /\ prune_missing_pages(c, S).persist = c.persist
           /\ \A p \in Pages : prune_missing_pages(c, S).rows[p] = IF p \in S THEN c.rows[p] ELSE NoRow
  BY DEF prune_missing_pages, MasterCatalogs, AllRows

LEMMA Upserted ==
    ASSUME NEW c \in MasterCatalogs, NEW p \in Pages, NEW e \in CatalogEntry
    PROVE  /\ upsert(c, p, e).loaded = c.loaded /\ upsert(c, p, e).persist = c.persist
           /\ upsert(c, p, e).rows[p] # NoRow
           /\ \A q \in Pages \ {p} : upsert(c, p, e).rows[q] = c.rows[q]
  BY CatalogAssumption DEF upsert, MasterCatalogs, AllRows

LEMMA MineTyped == TypeOK => Mine \in MasterCatalogs /\ live \in SUBSET Pages
  BY HarvestAssumption DEF Mine, TypeOK, CatalogTypeOK

LEMMA RowsInit == Init => RowsInv
  BY HarvestAssumption, SMTT(30) DEF Init, CatalogInit, RowsInv, QuietInv, Texted, Quiet, Alone, Sound, Memory, Undecided,
     Visited, Saved, Synced, Kept, Mine, Unloaded, InHand, Due

LEMMA TextedStep == TypeOK /\ Texted /\ [Next]_vars => Texted'
<1> SUFFICES ASSUME TypeOK, Texted, [Next]_vars  PROVE Texted'
  OBVIOUS
<1>1. CASE UNCHANGED <<text, before, live>>
  BY <1>1 DEF Texted
<1>2. CASE UNCHANGED <<text, live>> /\ before' = live
  BY <1>2 DEF Texted
<1>3. ASSUME NEW p \in Pages, Edit(p)  PROVE Texted'
  BY <1>3, CatalogAssumption DEF Edit, Texted, TypeOK, Texts, phase
<1>4. ASSUME NEW p \in Pages, Delete(p)  PROVE Texted'
  BY <1>4 DEF Delete, Texted, phase, content
<1>5. ASSUME NEW p \in Pages, Create(p)  PROVE Texted'
  BY <1>5 DEF Create, Texted, TypeOK, phase
<1> QED
  BY <1>1, <1>2, <1>3, <1>4, <1>5
     DEF Next, DaemonStep, AuditStep, HarvestStep, vars, pages, records, content, phase, HarvestBegins, NextPage, SkipPage, RegexHarvest,
         ReadForModel, TakeBaseline, SummariseChunk, Summarise, LastTurn, StopSummary, EmptyAnswer, HarvestFails, IndexFails,
         AppendIndex, UpsertRow, HarvestEnds, Start, Hydrate, Hydrates, RunBootstrap,
         PipelineEnds, RefreshEnds, Rehydrate, SkipPhase2, IndexPage, Refresh, Prune, ReleaseMemory, StopPhase2, Finalize, AuditBegins,
         AuditEnds, PageFails, Kill, Tick, RequestStop, Damage

\* The step of everybody else: nothing of the daemon or the disk changes,
\* and no page that is due appears.
LEMMA ElseStep ==
    ASSUME TypeOK, QuietInv, UNCHANGED <<catalogVars, phase, pc, harvest>>,
           live' \cap before \subseteq live \cup Empty, stopping => stopping'
    PROVE  QuietInv'
  BY DEF QuietInv, Alone, Sound, Memory, Undecided, Visited, Saved, Synced, Kept, Mine, Due, InHand,
         catalogVars, disk, phase, harvest

LEMMA QuietStep ==
    ASSUME TypeOK, TypeOK', Texted, Quiet, QuietInv, [Next]_vars, Quiet'
    PROVE  QuietInv'
<1> USE CatalogAssumption, HarvestAssumption DEF QuietInv, Alone, Sound, Memory, Undecided, Visited, Saved, Synced,
        Kept, Due, InHand, Goes, Forget, pages, records, phase, harvest, counters
<1>0. ASSUME NEW x \in Procs, x # Daemon  PROVE ~HarvestStep(x) /\ ~AuditEnds(x) /\ ~AuditBegins(x)
  <2>1. pc[x] = "off"
    BY <1>0
  <2>2. ~HarvestStep(x) /\ ~AuditEnds(x)
    BY <2>1 DEF HarvestStep, NextPage, SkipPage, RegexHarvest, ReadForModel, TakeBaseline, SummariseChunk, Summarise,
                LastTurn, StopSummary, AppendIndex, UpsertRow, HarvestEnds, AuditEnds
  <2>3. ~AuditBegins(x)
    BY DEF AuditBegins, Quiet
  <2> QED  BY <2>2, <2>3
<1>1. CASE HarvestStep(Daemon)
  <2>1. ASSUME NEW p \in Pages, NextPage(Daemon, p)  PROVE QuietInv'
    <3>1. CASE p \in live
      BY <2>1, <3>1 DEF NextPage, Mine, TypeOK, disk, catalogVars
    <3>2. CASE p \notin live
      <4>1. Mine' = remove(Mine, p) /\ Mine \in MasterCatalogs
        BY <2>1, <3>2 DEF NextPage, Mine, TypeOK, CatalogTypeOK
      <4>2. /\ Mine'.loaded = Mine.loaded /\ Mine'.persist = Mine.persist /\ Mine'.rows[p] = NoRow
            /\ \A q \in Pages \ {p} : Mine'.rows[q] = Mine.rows[q]
        BY <4>1 DEF remove, MasterCatalogs, AllRows
      <4> QED  BY <2>1, <3>2, <4>2 DEF NextPage, TypeOK, disk
    <3> QED  BY <3>1, <3>2
  <2>2. CASE SkipPage(Daemon)
    BY <2>2 DEF SkipPage, Texted, Mine, disk, catalogVars, TypeOK
  <2>3. CASE RegexHarvest(Daemon)
    <3> DEFINE p == job[Daemon].page
               e == [about |-> about[p], sec |-> job[Daemon].sec]
    <3>1. p \in Pages /\ e \in CatalogEntry
      BY DEF TypeOK, Job, CatalogEntry
    <3>2. Mine' = upsert(Mine, p, e)
      BY <2>3 DEF RegexHarvest, Mine, TypeOK, CatalogTypeOK
    <3> HIDE DEF e
    <3>3. /\ Mine'.loaded = Mine.loaded /\ Mine'.persist = Mine.persist /\ Mine'.rows[p] # NoRow
          /\ \A q \in Pages \ {p} : Mine'.rows[q] = Mine.rows[q]
      BY <3>1, <3>2, MineTyped, Upserted
    <3> QED  BY <2>3, <3>1, <3>3 DEF RegexHarvest, TypeOK, disk
  <2>4. CASE ReadForModel(Daemon)
    <3>1. pc'[Daemon] \in {"next", "baseline"} /\ (pc'[Daemon] = "next" => stopping)
      BY <2>4 DEF ReadForModel, Stopped, TypeOK
    <3>2. job'[Daemon].page = job[Daemon].page \/ stopping
      BY <2>4 DEF ReadForModel, Stopped, TypeOK, Job
    <3> QED  BY <2>4, <3>1, <3>2 DEF ReadForModel, Mine, disk, catalogVars, TypeOK
  <2>5. CASE TakeBaseline(Daemon)
    BY <2>5 DEF TakeBaseline, Mine, disk, catalogVars, TypeOK
  <2>6. CASE Summarise(Daemon)
    BY <2>6 DEF Summarise, LastTurn, Mine, disk, catalogVars, TypeOK
  <2>7. CASE AppendIndex(Daemon)
    BY <2>7 DEF AppendIndex, Mine, disk, catalogVars, TypeOK
  <2>8. CASE UpsertRow(Daemon)
    <3> DEFINE p == job[Daemon].page
               e == [about |-> job[Daemon].text, sec |-> sec[p]]
    <3>1. p \in Pages /\ e \in CatalogEntry
      BY DEF TypeOK, Job, CatalogEntry
    <3>2. CASE p \in live
      <4>1. Mine' = upsert(Mine, p, e)
        BY <2>8, <3>2 DEF UpsertRow, Mine, TypeOK, CatalogTypeOK
      <4> HIDE DEF e
      <4>2. /\ Mine'.loaded = Mine.loaded /\ Mine'.persist = Mine.persist /\ Mine'.rows[p] # NoRow
            /\ \A q \in Pages \ {p} : Mine'.rows[q] = Mine.rows[q]
        BY <3>1, <4>1, MineTyped, Upserted
      <4> QED  BY <2>8, <3>1, <3>2, <4>2, SMTT(30) DEF UpsertRow, TypeOK, disk
    <3>3. CASE p \notin live
      BY <2>8, <3>1, <3>3 DEF UpsertRow, Mine, TypeOK, disk
    <3> QED  BY <3>2, <3>3
  <2>9. CASE HarvestEnds(Daemon)
    <3>1. CASE ~Stopped(Daemon) /\ (changed[Daemon] \/ full[Daemon])
      <4>1. Mine.persist /\ SavesLoaded(Daemon) /\ masterIndex'
        BY <2>9, <3>1 DEF HarvestEnds, Mine
      <4>2. Mine' = Mine /\ file' = "good" /\ rows' = Mine.rows
        BY <4>1 DEF SavesLoaded, Mine
      <4> QED  BY <2>9, <3>1, <4>1, <4>2 DEF HarvestEnds, Stopped, TypeOK
    <3>2. CASE ~(~Stopped(Daemon) /\ (changed[Daemon] \/ full[Daemon]))
      BY <2>9, <3>2 DEF HarvestEnds, Stopped, Mine, TypeOK, catalogVars, disk
    <3> QED  BY <3>1, <3>2
  <2>10. CASE SummariseChunk(Daemon)
    <3>1. job'[Daemon].page = job[Daemon].page
      BY <2>10 DEF SummariseChunk, TypeOK, Job
    <3> QED  BY <2>10, <3>1 DEF SummariseChunk, Mine, disk, catalogVars, TypeOK
  <2>11. CASE StopSummary(Daemon)
    BY <2>11 DEF StopSummary, Stopped, Mine, disk, catalogVars, TypeOK
  <2> QED  BY <1>1, <2>1, <2>2, <2>3, <2>4, <2>5, <2>6, <2>7, <2>8, <2>9, <2>10, <2>11 DEF HarvestStep
<1>2. CASE Start
  BY <1>2 DEF Start, Mine, disk, catalogVars, TypeOK
<1>3. ASSUME NEW there \in {"harvest", "phase2"}, Hydrates(there),
             (there = "harvest" /\ pc[Daemon] = "boot") \/ (there = "phase2" /\ pc[Daemon] = "cycle")
      PROVE  QuietInv'
  <2> DEFINE c == load_master_catalog(Daemon, FALSE)
  <2>1. /\ c \in MasterCatalogs /\ c.loaded /\ c.persist
        /\ \A p \in Pages : c.rows[p] # NoRow => rows[p] # NoRow
    <3>1. /\ c \in MasterCatalogs /\ c.loaded /\ c.persist
          /\ \/ Mine.loaded /\ c = Mine
             \/ c.rows = rows
             \/ c.rows = NoRows
      BY GoodLoad
    <3>2. Mine.loaded => pc[Daemon] = "cycle"
      BY <1>3
    <3> HIDE DEF c
    <3> QED  BY <3>1, <3>2 DEF NoRows
  <2>2. CASE complete \/ ~masterIndex
    <3>0. UNCHANGED <<catalogVars, live, before, stopping, masterIndex, harvest>>
      BY <1>3, <2>2 DEF Hydrates
    <3>1. (complete' <=> complete) /\ Mine' = Mine /\ UNCHANGED <<disk, live, before, stopping, masterIndex, harvest>>
      <4>1. complete' <=> complete
        BY <1>3, <2>2 DEF Hydrates
      <4> QED  BY <3>0, <4>1 DEF Mine, catalogVars, disk
    <3>2. pc' = [pc EXCEPT ![Daemon] = IF complete THEN "phase2" ELSE there]
          /\ \A x \in Procs \ {Daemon} : pc'[x] = pc[x]
      <4>1. pc' = [pc EXCEPT ![Daemon] = IF complete' THEN "phase2" ELSE there]
        BY <1>3 DEF Hydrates
      <4> QED  BY <3>1, <4>1 DEF TypeOK
    <3>3. pc'[Daemon] = IF complete THEN "phase2" ELSE there
      BY <3>2 DEF TypeOK
    <3>4. Alone' /\ Sound' /\ Memory' /\ Undecided'
      BY <1>3, <3>1, <3>2, <3>3 DEF disk
    <3>5. Visited' /\ Saved' /\ Kept'
      BY <1>3, <3>1, <3>3 DEF disk
    <3>6. Synced'
      BY <1>3, <3>1, <3>3 DEF disk
    <3> QED  BY <3>4, <3>5, <3>6
  <2>3. CASE ~complete /\ masterIndex
    <3>1. Mine' = c /\ file' = file /\ rows' = rows
      <4>1. Keeps(Daemon, FALSE, c)
        BY <1>3, <2>3 DEF Hydrates
      <4> QED  BY <4>1, GoodKeep
    <3>2. complete' => \A p \in Due : c.rows[p] # NoRow
      BY <1>3, <2>3 DEF Hydrates, is_bootstrap_catalog_complete, Fresh, Texted, TypeOK
    <3>3. pc' = [pc EXCEPT ![Daemon] = IF complete' THEN "phase2" ELSE there]
          /\ UNCHANGED <<live, before, stopping, masterIndex, todo, job, full, changed>>
      BY <1>3 DEF Hydrates
    <3>4. pc'[Daemon] \in {"phase2", there} /\ (pc'[Daemon] = "phase2" <=> complete' \/ there = "phase2")
      BY <1>3, <3>3 DEF TypeOK
    <3>5. \A x \in Procs \ {Daemon} : pc'[x] = pc[x]
      BY <3>3 DEF TypeOK
    <3> HIDE DEF c
    <3>6. Alone' /\ Sound' /\ Memory' /\ Undecided'
      BY <1>3, <2>1, <2>3, <3>1, <3>3, <3>4, <3>5
    <3>7. Visited' /\ Saved'
      BY <1>3, <3>4
    <3>8. Synced'
      BY <2>1, <3>1
    <3>9. Kept'
      <4>1. live \in SUBSET Pages
        BY MineTyped
      <4>2. Due' = Due /\ Due \in SUBSET Pages
        BY <3>3, <4>1
      <4> QED  BY <2>1, <3>1, <3>2, <4>2
    <3> QED  BY <3>6, <3>7, <3>8, <3>9
  <2> QED  BY <2>2, <2>3
<1>4. ASSUME NEW here, NEW isFull \in BOOLEAN, HarvestBegins(Daemon, here, isFull),
             here = IF isFull THEN "harvest" ELSE "phase2"
      PROVE  QuietInv'
  <2> DEFINE c == load_master_catalog(Daemon, TRUE)
             d == prune_missing_pages(c, live)
  <2>1. /\ c \in MasterCatalogs /\ c.loaded /\ c.persist
        /\ (file = "good" /\ c.rows = rows) \/ (file = "missing" /\ c.rows = NoRows)
    BY GoodLoad
  <2>2. /\ d.loaded /\ d.persist
        /\ \A p \in Pages : d.rows[p] = IF p \in live THEN c.rows[p] ELSE NoRow
    <3> HIDE DEF c
    <3> QED  BY <2>1, MineTyped, Pruned
  <2>3. Mine' = d /\ file' = file /\ rows' = rows
    <3>1. Keeps(Daemon, TRUE, d)
      BY <1>4 DEF HarvestBegins
    <3> HIDE DEF d
    <3> QED  BY <3>1, GoodKeep
  <2>6. ~changed'[Daemon] => d = c
    <3>1. changed' = [changed EXCEPT ![Daemon] = d # c]
      BY <1>4 DEF HarvestBegins
    <3>2. DOMAIN changed = Procs
      BY DEF TypeOK
    <3> HIDE DEF c, d
    <3> QED  BY <3>1, <3>2
  <2>9. full'[Daemon] <=> isFull
    BY <1>4 DEF HarvestBegins, TypeOK
  <2>10. (isFull => before' = live /\ todo'[Daemon] = live) /\ (~isFull => before' = before)
    <3>1. isFull => todo' = [todo EXCEPT ![Daemon] = live]
      BY <1>4 DEF HarvestBegins
    <3>2. DOMAIN todo = Procs
      BY DEF TypeOK
    <3>3. before' = IF isFull THEN live ELSE before
      BY <1>4 DEF HarvestBegins
    <3> QED  BY <3>1, <3>2, <3>3
  <2>7. \A p \in Pages : c.rows[p] # NoRow => rows[p] # NoRow
    <3> HIDE DEF c
    <3> QED  BY <2>1 DEF NoRows
  <2>8. pc[Daemon] = here /\ pc' = [pc EXCEPT ![Daemon] = "next"]
        /\ UNCHANGED <<live, stopping, complete, masterIndex>>
    BY <1>4 DEF HarvestBegins
  <2> HIDE DEF c, d
  <2>4. CASE isFull
    <3>1. ~complete' /\ pc'[Daemon] = "next" /\ full'[Daemon]
      BY <1>4, <2>4, <2>8, <2>9 DEF TypeOK
    <3>2. Due' \ todo'[Daemon] = {}
      BY <2>4, <2>8, <2>10
    <3>3. Alone' /\ Sound' /\ Memory' /\ Undecided'
      BY <2>1, <2>2, <2>3, <2>8, <3>1 DEF TypeOK
    <3>4. Visited' /\ Saved' /\ Kept'
      BY <3>1, <3>2
    <3>5. Synced'
      BY <2>2, <2>3, <2>6, <2>7, <3>1
    <3> QED  BY <3>3, <3>4, <3>5
  <2>5. CASE ~isFull
    BY <2>1, <2>2, <2>3, <2>5, <2>6, <2>7, <2>8, <2>9, <2>10 DEF TypeOK
  <2> QED  BY <2>4, <2>5
<1>5. CASE PipelineEnds
  BY <1>5 DEF PipelineEnds, Mine, disk, catalogVars, TypeOK
<1>6. CASE RefreshEnds
  BY <1>6 DEF RefreshEnds, Mine, disk, catalogVars, TypeOK
<1>7. ASSUME NEW p \in Pages, IndexPage(p)  PROVE QuietInv'
  <2> DEFINE c == load_master_catalog(Daemon, FALSE)
             e == [about |-> about'[p], sec |-> clock]
             d == upsert(c, p, e)
  <2>0. CASE p \in bare
    <3>1. live' \cap before \subseteq live \cup Empty /\ (stopping => stopping')
      BY <1>7 DEF IndexPage
    <3> QED  BY <1>7, <2>0, <3>1, ElseStep DEF IndexPage
  <2> SUFFICES ASSUME p \notin bare  PROVE QuietInv'
    BY <2>0
  <2>1. /\ c \in MasterCatalogs /\ c.loaded /\ c.persist
        /\ (Mine.loaded /\ c = Mine) \/ c.rows = rows \/ (file = "missing" /\ c.rows = NoRows)
    BY GoodLoad
  <2>2. e \in CatalogEntry
    BY DEF TypeOK, CatalogEntry
  <2>3. /\ d.loaded /\ d.persist /\ d.rows[p] # NoRow
        /\ \A q \in Pages \ {p} : d.rows[q] = c.rows[q]
    <3> HIDE DEF c, e
    <3> QED  BY <2>1, <2>2, Upserted
  <2>4. Mine' = d /\ file' = "good" /\ rows' = d.rows
    BY <1>7, <2>3, GoodSave DEF IndexPage
  <2>5. complete => \A q \in Due : c.rows[q] # NoRow
    <3> HIDE DEF c
    <3> QED  BY <2>1 DEF TypeOK
  <2>6. pc[Daemon] = "phase2" /\ UNCHANGED <<live, phase, stopping, pc, harvest>>
    BY <1>7 DEF IndexPage
  <2> HIDE DEF c, d
  <2> QED  BY <2>3, <2>4, <2>5, <2>6 DEF TypeOK
<1>8. CASE Prune
  <2> DEFINE c == load_master_catalog(Daemon, FALSE)
             d == prune_missing_pages(c, live)
  <2>1. /\ c \in MasterCatalogs /\ c.loaded /\ c.persist
        /\ \/ Mine.loaded /\ c = Mine
           \/ file = "good" /\ c.rows = rows
           \/ file = "missing" /\ c.rows = NoRows
    BY GoodLoad
  <2>2. /\ d.loaded /\ d.persist
        /\ \A p \in Pages : d.rows[p] = IF p \in live THEN c.rows[p] ELSE NoRow
    <3> HIDE DEF c
    <3> QED  BY <2>1, MineTyped, Pruned
  <2>3. CASE d # c
    <3>1. Mine' = d /\ file' = "good" /\ rows' = d.rows
      BY <1>8, <2>2, <2>3, GoodSave DEF Prune
    <3>2. pc[Daemon] = "prune" /\ pc' = [pc EXCEPT ![Daemon] = IF stopping THEN "idle" ELSE "cycle"]
          /\ UNCHANGED <<live, phase, stopping, harvest>>
      BY <1>8 DEF Prune
    <3> HIDE DEF c, d
    <3> QED  BY <2>1, <2>2, <3>1, <3>2 DEF TypeOK, NoRows
  <2>4. CASE d = c
    <3>1. Mine' = c /\ file' = file /\ rows' = rows
      BY <1>8, <2>4, GoodKeep DEF Prune
    <3>2. pc[Daemon] = "prune" /\ pc' = [pc EXCEPT ![Daemon] = IF stopping THEN "idle" ELSE "cycle"]
          /\ UNCHANGED <<live, phase, stopping, harvest>>
      BY <1>8 DEF Prune
    <3> HIDE DEF c
    <3> QED  BY <2>1, <3>1, <3>2 DEF TypeOK, NoRows
  <2> QED  BY <2>3, <2>4
<1>9. CASE ReleaseMemory
  BY <1>9 DEF ReleaseMemory, Unloads, Unloaded, Mine, TypeOK, CatalogTypeOK, MasterCatalogs
<1>10. CASE StopPhase2 \/ SkipPhase2
  BY <1>10 DEF StopPhase2, SkipPhase2, Mine, disk, catalogVars, TypeOK
<1>11. CASE Finalize
  <2> DEFINE c == load_master_catalog(Daemon, FALSE)
  <2>1. /\ c.persist
        /\ (Mine.loaded /\ c = Mine) \/ c.rows = rows \/ (file = "missing" /\ c.rows = NoRows)
    BY GoodLoad
  <2>2. Mine' = Unloaded /\ file' = "good" /\ rows' = c.rows
    <3>1. cached' = [cached EXCEPT ![Daemon] = Unloaded]
      BY <1>11, Zenon DEF Finalize
    <3>2. DOMAIN cached = Procs
      BY DEF TypeOK, CatalogTypeOK
    <3>3. file' = "good" /\ rows' = c.rows
      BY <1>11, <2>1, Zenon DEF Finalize
    <3> HIDE DEF c
    <3> QED  BY <3>1, <3>2, <3>3, HarvestAssumption DEF Mine
  <2>3. complete => \A q \in Due : c.rows[q] # NoRow
    <3> HIDE DEF c
    <3> QED  BY <2>1 DEF TypeOK
  <2>4. pc' = [pc EXCEPT ![Daemon] = "off"] /\ UNCHANGED <<live, phase, stopping, harvest>>
    BY <1>11 DEF Finalize
  <2> HIDE DEF c
  <2> QED  BY <2>2, <2>3, <2>4 DEF TypeOK, Unloaded
<1>12. /\ \A x \in Procs : ~PageFails(x) /\ ~EmptyAnswer(x) /\ ~HarvestFails(x) /\ ~Kill(x)
       /\ \A p \in Pages : ~IndexFails(p)
  BY DEF PageFails, EmptyAnswer, HarvestFails, IndexFails, Kill, Fault, Quiet, TypeOK
<1>13. CASE Damage
  BY <1>13 DEF Damage, Fault, Quiet, TypeOK
<1>14. ASSUME NEW p \in Pages, Edit(p) \/ Delete(p) \/ Create(p)  PROVE QuietInv'
  <2>1. live' \cap before \subseteq live \cup Empty
    BY <1>14 DEF Edit, Delete, Create, Texted
  <2> QED  BY <1>14, <2>1, ElseStep DEF Edit, Delete, Create
<1>15. CASE Tick \/ RequestStop
  <2>1. live' \cap before \subseteq live \cup Empty /\ (stopping => stopping')
    BY <1>15 DEF Tick, RequestStop
  <2> QED  BY <1>15, <2>1, ElseStep DEF Tick, RequestStop
<1>16. CASE UNCHANGED vars
  <2>1. live' \cap before \subseteq live \cup Empty /\ (stopping => stopping')
    BY <1>16 DEF vars
  <2> QED  BY <1>16, <2>1, ElseStep DEF vars
<1> QED
  BY <1>0, <1>1, <1>2, <1>3, <1>4, <1>5, <1>6, <1>7, <1>8, <1>9, <1>10, <1>11, <1>12, <1>13, <1>14, <1>15, <1>16
     DEF Next, DaemonStep, AuditStep, Hydrate, Rehydrate, RunBootstrap, Refresh

LEMMA RowsStep == TypeOK /\ TypeOK' /\ RowsInv /\ [Next]_vars => RowsInv'
<1> SUFFICES ASSUME TypeOK, TypeOK', RowsInv, [Next]_vars  PROVE RowsInv'
  OBVIOUS
<1>1. Texted'
  BY TextedStep, Zenon DEF RowsInv
<1>2. Quiet' => Quiet
  <2>1. CASE UNCHANGED <<audits, faults>>
    BY <2>1 DEF Quiet
  <2>2. ASSUME NEW x \in Procs, AuditBegins(x)  PROVE ~Quiet'
    BY <2>2 DEF AuditBegins, Quiet, TypeOK
  <2>3. CASE Fault
    BY <2>3 DEF Fault, Quiet, TypeOK
  <2>4. CASE Damage
    BY <2>4 DEF Damage, Fault, Quiet, TypeOK
  <2> QED
    BY <2>1, <2>2, <2>3, <2>4
       DEF Next, DaemonStep, AuditStep, HarvestStep, vars, NextPage, SkipPage, RegexHarvest, ReadForModel, TakeBaseline,
           SummariseChunk, Summarise, LastTurn, StopSummary, EmptyAnswer, HarvestFails, IndexFails, PageFails, Kill,
           AppendIndex, UpsertRow, HarvestEnds, Start, Hydrate, Hydrates, RunBootstrap, PipelineEnds, RefreshEnds, Rehydrate, SkipPhase2, IndexPage, Refresh, Prune, ReleaseMemory, StopPhase2, Finalize, AuditEnds, Edit,
           Delete, Create, Tick, RequestStop, counters
<1>3. Quiet' => QuietInv'
  BY <1>2, QuietStep DEF RowsInv
<1> QED  BY <1>1, <1>3 DEF RowsInv

\* While no call fails, no file is damaged and no audit runs, Phase 2 finds on
\* disk a row of every page that had a text when Phase 1 began and still
\* exists, whatever edits, stops, restarts and unloads of the cache come between.
THEOREM HarvestKeepsRows == Spec => []Phase2HasItsRows
<1>1. RowsInv => Phase2HasItsRows
  BY DEF RowsInv, QuietInv, Quiet, Kept, Due, Phase2HasItsRows
<1>2. Init => TypeOK /\ RowsInv
  BY TypeInit, RowsInit
<1>3. TypeOK /\ RowsInv /\ [Next]_vars => (TypeOK /\ RowsInv)'
  BY TypeStep, RowsStep
<1> QED  BY <1>1, <1>2, <1>3, PTL DEF Spec
-----------------------------------------------------------------------------
(* The inductive invariant of SummaryIsPaidOnce: what was answered for a    *)
(* page, and what can still be answered before somebody pays for it, stay   *)
(* within the saves, audits, faults and stops so far.                       *)

\* The answers process x has for page p and has not yet made a summary of.
Got(x, p) == IF pc[x] = "infer" /\ job[x].page = p THEN job[x].answers ELSE 0

Asks(p) == pc[Daemon] \in {"baseline", "infer"} /\ job[Daemon].page = p

\* The index of p is missing, and no append of it is certain.
WillAppend(p) ==
    /\ p \in live /\ pc[Daemon] \in {"baseline", "infer", "append"} /\ job[Daemon].page = p
    /\ pc[Daemon] = "baseline" \/ Daemon \notin drift
Missing(p) == about[p] = 0 /\ ~WillAppend(p)

\* The answers for p the daemon may still get before the next save or fault,
\* and those a stop that was asked for will make it drop.
Chances(p) ==
    (IF Asks(p) THEN TurnsOf(p) - Got(Daemon, p) ELSE 0)
      + (IF Asks(p) /\ Stopped(Daemon) THEN TurnsOf(p) - 1 ELSE 0)
      + (IF Missing(p) THEN TurnsOf(p) ELSE 0)

\* The turns of the audits whose visit of p has not come, or is not over.
Ahead(x, p) == p \in todo[x] \/ (pc[x] \in {"read", "baseline", "infer"} /\ job[x].page = p)
TurnsAhead(p) ==
    {t \in (Procs \ {Daemon}) \X (1..TurnsOf(p)) : Ahead(t[1], p) /\ t[2] > Got(t[1], p)}

Allowance(p) == TurnsOf(p) * (1 + edits + audits + faults) + (TurnsOf(p) - 1) * stops

Paid(p) ==
    /\ IsFiniteSet(TurnsAhead(p))
    /\ p \notin spoilt => calls[p] + Cardinality(TurnsAhead(p)) + Chances(p) <= Allowance(p)

\* A visit in progress is the only one of its page in this harvest, and has
\* fewer answers than it needs.
Turn(x) ==
    /\ pc[x] \in {"read", "baseline", "infer"} => job[x].page \notin todo[x]
    /\ pc[x] \in {"read", "baseline"} => job[x].answers = 0
    /\ pc[x] = "infer" => job[x].answers < TurnsOf(job[x].page)

PaidInv == (\A x \in Procs : Turn(x)) /\ (\A p \in Pages : Paid(p))

LEMMA TurnsType == \A p \in Pages : TurnsOf(p) \in Nat \ {0}
  BY HarvestAssumption DEF TurnsOf

\* The counters and the answers are numbers.
LEMMA Numbers ==
    TypeOK => /\ edits \in Nat /\ stops \in Nat /\ audits \in Nat /\ faults \in Nat
              /\ calls \in [Pages -> Nat]
  BY HarvestAssumption DEF TypeOK

\* What a save, an audit or a fault adds to the allowance, and what a stop adds.
LEMMA Allowances ==
    ASSUME TypeOK, TypeOK', NEW p \in Pages
    PROVE  /\ Allowance(p) \in Nat
           /\ UNCHANGED counters => Allowance(p)' = Allowance(p)
           /\ edits' + audits' + faults' = edits + audits + faults + 1 /\ stops' = stops
                => Allowance(p)' = Allowance(p) + TurnsOf(p)
           /\ UNCHANGED <<edits, audits, faults>> /\ stops' = stops + 1
                => Allowance(p)' = Allowance(p) + TurnsOf(p) - 1
<1> DEFINE n == 1 + edits + audits + faults
           k == TurnsOf(p)
<1>1. n \in Nat /\ stops \in Nat /\ k \in Nat \ {0} /\ Allowance(p) = k * n + (k - 1) * stops
  BY Numbers, TurnsType DEF Allowance
<1>2. Allowance(p) \in Nat
  BY <1>1
<1>3. TurnsOf(p)' = k
  BY DEF TurnsOf
<1>4. UNCHANGED counters => Allowance(p)' = Allowance(p)
  BY <1>3 DEF Allowance, counters
<1>5. ASSUME edits' + audits' + faults' = edits + audits + faults + 1, stops' = stops
      PROVE  Allowance(p)' = Allowance(p) + k
  <2>0. Allowance(p)' = k * (1 + edits' + audits' + faults') + (k - 1) * stops'
    BY <1>3 DEF Allowance
  <2>1. k * (n + 1) = k * n + k
    BY <1>1
  <2>2. 1 + edits' + audits' + faults' = n + 1
    BY <1>5, Numbers DEF TypeOK
  <2>3. Allowance(p)' = k * (n + 1) + (k - 1) * stops
    BY <1>5, <2>0, <2>2
  <2> HIDE DEF n, k
  <2> QED  BY <1>1, <2>1, <2>3
<1>6. ASSUME UNCHANGED <<edits, audits, faults>>, stops' = stops + 1
      PROVE  Allowance(p)' = Allowance(p) + k - 1
  <2>0. Allowance(p)' = k * n + (k - 1) * (stops + 1)
    BY <1>3, <1>6 DEF Allowance
  <2>1. (k - 1) * (stops + 1) = (k - 1) * stops + (k - 1)
    BY <1>1
  <2> QED  BY <1>1, <2>0, <2>1
<1> QED  BY <1>2, <1>4, <1>5, <1>6

\* What was got and what can still be asked are numbers, before and after a step.
LEMMA Gotten ==
    ASSUME NEW x \in Procs, NEW p \in Pages
    PROVE  (TypeOK => Got(x, p) \in Nat) /\ (TypeOK' => Got(x, p)' \in Nat)
  BY HarvestAssumption DEF Got, TypeOK, Job

LEMMA ChancesType ==
    ASSUME NEW p \in Pages
    PROVE  (TypeOK => Chances(p) \in Int) /\ (TypeOK' => Chances(p)' \in Int)
<1>1. TurnsOf(p) \in Nat /\ TurnsOf(p)' = TurnsOf(p)
  BY TurnsType DEF TurnsOf
<1> QED  BY <1>1, Gotten, HarvestAssumption DEF Chances

LEMMA PaidInit == Init => PaidInv
<1> SUFFICES ASSUME Init  PROVE PaidInv
  OBVIOUS
<1>1. \A x \in Procs : Turn(x)
  BY DEF Init, Turn
<1>2. ASSUME NEW p \in Pages  PROVE Paid(p)
  <2>1. TurnsAhead(p) = {}
    BY DEF Init, TurnsAhead, Ahead
  <2>2. IsFiniteSet(TurnsAhead(p)) /\ Cardinality(TurnsAhead(p)) = 0
    BY <2>1, FS_EmptySet
  <2>3. ~Asks(p) /\ calls[p] = 0
    BY HarvestAssumption DEF Init, Asks
  <2>4. Chances(p) <= TurnsOf(p) /\ Chances(p) \in Nat
    BY <2>3, TurnsType DEF Chances
  <2>5. Allowance(p) = TurnsOf(p) * 1 + (TurnsOf(p) - 1) * 0
    BY DEF Init, Allowance
  <2>6. Allowance(p) = TurnsOf(p)
    BY <2>5, TurnsType
  <2> QED  BY <2>2, <2>3, <2>4, <2>6, TurnsType DEF Paid
<1> QED  BY <1>1, <1>2 DEF PaidInv

LEMMA TurnStep == TypeOK /\ (\A x \in Procs : Turn(x)) /\ [Next]_vars => \A x \in Procs : Turn(x)'
<1> SUFFICES ASSUME TypeOK, \A x \in Procs : Turn(x), [Next]_vars, NEW y \in Procs
             PROVE  Turn(y)'
  OBVIOUS
<1> USE HarvestAssumption DEF Turn, TypeOK, Goes, Forget, phase, harvest, counters, pages, records, TurnsOf
<1>0. CASE UNCHANGED <<pc, todo, job>>
  BY <1>0
<1>1. ASSUME NEW x \in Procs, HarvestStep(x)  PROVE Turn(y)'
  <2>1. ASSUME NEW p \in Pages, NextPage(x, p)  PROVE Turn(y)'
    BY <2>1 DEF NextPage
  <2>2. CASE SkipPage(x)       BY <2>2 DEF SkipPage
  <2>3. CASE RegexHarvest(x)   BY <2>3 DEF RegexHarvest
  <2>4. CASE ReadForModel(x)
    <3>1. CASE Stopped(x)
      <4>1. pc'[x] = "next" /\ (y # x => pc'[y] = pc[y] /\ job'[y] = job[y]) /\ todo' = todo
        BY <2>4, <3>1 DEF ReadForModel
      <4> QED  BY <4>1
    <3>2. CASE ~Stopped(x)
      <4>1. /\ job'[x].page = job[x].page /\ job'[x].answers = job[x].answers /\ pc[x] = "read" /\ todo' = todo
            /\ pc'[x] = "baseline" /\ (y # x => pc'[y] = pc[y] /\ job'[y] = job[y])
        BY <2>4, <3>2 DEF ReadForModel, Job
      <4> QED  BY <4>1
    <3> QED  BY <3>1, <3>2
  <2>5. CASE TakeBaseline(x)   BY <2>5 DEF TakeBaseline
  <2>6. CASE Summarise(x)      BY <2>6 DEF Summarise, LastTurn
  <2>7. CASE AppendIndex(x)    BY <2>7 DEF AppendIndex
  <2>8. CASE UpsertRow(x)      BY <2>8 DEF UpsertRow
  <2>9. CASE HarvestEnds(x)    BY <2>9 DEF HarvestEnds
  <2>10. CASE SummariseChunk(x)
    <3>1. /\ job'[x].page = job[x].page /\ job'[x].answers = job[x].answers + 1 /\ pc[x] = "infer" /\ todo' = todo
          /\ pc' = pc /\ (y # x => job'[y] = job[y]) /\ job[x].answers + 1 < TurnsOf(job[x].page)
      BY <2>10 DEF SummariseChunk, Job
    <3> QED  BY <3>1
  <2>11. CASE StopSummary(x)   BY <2>11 DEF StopSummary
  <2> QED  BY <1>1, <2>1, <2>2, <2>3, <2>4, <2>5, <2>6, <2>7, <2>8, <2>9, <2>10, <2>11 DEF HarvestStep
<1>2. ASSUME NEW x \in Procs, NEW here, NEW isFull, HarvestBegins(x, here, isFull)  PROVE Turn(y)'
  BY <1>2 DEF HarvestBegins
<1>3. ASSUME NEW x \in Procs, PageFails(x) \/ EmptyAnswer(x) \/ HarvestFails(x) \/ Kill(x) \/ AuditEnds(x)
      PROVE  Turn(y)'
  BY <1>3 DEF PageFails, EmptyAnswer, LastTurn, HarvestFails, Kill, AuditEnds
<1>4. ASSUME NEW there \in {"harvest", "phase2"}, Hydrates(there)  PROVE Turn(y)'
  BY <1>4 DEF Hydrates
<1>5. CASE Start \/ PipelineEnds \/ RefreshEnds \/ SkipPhase2 \/ Prune \/ StopPhase2 \/ Finalize
  BY <1>5 DEF Start, PipelineEnds, RefreshEnds, SkipPhase2, Prune, StopPhase2, Finalize
<1> QED
  BY <1>0, <1>1, <1>2, <1>3, <1>4, <1>5
     DEF Next, DaemonStep, AuditStep, vars, Hydrate, Rehydrate, RunBootstrap, Refresh, IndexPage, IndexFails,
         ReleaseMemory, AuditBegins, Edit, Delete, Create, Tick, RequestStop, Damage

\* A page that was once bare stays so in the history.
LEMMA SpoiltGrows == [Next]_vars => spoilt \subseteq spoilt'
  BY DEF Next, DaemonStep, AuditStep, HarvestStep, vars, pages, records, content, HarvestBegins, NextPage, SkipPage, RegexHarvest,
         ReadForModel, TakeBaseline, SummariseChunk, Summarise, LastTurn, StopSummary, EmptyAnswer, HarvestFails, IndexFails,
         AppendIndex, Appends, UpsertRow, HarvestEnds, Start, Hydrate, Hydrates, RunBootstrap, PipelineEnds, RefreshEnds,
         Rehydrate, SkipPhase2, IndexPage, Refresh, Prune, ReleaseMemory, StopPhase2, Finalize, AuditBegins,
         AuditEnds, PageFails, Kill, Edit, Delete, Create, Tick, RequestStop, Damage

\* A step that brings no audit nearer to a turn.
LEMMA FewerAhead ==
    ASSUME TypeOK, TypeOK', NEW p \in Pages,
           \A x \in Procs \ {Daemon} : Ahead(x, p)' => Ahead(x, p) /\ Got(x, p) <= Got(x, p)'
    PROVE  TurnsAhead(p)' \subseteq TurnsAhead(p)
<1> SUFFICES ASSUME NEW t \in TurnsAhead(p)'  PROVE t \in TurnsAhead(p)
  OBVIOUS
<1>1. t \in (Procs \ {Daemon}) \X (1..TurnsOf(p)) /\ Ahead(t[1], p)' /\ t[2] > Got(t[1], p)'
  BY DEF TurnsAhead, TurnsOf
<1>2. Ahead(t[1], p) /\ Got(t[1], p) <= Got(t[1], p)' /\ t[2] \in Nat
  BY <1>1, TurnsType
<1>3. Got(t[1], p) \in Nat /\ Got(t[1], p)' \in Nat
  BY <1>1, Gotten
<1> QED  BY <1>1, <1>2, <1>3 DEF TurnsAhead

\* A step in which the model answers nothing.
LEMMA NoCall ==
    ASSUME TypeOK, TypeOK', NEW p \in Pages, Paid(p), spoilt \subseteq spoilt', calls'[p] = calls[p],
           TurnsAhead(p)' \subseteq TurnsAhead(p),
           p \notin spoilt' => Chances(p)' + Allowance(p) <= Chances(p) + Allowance(p)'
    PROVE  Paid(p)'
<1>1. IsFiniteSet(TurnsAhead(p)') /\ Cardinality(TurnsAhead(p)') <= Cardinality(TurnsAhead(p))
      /\ Cardinality(TurnsAhead(p)') \in Nat /\ Cardinality(TurnsAhead(p)) \in Nat
  <2>1. IsFiniteSet(TurnsAhead(p))
    BY DEF Paid
  <2> HIDE DEF TurnsAhead
  <2> QED  BY <2>1, FS_Subset, FS_CardinalityType
<1>2. Chances(p) \in Int /\ Chances(p)' \in Int /\ Allowance(p) \in Int /\ Allowance(p)' \in Int
      /\ calls[p] \in Int
  <2>1. Chances(p) \in Int /\ Chances(p)' \in Int
    BY ChancesType
  <2>2. TurnsOf(p) \in Int /\ TurnsOf(p)' = TurnsOf(p)
    BY TurnsType DEF TurnsOf
  <2>3. Allowance(p) \in Int /\ Allowance(p)' \in Int
    BY <2>2, Numbers DEF Allowance, TypeOK
  <2> QED  BY <2>1, <2>3, Numbers
<1> QED  BY <1>1, <1>2 DEF Paid

\* The same, when nothing is counted, and when a save, an audit or a fault is.
LEMMA NothingNew ==
    ASSUME TypeOK, TypeOK', NEW p \in Pages, Paid(p), spoilt \subseteq spoilt', calls'[p] = calls[p],
           TurnsAhead(p)' \subseteq TurnsAhead(p), UNCHANGED counters,
           p \notin spoilt' => Chances(p)' <= Chances(p)
    PROVE  Paid(p)'
<1>1. Chances(p) \in Int /\ Chances(p)' \in Int /\ Allowance(p) \in Int /\ Allowance(p)' = Allowance(p)
  BY ChancesType, Allowances
<1>2. p \notin spoilt' => Chances(p)' + Allowance(p) <= Chances(p) + Allowance(p)'
  BY <1>1
<1> QED  BY <1>2, NoCall

LEMMA OneMore ==
    ASSUME TypeOK, TypeOK', NEW p \in Pages, Paid(p), spoilt \subseteq spoilt', calls'[p] = calls[p],
           TurnsAhead(p)' \subseteq TurnsAhead(p), stops' = stops,
           edits' + audits' + faults' = edits + audits + faults + 1,
           p \notin spoilt' => Chances(p)' <= Chances(p) + TurnsOf(p)
    PROVE  Paid(p)'
<1>1. /\ Chances(p) \in Int /\ Chances(p)' \in Int /\ Allowance(p) \in Int /\ TurnsOf(p) \in Int
      /\ Allowance(p)' = Allowance(p) + TurnsOf(p)
  BY ChancesType, Allowances, TurnsType
<1>2. p \notin spoilt' => Chances(p)' + Allowance(p) <= Chances(p) + Allowance(p)'
  BY <1>1
<1> QED  BY <1>2, NoCall

\* The daemon's own visit decides what it may still ask for.
LEMMA SameChances ==
    ASSUME NEW p \in Pages, about'[p] = about[p], live' = live,
           \/ pc[Daemon] \notin {"baseline", "infer", "append"} /\ pc'[Daemon] \notin {"baseline", "infer", "append"}
           \/ /\ pc'[Daemon] = pc[Daemon] /\ job'[Daemon] = job[Daemon]
              /\ Stopped(Daemon)' <=> Stopped(Daemon)
              /\ job[Daemon].page = p => (Daemon \in drift' <=> Daemon \in drift)
    PROVE  Chances(p)' = Chances(p)
  BY DEF Chances, Asks, Missing, WillAppend, Got, TurnsOf

\* Never less than nothing.
LEMMA ChancesNat ==
    ASSUME TypeOK, Turn(Daemon), NEW p \in Pages
    PROVE  Chances(p) \in Nat
<1>1. TurnsOf(p) \in Nat \ {0} /\ Got(Daemon, p) \in Nat
  BY TurnsType, Gotten, HarvestAssumption
<1>2. Asks(p) => Got(Daemon, p) < TurnsOf(p)
  BY <1>1 DEF Asks, Got, Turn
<1> QED  BY <1>1, <1>2 DEF Chances

\* The model answers: one turn less is ahead.
LEMMA AnswerStep ==
    ASSUME TypeOK, TypeOK', \A y \in Procs : Turn(y), NEW p \in Pages, Paid(p), spoilt \subseteq spoilt',
           NEW x \in Procs,
           SummariseChunk(x) \/ (LastTurn(x) /\ (job' = job \/ job' = [job EXCEPT ![x].text = 0])),
           \/ UNCHANGED counters
           \/ edits' + audits' + faults' = edits + audits + faults + 1 /\ stops' = stops
    PROVE  Paid(p)'
<1> USE HarvestAssumption DEF Goes, phase, harvest, pages, records, content
<1>0. /\ TurnsOf(p) \in Nat \ {0} /\ TurnsOf(p)' = TurnsOf(p)
      /\ Allowance(p) \in Nat /\ Allowance(p)' \in Nat /\ Allowance(p) <= Allowance(p)'
  BY TurnsType, Allowances DEF TurnsOf
<1>d. /\ DOMAIN pc = Procs /\ DOMAIN job = Procs /\ DOMAIN calls = Pages /\ job[x] \in Job
      /\ job[x].answers \in Nat /\ job[x].page \in Pages
  BY DEF TypeOK, Job
<1>1. /\ pc[x] = "infer" /\ UNCHANGED <<about, live, drift, todo, full, stopping>> /\ ~Stopped(x)
      /\ job'[x].page = job[x].page /\ job[x].page \notin todo[x]
      /\ \A y \in Procs \ {x} : pc'[y] = pc[y] /\ job'[y] = job[y]
      /\ calls' = [calls EXCEPT ![job[x].page] = @ + 1]
  BY <1>d DEF SummariseChunk, LastTurn, Turn, Job
<1>2. \/ pc'[x] = "infer" /\ job'[x].answers = job[x].answers + 1
         /\ job[x].answers + 1 < TurnsOf(job[x].page)
      \/ pc'[x] = "append" /\ job[x].answers + 1 = TurnsOf(job[x].page)
  BY <1>d DEF SummariseChunk, LastTurn, Job
<1>3. CASE job[x].page # p
  <2>1. calls'[p] = calls[p]
    BY <1>d, <1>1, <1>3
  <2>2. TurnsAhead(p)' \subseteq TurnsAhead(p)
    BY <1>1, <1>3, FewerAhead, Gotten DEF Ahead, Got
  <2>3. /\ (Asks(p)' <=> Asks(p)) /\ (WillAppend(p)' <=> WillAppend(p)) /\ about'[p] = about[p]
        /\ Got(Daemon, p)' = Got(Daemon, p) /\ (Stopped(Daemon)' <=> Stopped(Daemon))
    BY <1>1, <1>2, <1>3 DEF Asks, WillAppend, Got, Stopped
  <2>4. Chances(p)' = Chances(p) /\ Chances(p) \in Int
    BY <1>0, <2>3, ChancesType DEF Chances, Missing
  <2> QED  BY <1>0, <2>1, <2>2, <2>4, NoCall
<1>4. CASE job[x].page = p
  <2>1. calls'[p] = calls[p] + 1 /\ calls[p] \in Nat
    BY <1>d, <1>1, <1>4 DEF TypeOK
  <2>2. (Missing(p)' <=> Missing(p)) /\ ~Stopped(x)'
    BY <1>1, <1>2 DEF Missing, WillAppend, Stopped
  <2>3. CASE x = Daemon
    <3>1. TurnsAhead(p)' \subseteq TurnsAhead(p)
      BY <1>1, <2>3, FewerAhead, Gotten DEF Ahead, Got
    <3>2. Chances(p)' = Chances(p) - 1 /\ Chances(p) \in Int
      <4>1. Asks(p) /\ Got(x, p) = job[x].answers
        BY <1>1, <1>4, <2>3 DEF Asks, Got
      <4>2. \/ Asks(p)' /\ Got(x, p)' = job[x].answers + 1
            \/ ~Asks(p)' /\ job[x].answers + 1 = TurnsOf(p)
        BY <1>1, <1>2, <1>4, <2>3 DEF Asks, Got
      <4> QED  BY <1>0, <1>1, <1>d, <2>2, <2>3, <4>1, <4>2 DEF Chances
    <3>3. IsFiniteSet(TurnsAhead(p)') /\ Cardinality(TurnsAhead(p)') <= Cardinality(TurnsAhead(p))
          /\ Cardinality(TurnsAhead(p)') \in Nat /\ Cardinality(TurnsAhead(p)) \in Nat
      <4>1. IsFiniteSet(TurnsAhead(p))
        BY DEF Paid
      <4> HIDE DEF TurnsAhead
      <4> QED  BY <3>1, <4>1, FS_Subset, FS_CardinalityType
    <3> QED  BY <1>0, <2>1, <3>2, <3>3 DEF Paid
  <2>4. CASE x # Daemon
    <3> DEFINE t == <<x, job[x].answers + 1>>
    <3>1. Chances(p)' = Chances(p) /\ Chances(p) \in Int
      <4>1. pc'[Daemon] = pc[Daemon] /\ job'[Daemon] = job[Daemon] /\ about'[p] = about[p] /\ live' = live
            /\ drift' = drift /\ (Stopped(Daemon)' <=> Stopped(Daemon))
        BY <1>1, <2>4 DEF Stopped
      <4> QED  BY <4>1, SameChances, ChancesType
    <3>2. TurnsAhead(p)' \subseteq TurnsAhead(p)
      <4>1. ASSUME NEW y \in Procs \ {Daemon}, Ahead(y, p)'
            PROVE  Ahead(y, p) /\ Got(y, p) <= Got(y, p)'
        BY <1>1, <1>2, <1>4, <1>d, <4>1, Gotten DEF Ahead, Got
      <4> QED  BY <4>1, FewerAhead
    <3>3. t \in TurnsAhead(p)
      <4>1. Ahead(x, p) /\ Got(x, p) = job[x].answers /\ job[x].answers + 1 \in 1..TurnsOf(p)
        BY <1>0, <1>1, <1>2, <1>4, <1>d DEF Ahead, Got
      <4> QED  BY <1>d, <2>4, <4>1 DEF TurnsAhead
    <3>4. t \notin TurnsAhead(p)'
      <4>1. Ahead(x, p)' => Got(x, p)' = job[x].answers + 1
        BY <1>1, <1>2, <1>4 DEF Ahead, Got
      <4>2. ~(t[2] > t[2])
        BY <1>d
      <4> QED  BY <1>d, <4>1, <4>2 DEF TurnsAhead
    <3>5. /\ IsFiniteSet(TurnsAhead(p)') /\ Cardinality(TurnsAhead(p)') <= Cardinality(TurnsAhead(p)) - 1
          /\ Cardinality(TurnsAhead(p)') \in Nat /\ Cardinality(TurnsAhead(p)) \in Nat
      <4>1. IsFiniteSet(TurnsAhead(p))
        BY DEF Paid
      <4> HIDE DEF TurnsAhead, t
      <4>2. IsFiniteSet(TurnsAhead(p) \ {t}) /\ Cardinality(TurnsAhead(p) \ {t}) = Cardinality(TurnsAhead(p)) - 1
        BY <3>3, <4>1, FS_RemoveElement
      <4>3. TurnsAhead(p)' \subseteq TurnsAhead(p) \ {t}
        BY <3>2, <3>4
      <4> QED  BY <4>1, <4>2, <4>3, FS_Subset, FS_CardinalityType
    <3> HIDE DEF t
    <3> QED  BY <1>0, <2>1, <3>1, <3>5 DEF Paid
  <2> QED  BY <2>3, <2>4
<1> QED  BY <1>3, <1>4

\* An append, certain or not: the index is there, or somebody has saved the page.
LEMMA AppendStep ==
    ASSUME TypeOK, TypeOK', NEW p \in Pages, Paid(p), spoilt \subseteq spoilt', UNCHANGED counters,
           p \notin spoilt' => p \notin spoilt /\ (HasHeading(p) <=> about[p] # 0),
           NEW x \in Procs, AppendIndex(x)
    PROVE  Paid(p)'
<1> USE HarvestAssumption DEF Goes, phase, harvest, pages, records, content
<1>0. TurnsOf(p) \in Nat \ {0} /\ TurnsOf(p)' = TurnsOf(p)
  BY TurnsType DEF TurnsOf
<1>d. DOMAIN pc = Procs /\ DOMAIN about = Pages /\ job[x].page \in Pages
  BY DEF TypeOK, Job
<1>1. /\ pc[x] = "append" /\ pc' = [pc EXCEPT ![x] = "row"]
      /\ UNCHANGED <<job, todo, live, calls, full, stopping>>
  BY DEF AppendIndex
<1>2. TurnsAhead(p)' \subseteq TurnsAhead(p)
  BY <1>1, <1>d, FewerAhead, Gotten DEF Ahead, Got
<1> SUFFICES ASSUME p \notin spoilt'  PROVE Chances(p)' <= Chances(p)
  BY <1>1, <1>2, NothingNew
<1>c. Chances(p) \in Int /\ Chances(p)' \in Int
  BY ChancesType
<1>3. CASE Appends(x) /\ job[x].page = p
  <2>1. about'[p] # 0
    BY <1>3, <1>d DEF Appends
  <2>2. ~Missing(p)' /\ (Asks(p)' <=> Asks(p)) /\ Got(Daemon, p)' = Got(Daemon, p)
        /\ (Stopped(Daemon)' <=> Stopped(Daemon))
    BY <1>1, <1>d, <2>1 DEF Missing, Asks, Got, Stopped
  <2> QED  BY <1>0, <2>2, Gotten DEF Chances
<1>4. CASE Appends(x) /\ job[x].page # p
  <2>1. about'[p] = about[p] /\ (job[Daemon].page = p => (Daemon \in drift' <=> Daemon \in drift))
    BY <1>4, <1>d DEF Appends, Drifted, TypeOK
  <2>2. CASE x = Daemon
    <3>1. (Asks(p)' <=> Asks(p)) /\ (WillAppend(p)' <=> WillAppend(p)) /\ ~Asks(p)
      BY <1>1, <1>4, <1>d, <2>2 DEF Asks, WillAppend
    <3> QED  BY <1>0, <2>1, <3>1 DEF Chances, Missing
  <2>3. CASE x # Daemon
    <3>1. Chances(p)' = Chances(p)
      BY <1>1, <1>d, <2>1, <2>3, SameChances DEF Stopped
    <3> QED  BY <1>c, <3>1
  <2> QED  BY <2>2, <2>3
<1>5. CASE ~(job[x].page \in live /\ x \notin drift /\ ~HasHeading(job[x].page))
  <2>1. about' = about /\ (x # Daemon => (Daemon \in drift' <=> Daemon \in drift))
    <3>1. about' = about /\ drift' = drift \ {x}
      BY <1>5 DEF AppendIndex
    <3> QED  BY <3>1
  <2>2. CASE x = Daemon
    <3>1. (Asks(p)' <=> Asks(p)) /\ (Missing(p)' <=> Missing(p)) /\ ~Asks(p)
      BY <1>1, <1>5, <1>d, <2>1, <2>2 DEF Asks, Missing, WillAppend
    <3> QED  BY <1>0, <3>1 DEF Chances
  <2>3. CASE x # Daemon
    <3>1. Chances(p)' = Chances(p)
      BY <1>1, <1>d, <2>1, <2>3, SameChances DEF Stopped
    <3> QED  BY <1>c, <3>1
  <2> QED  BY <2>2, <2>3
<1> QED  BY <1>3, <1>4, <1>5 DEF AppendIndex

\* An audit brings one visit of every page.
LEMMA AuditStepPaid ==
    ASSUME TypeOK, TypeOK', NEW p \in Pages, Paid(p), spoilt \subseteq spoilt', NEW x \in Procs, AuditBegins(x)
    PROVE  Paid(p)'
<1> USE HarvestAssumption DEF Goes
<1> DEFINE A == {x} \X (1..TurnsOf(p))
<1>0. TurnsOf(p) \in Nat \ {0} /\ TurnsOf(p)' = TurnsOf(p)
  BY TurnsType DEF TurnsOf
<1>1. audits' = audits + 1 /\ UNCHANGED <<edits, faults, stops, calls>> /\ x # Daemon
  BY DEF AuditBegins, HarvestBegins
<1>2. /\ pc[x] = "off" /\ pc' = [pc EXCEPT ![x] = "next"] /\ UNCHANGED <<about, live, drift, job, stopping>>
      /\ \A y \in Procs \ {x} : pc'[y] = pc[y] /\ todo'[y] = todo[y] /\ full'[y] = full[y]
  BY DEF AuditBegins, HarvestBegins, pages, records, content, TypeOK
<1>3. Chances(p)' = Chances(p) /\ Chances(p) \in Int
  BY <1>1, <1>2, SameChances, ChancesType DEF Stopped
<1>4. TurnsAhead(p)' \subseteq TurnsAhead(p) \cup A
  <2> SUFFICES ASSUME NEW t \in TurnsAhead(p)', t \notin A  PROVE t \in TurnsAhead(p)
    OBVIOUS
  <2>1. t \in (Procs \ {Daemon}) \X (1..TurnsOf(p)) /\ Ahead(t[1], p)' /\ t[2] > Got(t[1], p)'
    BY <1>0 DEF TurnsAhead
  <2>2. t[1] # x
    BY <2>1
  <2>3. Ahead(t[1], p) /\ Got(t[1], p) = Got(t[1], p)'
    BY <1>2, <2>1, <2>2 DEF Ahead, Got
  <2> QED  BY <2>1, <2>3 DEF TurnsAhead
<1>5. IsFiniteSet(A) /\ Cardinality(A) = TurnsOf(p)
  <2>1. IsFiniteSet({x}) /\ Cardinality({x}) = 1
    BY FS_Singleton
  <2>2. IsFiniteSet(1..TurnsOf(p)) /\ Cardinality(1..TurnsOf(p)) = TurnsOf(p)
    BY <1>0, FS_Interval
  <2> QED  BY <1>0, <2>1, <2>2, FS_Product
<1>6. /\ IsFiniteSet(TurnsAhead(p)') /\ Cardinality(TurnsAhead(p)') <= Cardinality(TurnsAhead(p)) + TurnsOf(p)
      /\ Cardinality(TurnsAhead(p)') \in Nat /\ Cardinality(TurnsAhead(p)) \in Nat
  <2>1. IsFiniteSet(TurnsAhead(p))
    BY DEF Paid
  <2> HIDE DEF A, TurnsAhead
  <2>2. IsFiniteSet(TurnsAhead(p) \cup A) /\ IsFiniteSet(TurnsAhead(p) \cap A)
        /\ Cardinality(TurnsAhead(p) \cup A) = Cardinality(TurnsAhead(p)) + Cardinality(A) - Cardinality(TurnsAhead(p) \cap A)
    BY <1>5, <2>1, FS_Union, FS_Subset
  <2>3. Cardinality(TurnsAhead(p) \cap A) \in Nat /\ Cardinality(TurnsAhead(p)) \in Nat
    BY <2>1, <2>2, FS_CardinalityType
  <2>4. IsFiniteSet(TurnsAhead(p)') /\ Cardinality(TurnsAhead(p)') <= Cardinality(TurnsAhead(p) \cup A)
    BY <1>4, <2>2, FS_Subset
  <2> QED  BY <1>0, <1>5, <2>2, <2>3, <2>4, FS_CardinalityType
<1>7. Allowance(p)' = Allowance(p) + TurnsOf(p) /\ Allowance(p) \in Nat /\ calls[p] \in Nat
  <2>1. edits' + audits' + faults' = edits + audits + faults + 1 /\ stops' = stops
    BY <1>1, Numbers
  <2> QED  BY <2>1, Allowances, Numbers
<1> QED  BY <1>0, <1>1, <1>3, <1>6, <1>7 DEF Paid

LEMMA PaidStep ==
    ASSUME TypeOK, TypeOK', \A x \in Procs : Turn(x), [Next]_vars, NEW p \in Pages, Paid(p)
    PROVE  Paid(p)'
<1> USE HarvestAssumption DEF Goes, Forget, More, phase, harvest, pages, records, content
<1>0. /\ edits \in Nat /\ audits \in Nat /\ faults \in Nat /\ stops \in Nat
      /\ TurnsOf(p) \in Nat \ {0} /\ TurnsOf(p)' = TurnsOf(p)
  BY Numbers, TurnsType DEF TurnsOf
<1>d. /\ DOMAIN pc = Procs /\ DOMAIN job = Procs /\ DOMAIN todo = Procs
      /\ DOMAIN about = Pages /\ DOMAIN calls = Pages /\ DOMAIN full = Procs
      /\ \A x \in Procs : job[x] \in Job
  BY DEF TypeOK
<1>s. spoilt \subseteq spoilt'
  BY SpoiltGrows
<1>h. p \notin spoilt' => p \notin spoilt /\ (HasHeading(p) <=> about[p] # 0)
  BY <1>s DEF HasHeading, TypeOK
<1>c. Chances(p) \in Int /\ Chances(p)' \in Int
  BY ChancesType
\* Steps that leave the page, the visits and the counters alone.
<1>1. CASE UNCHANGED <<about, live, drift, pc, todo, job, full, stopping, calls, counters>>
  <2>1. TurnsAhead(p)' = TurnsAhead(p) /\ Chances(p)' = Chances(p)
    BY <1>1 DEF TurnsAhead, TurnsOf, Ahead, Got, Chances, Asks, Missing, WillAppend, Stopped
  <2> QED  BY <1>1, <1>c, <1>s, <2>1, NothingNew
<1>2. ASSUME NEW x \in Procs, HarvestStep(x)  PROVE Paid(p)'
  <2>0. UNCHANGED counters
    BY <1>2 DEF HarvestStep, NextPage, SkipPage, RegexHarvest, ReadForModel, TakeBaseline, SummariseChunk, Summarise,
                LastTurn, StopSummary, AppendIndex, UpsertRow, HarvestEnds
  <2>1. ASSUME NEW q \in Pages, NextPage(x, q)  PROVE Paid(p)'
    <3>1. /\ pc[x] = "next" /\ pc'[x] \in {"next", "read"} /\ UNCHANGED <<about, live, drift, calls>>
          /\ \A y \in Procs \ {x} : pc'[y] = pc[y] /\ job'[y] = job[y] /\ todo'[y] = todo[y]
          /\ full' = full /\ stopping' = stopping
          /\ q \in todo[x] /\ todo'[x] = todo[x] \ {q} /\ (pc'[x] = "read" => job'[x].page = q)
      BY <1>d, <2>1 DEF NextPage
    <3>2. TurnsAhead(p)' \subseteq TurnsAhead(p)
      BY <3>1, FewerAhead, Gotten DEF Ahead, Got
    <3>3. Chances(p)' = Chances(p)
      BY <3>1, SameChances DEF Stopped
    <3> QED  BY <1>c, <1>s, <2>0, <3>1, <3>2, <3>3, NothingNew
  <2>2. CASE SkipPage(x) \/ RegexHarvest(x) \/ UpsertRow(x) \/ HarvestEnds(x)
    <3>1. /\ pc[x] \in {"read", "row", "next"} /\ pc'[x] \in {"next", "end"}
          /\ UNCHANGED <<about, live, drift, calls, full, stopping>> /\ todo'[x] \subseteq todo[x]
      BY <1>d, <2>2 DEF SkipPage, RegexHarvest, UpsertRow, HarvestEnds
    <3>2. \A y \in Procs \ {x} : pc'[y] = pc[y] /\ job'[y] = job[y] /\ todo'[y] = todo[y]
      BY <1>d, <2>2 DEF SkipPage, RegexHarvest, UpsertRow, HarvestEnds
    <3>3. TurnsAhead(p)' \subseteq TurnsAhead(p)
      BY <3>1, <3>2, FewerAhead, Gotten DEF Ahead, Got
    <3>4. Chances(p)' = Chances(p)
      BY <3>1, <3>2, SameChances DEF Stopped
    <3> QED  BY <1>c, <1>s, <2>0, <3>1, <3>3, <3>4, NothingNew
  <2>3. CASE ReadForModel(x)
    <3>1. /\ pc[x] = "read" /\ pc' = [pc EXCEPT ![x] = IF Stopped(x) THEN "next" ELSE "baseline"]
          /\ UNCHANGED <<todo, about, live, drift, calls, full, stopping>> /\ job[x].page \in live
          /\ about[job[x].page] = 0
      BY <2>3 DEF ReadForModel
    <3>2. /\ \A y \in Procs \ {x} : job'[y] = job[y]
          /\ ~Stopped(x) => job'[x].page = job[x].page /\ job'[x].answers = job[x].answers
      BY <1>d, <2>3 DEF ReadForModel, Job
    <3>3. TurnsAhead(p)' \subseteq TurnsAhead(p)
      BY <1>d, <3>1, <3>2, FewerAhead, Gotten DEF Ahead, Got
    <3>4. CASE x = Daemon /\ ~Stopped(x) /\ job[x].page = p
      <4>1. ~Asks(p) /\ ~WillAppend(p) /\ about[p] = 0
        BY <3>1, <3>4 DEF Asks, WillAppend
      <4>2. Asks(p)' /\ WillAppend(p)' /\ ~Stopped(x)' /\ Got(x, p)' = 0
        BY <1>d, <3>1, <3>2, <3>4 DEF Asks, WillAppend, Stopped, Got
      <4>3. Chances(p) = TurnsOf(p) /\ Chances(p)' = TurnsOf(p)
        BY <1>0, <3>1, <3>4, <4>1, <4>2 DEF Chances, Missing
      <4> QED  BY <1>0, <1>s, <2>0, <3>1, <3>3, <4>3, NothingNew
    <3>5. CASE x # Daemon \/ Stopped(x) \/ job[x].page # p
      <4>1. (Asks(p)' <=> Asks(p)) /\ (WillAppend(p)' <=> WillAppend(p)) /\ about'[p] = about[p]
        BY <1>d, <3>1, <3>2, <3>5 DEF Asks, WillAppend
      <4>2. Asks(p) => Got(Daemon, p)' = Got(Daemon, p)
        BY <1>d, <3>1, <3>2, <3>5, <4>1 DEF Asks, Got
      <4>3. Stopped(Daemon)' <=> Stopped(Daemon)
        BY <3>1 DEF Stopped
      <4>4. Chances(p)' = Chances(p)
        BY <1>0, <4>1, <4>2, <4>3 DEF Chances, Missing
      <4> QED  BY <1>c, <1>s, <2>0, <3>1, <3>3, <4>4, NothingNew
    <3> QED  BY <3>4, <3>5
  <2>4. CASE TakeBaseline(x)
    <3>1. /\ pc[x] = "baseline" /\ pc' = [pc EXCEPT ![x] = "infer"] /\ drift' = drift \ {x}
          /\ UNCHANGED <<about, live, job, todo, calls, full, stopping>> /\ job[x].answers = 0
      BY <2>4 DEF TakeBaseline, Turn
    <3>2. TurnsAhead(p)' \subseteq TurnsAhead(p)
      BY <1>d, <3>1, FewerAhead, Gotten DEF Ahead, Got
    <3>3. (Asks(p)' <=> Asks(p)) /\ (WillAppend(p)' <=> WillAppend(p)) /\ about'[p] = about[p]
          /\ Got(Daemon, p)' = Got(Daemon, p) /\ (Stopped(Daemon)' <=> Stopped(Daemon))
      BY <1>d, <3>1 DEF Asks, WillAppend, Got, Stopped
    <3>4. Chances(p)' = Chances(p)
      BY <1>0, <3>3 DEF Chances, Missing
    <3> QED  BY <1>c, <1>s, <2>0, <3>1, <3>2, <3>4, NothingNew
  <2>5. CASE Summarise(x) \/ SummariseChunk(x)
    BY <1>s, <2>0, <2>5, AnswerStep DEF Summarise
  <2>6. CASE StopSummary(x)
    <3>1. /\ x = Daemon /\ stopping /\ full[x] /\ pc[x] = "infer" /\ pc' = [pc EXCEPT ![x] = "next"]
          /\ UNCHANGED <<about, live, drift, todo, calls, full, stopping>> /\ \A y \in Procs \ {x} : job'[y] = job[y]
      BY <1>d, <2>6 DEF StopSummary, Stopped
    <3>2. TurnsAhead(p)' \subseteq TurnsAhead(p)
      BY <1>d, <3>1, FewerAhead, Gotten DEF Ahead, Got
    <3>3. ~Asks(p)' /\ (Chances(p)' = IF Missing(p)' THEN TurnsOf(p) ELSE 0)
      BY <1>0, <1>d, <3>1 DEF Chances, Asks
    <3>4. CASE job[x].page = p
      <4>1. Chances(p) >= TurnsOf(p) - job[x].answers + TurnsOf(p) - 1 /\ job[x].answers < TurnsOf(p)
            /\ job[x].answers \in Nat
        BY <1>0, <1>d, <3>1, <3>4 DEF Chances, Asks, Got, Stopped, Turn, Job
      <4> QED  BY <1>0, <1>c, <1>s, <2>0, <3>1, <3>2, <3>3, <4>1, NothingNew
    <3>5. CASE job[x].page # p
      <4>1. ~Asks(p) /\ (Missing(p)' <=> Missing(p))
        BY <1>d, <3>1, <3>5 DEF Asks, Missing, WillAppend
      <4> QED  BY <1>0, <1>s, <2>0, <3>1, <3>2, <3>3, <4>1, NothingNew DEF Chances
    <3> QED  BY <3>4, <3>5
  <2>7. CASE AppendIndex(x)
    BY <1>h, <1>s, <2>0, <2>7, AppendStep
  <2> QED  BY <1>2, <2>1, <2>2, <2>3, <2>4, <2>5, <2>6, <2>7 DEF HarvestStep
<1>3. ASSUME HarvestBegins(Daemon, "harvest", TRUE) \/ HarvestBegins(Daemon, "phase2", FALSE), UNCHANGED counters
      PROVE  Paid(p)'
  <2>0. /\ pc[Daemon] \in {"harvest", "phase2"} /\ pc' = [pc EXCEPT ![Daemon] = "next"]
        /\ UNCHANGED <<about, live, drift, job, calls>>
        /\ \A y \in Procs \ {Daemon} : todo'[y] = todo[y]
    BY <1>d, <1>3 DEF HarvestBegins
  <2>1. TurnsAhead(p)' \subseteq TurnsAhead(p) /\ calls' = calls
    BY <1>d, <2>0, FewerAhead, Gotten DEF Ahead, Got
  <2>2. Chances(p)' = Chances(p)
    BY <1>d, <2>0, SameChances
  <2> QED  BY <1>c, <1>s, <1>3, <2>1, <2>2, NothingNew
<1>4. ASSUME NEW x \in Procs, AuditBegins(x)  PROVE Paid(p)'
  BY <1>4, <1>s, AuditStepPaid
<1>5. ASSUME NEW x \in Procs, PageFails(x) \/ Kill(x) \/ HarvestFails(x)  PROVE Paid(p)'
  <2>1. /\ pc'[x] \in {"next", "off", "harvest", "cycle", "end"} /\ todo'[x] \subseteq todo[x]
        /\ \A y \in Procs \ {x} : pc'[y] = pc[y] /\ todo'[y] = todo[y] /\ job'[y] = job[y] /\ full'[y] = full[y]
        /\ UNCHANGED <<about, live, drift, calls, stopping, edits, audits, stops>> /\ faults' = faults + 1
    BY <1>d, <1>5 DEF PageFails, Kill, HarvestFails, Fault
  <2>2. TurnsAhead(p)' \subseteq TurnsAhead(p)
    <3>1. ASSUME NEW y \in Procs \ {Daemon}, y # x, Ahead(y, p)'
          PROVE  Ahead(y, p) /\ Got(y, p) <= Got(y, p)'
      BY <2>1, <3>1, Gotten DEF Ahead, Got
    <3>2. ASSUME Ahead(x, p)'
          PROVE  Ahead(x, p) /\ Got(x, p) <= Got(x, p)'
      <4>1. p \in todo[x] /\ Got(x, p)' = 0
        BY <2>1, <3>2 DEF Ahead, Got
      <4>2. Got(x, p) = 0
        BY <4>1 DEF Got, Turn
      <4> QED  BY <4>1, <4>2 DEF Ahead
    <3> QED  BY <3>1, <3>2, FewerAhead
  <2>3. CASE x = Daemon
    <3>1. ~Asks(p)' /\ Chances(p)' <= TurnsOf(p)
      BY <1>0, <2>1, <2>3 DEF Chances, Asks
    <3>2. Chances(p) >= 0
      BY <1>0, ChancesNat
    <3> QED  BY <1>0, <1>c, <1>s, <2>1, <2>2, <3>1, <3>2, OneMore
  <2>4. CASE x # Daemon
    <3>1. Chances(p)' = Chances(p)
      BY <2>1, <2>4, SameChances DEF Stopped
    <3> QED  BY <1>0, <1>c, <1>s, <2>1, <2>2, <3>1, OneMore
  <2> QED  BY <2>3, <2>4
<1>6. ASSUME NEW x \in Procs, EmptyAnswer(x)  PROVE Paid(p)'
  <2>1. edits' + audits' + faults' = edits + audits + faults + 1 /\ stops' = stops
    BY <1>0, <1>6 DEF EmptyAnswer, Fault
  <2> QED  BY <1>6, <1>s, <2>1, AnswerStep DEF EmptyAnswer
<1>7. ASSUME NEW q \in Pages, Edit(q) \/ Delete(q) \/ Create(q)  PROVE Paid(p)'
  <2>1. UNCHANGED <<pc, todo, job, full, calls, stopping, audits, faults, stops>> /\ edits' = edits + 1
    BY <1>7 DEF Edit, Delete, Create
  <2>2. TurnsAhead(p)' \subseteq TurnsAhead(p)
    BY <2>1, FewerAhead, Gotten DEF Ahead, Got
  <2>3. Chances(p)' <= Chances(p) + TurnsOf(p)
    <3>1. /\ Asks(p)' <=> Asks(p)
          /\ Got(Daemon, p)' = Got(Daemon, p) /\ (Stopped(Daemon)' <=> Stopped(Daemon))
      BY <2>1 DEF Asks, Got, Stopped
    <3> QED  BY <1>0, <3>1, Gotten DEF Chances
  <2> QED  BY <1>0, <1>s, <2>1, <2>2, <2>3, OneMore
<1>8. ASSUME NEW q \in Pages, IndexPage(q) \/ IndexFails(q)  PROVE Paid(p)'
  <2>1. pc[Daemon] = "phase2" /\ UNCHANGED <<pc, todo, job, full, calls, stopping, live, edits, audits, stops>>
        /\ (faults' = faults \/ faults' = faults + 1)
    BY <1>8 DEF IndexPage, IndexFails, Fault, counters
  <2>2. TurnsAhead(p)' \subseteq TurnsAhead(p)
    BY <2>1, FewerAhead, Gotten DEF Ahead, Got
  <2>3. about'[p] = about[p] \/ about'[p] # 0
    <3>1. CASE IndexPage(q)
      <4>1. text[q] # 0 /\ (about' = about \/ about' = [about EXCEPT ![q] = text[q]])
        BY <3>1 DEF IndexPage, Pending
      <4> QED  BY <1>d, <4>1
    <3> QED  BY <1>8, <3>1 DEF IndexFails
  <2>4. Chances(p)' <= Chances(p)
    BY <1>0, <2>1, <2>3 DEF Chances, Asks, Missing, WillAppend
  <2> QED  BY <1>0, <1>c, <1>s, <2>1, <2>2, <2>4, NothingNew, OneMore DEF counters
<1>9. ASSUME \/ Start \/ Hydrate \/ PipelineEnds \/ RefreshEnds \/ Rehydrate \/ SkipPhase2 \/ Prune \/ StopPhase2 \/ Finalize
             \/ \E x \in Procs : AuditEnds(x)
      PROVE  Paid(p)'
  <2>1. UNCHANGED <<about, live, todo, job, calls, counters, drift>>
    BY <1>9 DEF Start, Hydrate, Hydrates, PipelineEnds, RefreshEnds, Rehydrate, SkipPhase2, Prune, StopPhase2, Finalize, AuditEnds
  <2>2. \E x \in Procs, there \in {"boot", "harvest", "idle", "cycle", "phase2", "prune", "off"} :
          /\ pc' = [pc EXCEPT ![x] = there]
          /\ \/ x # Daemon /\ full' = full /\ stopping' = stopping
             \/ x = Daemon /\ pc[x] \notin {"baseline", "infer", "append"}
    BY <1>9 DEF Start, Hydrate, Hydrates, PipelineEnds, RefreshEnds, Rehydrate, SkipPhase2, Prune, StopPhase2, Finalize, AuditEnds
  <2>3. TurnsAhead(p)' \subseteq TurnsAhead(p)
    <3>1. PICK x \in Procs, there \in {"boot", "harvest", "idle", "cycle", "phase2", "prune", "off"} :
            /\ pc' = [pc EXCEPT ![x] = there]
            /\ x # Daemon => pc[x] = "end"
      BY <1>9 DEF Start, Hydrate, Hydrates, PipelineEnds, RefreshEnds, Rehydrate, SkipPhase2, Prune, StopPhase2, Finalize,
                  AuditEnds
    <3>2. ASSUME NEW y \in Procs \ {Daemon}, Ahead(y, p)'
          PROVE  Ahead(y, p) /\ Got(y, p) <= Got(y, p)'
      <4>1. CASE y = x
        <5>1. pc[y] = "end" /\ pc'[y] = there
          BY <1>d, <3>1, <4>1
        <5>2. p \in todo[y] /\ Got(y, p)' = 0 /\ Got(y, p) = 0
          BY <2>1, <3>2, <5>1 DEF Ahead, Got
        <5> QED  BY <5>2 DEF Ahead
      <4>2. CASE y # x
        <5>1. pc'[y] = pc[y]
          BY <1>d, <3>1, <4>2
        <5>2. Ahead(y, p) /\ Got(y, p)' = Got(y, p)
          BY <2>1, <3>2, <5>1 DEF Ahead, Got
        <5> QED  BY <5>2, Gotten
      <4> QED  BY <4>1, <4>2
    <3> QED  BY <3>2, FewerAhead
  <2>4. Chances(p)' = Chances(p)
    BY <1>d, <2>1, <2>2, SameChances DEF Stopped
  <2> QED  BY <1>c, <1>s, <2>1, <2>3, <2>4, NothingNew
<1>10. CASE Damage
  <2>1. UNCHANGED <<about, live, drift, pc, todo, job, full, stopping, calls, edits, audits, stops>> /\ faults' = faults + 1
    BY <1>10 DEF Damage, Fault
  <2>2. TurnsAhead(p)' = TurnsAhead(p) /\ Chances(p)' = Chances(p)
    BY <2>1 DEF TurnsAhead, TurnsOf, Ahead, Got, Chances, Asks, Missing, WillAppend, Stopped
  <2> QED  BY <1>0, <1>c, <1>s, <2>1, <2>2, OneMore
<1>11. CASE RequestStop
  <2>1. UNCHANGED <<about, live, drift, pc, todo, job, full, calls, edits, audits, faults>> /\ stops' = stops + 1
    BY <1>11 DEF RequestStop
  <2>2. TurnsAhead(p)' = TurnsAhead(p)
    BY <2>1 DEF TurnsAhead, TurnsOf, Ahead, Got
  <2>3. Chances(p)' <= Chances(p) + TurnsOf(p) - 1
    <3>1. ~Stopped(Daemon)
      BY <1>11 DEF RequestStop, Stopped
    <3>2. (Asks(p)' <=> Asks(p)) /\ (Missing(p)' <=> Missing(p)) /\ Got(Daemon, p)' = Got(Daemon, p)
      BY <2>1 DEF Asks, Missing, WillAppend, Got
    <3> QED  BY <1>0, <3>1, <3>2, Gotten DEF Chances
  <2>4. Allowance(p)' = Allowance(p) + TurnsOf(p) - 1 /\ Allowance(p) \in Nat
    BY <2>1, Allowances
  <2> QED  BY <1>0, <1>c, <1>s, <2>1, <2>2, <2>3, <2>4, NoCall
<1> QED
  BY <1>1, <1>2, <1>3, <1>4, <1>5, <1>6, <1>7, <1>8, <1>9, <1>10, <1>11
     DEF Next, DaemonStep, AuditStep, vars, RunBootstrap, Refresh, ReleaseMemory, Tick

\* A page that never lost its summary behind its heading takes the turns of
\* one summary, and those of one more at the most for every save of the human,
\* every failure and every audit; a stop makes it drop less than one summary.
THEOREM HarvestPaysOnce == Spec => []SummaryIsPaidOnce
<1>1. TypeOK /\ PaidInv => SummaryIsPaidOnce
  <2> SUFFICES ASSUME TypeOK, PaidInv, NEW p \in Pages \ spoilt  PROVE calls[p] <= Allowance(p)
    BY DEF SummaryIsPaidOnce, Allowance
  <2>1. Paid(p)
    BY DEF PaidInv
  <2>2. Cardinality(TurnsAhead(p)) \in Nat
    <3>1. IsFiniteSet(TurnsAhead(p))
      BY <2>1 DEF Paid
    <3> HIDE DEF TurnsAhead
    <3> QED  BY <3>1, FS_CardinalityType
  <2>3. Chances(p) \in Nat
    <3>1. Turn(Daemon)
      BY HarvestAssumption DEF PaidInv
    <3> QED  BY <3>1, ChancesNat
  <2>4. calls[p] \in Nat /\ Allowance(p) \in Int
    BY Numbers, TurnsType DEF Allowance
  <2> QED  BY <2>1, <2>2, <2>3, <2>4 DEF Paid
<1>2. Init => TypeOK /\ PaidInv
  BY TypeInit, PaidInit
<1>3. TypeOK /\ PaidInv /\ [Next]_vars => (TypeOK /\ PaidInv)'
  <2> SUFFICES ASSUME TypeOK, PaidInv, [Next]_vars  PROVE TypeOK' /\ PaidInv'
    OBVIOUS
  <2>1. TypeOK' /\ \A x \in Procs : Turn(x)'
    BY TypeStep, TurnStep DEF PaidInv
  <2>2. \A p \in Pages : Paid(p)'
    BY <2>1, PaidStep DEF PaidInv
  <2> QED  BY <2>1, <2>2 DEF PaidInv
<1> QED  BY <1>1, <1>2, <1>3, PTL DEF Spec
=============================================================================
