--------------------------- MODULE MasterCatalog ----------------------------
(***************************************************************************)
(* src/graph/master_catalog.py: the catalog of page summaries, one JSON    *)
(* file with a backup, cached by every process that has loaded it.         *)
(*                                                                         *)
(* What is abstracted: a row is the text its summary is about (0 when the  *)
(* page has none) and the whole second the row was stamped with; alias     *)
(* maps and the lock inside one process are left out.                      *)
(***************************************************************************)
EXTENDS Naturals, FiniteSets

CONSTANTS
    Pages,
    Procs,          \* processes that use the catalog
    MaxText,        \* bound: texts a page can have
    MaxSec,         \* bound: seconds of the clock
    Damages,        \* what becomes of a damaged file: "malformed", "notObject"
    NoRow

Texts == 0..MaxText         \* 0: empty, or none
Seconds == 0..MaxSec
CatalogEntry == [about : Texts, sec : Seconds]
AllRows == [Pages -> CatalogEntry \cup {NoRow}]
NoRows == [p \in Pages |-> NoRow]
FileKinds == {"missing", "good"} \cup Damages

ASSUME CatalogAssumption ==
    /\ MaxText \in Nat \ {0} /\ MaxSec \in Nat
    /\ Damages \subseteq {"malformed", "notObject"}
    /\ NoRow \notin CatalogEntry

VARIABLES
    file,       \* disk: what master_catalog.json is
    rows,       \* disk: the rows of a good file
    bak,        \* disk: what its backup is
    bakRows,    \* disk: the rows of a good backup
    cached,     \* the MasterCatalog each process has in _loaded
    current     \* processes whose _catalog_mtime_ns is the mtime of the file

disk == <<file, rows, bak, bakRows>>
catalogVars == <<file, rows, bak, bakRows, cached, current>>

\* persist_allowed is FALSE for a catalog whose load did not succeed.
MasterCatalogs == [loaded : BOOLEAN, persist : BOOLEAN, rows : AllRows]
Catalog(r, persist) == [loaded |-> TRUE, persist |-> persist, rows |-> r]
Unloaded == [loaded |-> FALSE, persist |-> FALSE, rows |-> NoRows]

CatalogTypeOK ==
    /\ file \in FileKinds /\ bak \in FileKinds
    /\ rows \in AllRows /\ bakRows \in AllRows
    /\ cached \in [Procs -> MasterCatalogs]
    /\ current \subseteq Procs

CatalogInit ==
    /\ file = "missing" /\ rows = NoRows /\ bak = "missing" /\ bakRows = NoRows
    /\ cached = [x \in Procs |-> Unloaded] /\ current = {}

-----------------------------------------------------------------------------
(* load_master_catalog *)

Reloads(x, force) ==
    \/ force \/ ~cached[x].loaded
    \/ file # "missing" /\ x \notin current

\* _load_catalog_payload_from_disk
FromDisk ==
    CASE file = "missing"                        -> Catalog(NoRows, TRUE)
      [] file = "good"                           -> Catalog(rows, TRUE)
      [] file = "malformed" /\ bak = "good"      -> Catalog(bakRows, TRUE)
      [] file = "malformed" /\ bak # "good"      -> Catalog(NoRows, FALSE)
      [] file = "notObject"                      -> Catalog(NoRows, FALSE)

load_master_catalog(x, force) == IF Reloads(x, force) THEN FromDisk ELSE cached[x]

\* _quarantine_corrupt_catalog: a malformed file without a good backup is moved away.
Quarantined == file = "malformed" /\ bak # "good"

\* The file after a load.
FileAfterLoad(x, force) ==
    IF Reloads(x, force) /\ Quarantined THEN "missing" ELSE file

\* Then the file is copied over the backup, the malformed one as well.
BackupAfterLoad(x, force) ==
    /\ bak' = IF Reloads(x, force) /\ file \in {"good", "malformed"} /\ ~Quarantined
              THEN file ELSE bak
    /\ bakRows' = IF Reloads(x, force) /\ file = "good" THEN rows ELSE bakRows

Knows(x, force) ==
    IF Reloads(x, force) /\ file # "missing" /\ ~Quarantined THEN current \cup {x} ELSE current

-----------------------------------------------------------------------------
(* A load, a change of the rows, and a save of what came out *)

\* The process x keeps catalog c and does not save it.
Keeps(x, force, c) ==
    /\ cached' = [cached EXCEPT ![x] = c]
    /\ file' = FileAfterLoad(x, force)
    /\ current' = Knows(x, force)
    /\ BackupAfterLoad(x, force)
    /\ UNCHANGED rows

\* MasterCatalog.save refuses a catalog whose load did not succeed.
Saves(x, force, c) ==
    IF c.persist
    THEN /\ cached' = [cached EXCEPT ![x] = c]
         /\ file' = "good" /\ rows' = c.rows
         /\ current' = {x}
         /\ BackupAfterLoad(x, force)
    ELSE Keeps(x, force, c)

\* The save of the catalog the process holds, without a load before it.
SavesLoaded(x) ==
    IF cached[x].persist
    THEN /\ file' = "good" /\ rows' = cached[x].rows
         /\ current' = {x}
         /\ UNCHANGED <<cached, bak, bakRows>>
    ELSE UNCHANGED catalogVars

upsert(c, p, entry) == [c EXCEPT !.rows[p] = entry]
remove(c, p) == [c EXCEPT !.rows[p] = NoRow]

\* Mutant: a row is fresh when its page has one.
needs_row(c, p, sec) == c.rows[p] = NoRow

\* Whole seconds are compared.
needs_refresh(c, p, sec) == c.rows[p] = NoRow \/ c.rows[p].sec # sec

prune_missing_pages(c, live) ==
    [c EXCEPT !.rows = [p \in Pages |-> IF p \in live THEN c.rows[p] ELSE NoRow]]

\* unload_master_catalog; the end of a process.
Unloads(x) ==
    /\ cached' = [cached EXCEPT ![x] = Unloaded]
    /\ UNCHANGED <<file, rows, bak, bakRows, current>>

\* The file is found damaged.
DamageCatalog ==
    /\ file = "good"
    /\ file' \in Damages /\ rows' = NoRows
    /\ current' = {}
    /\ UNCHANGED <<bak, bakRows, cached>>
=============================================================================
