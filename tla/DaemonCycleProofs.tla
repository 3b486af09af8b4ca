------------------------- MODULE DaemonCycleProofs -------------------------
(***************************************************************************)
(* Theorems on DaemonCycle, for every finite set of pages and every bound: *)
(* types, one index per page, what a crash loses, that the daemon does not *)
(* trigger itself, and that its payloads are fresh without the modules.    *)
(* And on SemanticClusters, by whose map a cycle groups its pages, for     *)
(* every catalog, every similarity graph on it and every bound: no page is *)
(* lost or doubled between the Louvain communities and the clusters, none  *)
(* of which is too large, and a group begins with its own neighborhood.    *)
(***************************************************************************)
EXTENDS DaemonCycle, SemanticClusters, FiniteSetTheorems, WellFoundedInduction, TLAPS

-----------------------------------------------------------------------------
(* Types.  A page is in the daemon's hand from the start of its turn, or of *)
(* its quarantine, to the checkpoint that ends it.                          *)

Asking == {"snapshot", "content", "modules", "reread", "resnapshot", "infer"}
Turn == Asking \cup {"apply", "quarantined", "record", "checkpoint"}
Quarantine == {"quarantine", "settle"}

InHand ==
    /\ IF pc \in Turn \cup Quarantine THEN cur \in Pages \ todo /\ start \in Nat ELSE cur = None
    /\ pc \in Quarantine => budget > 0
    /\ pc \in Asking => turns < budget

\* A record, and a ledger with one more.
LEMMA PutTypes ==
    ASSUME TypeOK, NEW p \in Pages, NEW s \in Statuses, NEW m \in Nat, Put(p, s, m)
    PROVE  /\ files' \in [Pages -> FileState \cup {None}]
           /\ Record(s, m) \in FileState /\ files'[p] = Record(s, m)
           /\ \A q \in Pages \ {p} : files'[q] = files[q]
<1>1. Record(s, m) \in FileState
  BY DEF Record, FileState
<1> QED  BY <1>1 DEF Put, TypeOK

LEMMA CheckpointTypes ==
    ASSUME TypeOK, NEW f \in [Pages -> FileState \cup {None}], SaveCheckpoint(f)
    PROVE  saved' \in [Pages -> FileState \cup {None}] /\ unsaved' \in BOOLEAN /\ faults' \in Nat
<1>1. unsaved' \in BOOLEAN
  BY Zenon DEF SaveCheckpoint
<1>2. saved' \in [Pages -> FileState \cup {None}] /\ faults' \in Nat
  <2>1. saved' = f \/ saved' = saved
    BY DEF SaveCheckpoint
  <2>2. faults' = faults \/ faults' = faults + 1
    BY DEF SaveCheckpoint
  <2> QED  BY <2>1, <2>2 DEF TypeOK
<1> QED  BY <1>1, <1>2

LEMMA SaveTypes ==
    ASSUME TypeOK, NEW f \in [Pages -> FileState \cup {None}], NEW b \in {"no", "complete", "failed"}, NEW next \in PCs,
           SaveOrDie(f, b, next)
    PROVE  /\ saved' \in [Pages -> FileState \cup {None}] /\ savedBoot' \in {"no", "complete", "failed"}
           /\ unsaved' \in BOOLEAN /\ faults' \in Nat /\ pc' \in {next, "final"} /\ pc' \in PCs
  BY DEF SaveOrDie, TypeOK, PCs

LEMMA BootTypes ==
    ASSUME TypeOK, NEW S, BootPages(S)
    PROVE  /\ sections' \in [Pages -> Nat] /\ mtime' \in [Pages -> Nat] /\ UNCHANGED <<text, human>>
  BY DEF BootPages, TypeOK

LEMMA CatalogTypes == ASSUME TypeOK, NEW ok \in BOOLEAN, CatalogMayBecome(ok)  PROVE catalogOk' \in BOOLEAN
  BY DEF CatalogMayBecome, TypeOK

LEMMA MtimeTypes == ASSUME TypeOK, NEW p \in Pages, start \in Nat  PROVE MtimeNow(p) \in Nat
  BY DEF MtimeNow, TypeOK

LEMMA TypeStep == TypeOK /\ InHand /\ [Next]_vars => TypeOK'
<1> SUFFICES ASSUME TypeOK, InHand, [Next]_vars  PROVE TypeOK'
  OBVIOUS
<1> USE DaemonCycleAssumption DEF pageVars, diskVars, turnVars, loopVars, counts
<1>0. {"processed", "skipped", "error", "lock_backoff"} = Statuses
  BY DEF Statuses
<1>1. CASE run_bootstrap_pipeline
  <2>1. sections' \in [Pages -> Nat] /\ mtime' \in [Pages -> Nat] /\ UNCHANGED <<text, human>>
    BY <1>1, BootTypes DEF run_bootstrap_pipeline
  <2>2. catalogOk' \in BOOLEAN /\ boot' \in {"no", "complete", "failed"}
    BY <1>1, CatalogTypes DEF run_bootstrap_pipeline, TypeOK
  <2>3. files \in [Pages -> FileState \cup {None}] /\ (IF stop THEN "final" ELSE "scan") \in PCs
    BY DEF TypeOK, PCs
  <2>4. SaveOrDie(files, boot', IF stop THEN "final" ELSE "scan")
    BY <1>1 DEF run_bootstrap_pipeline
  <2>5. /\ saved' \in [Pages -> FileState \cup {None}] /\ savedBoot' \in {"no", "complete", "failed"}
        /\ unsaved' \in BOOLEAN /\ faults' \in Nat /\ pc' \in PCs
    BY <2>2, <2>3, <2>4 DEF SaveOrDie, TypeOK, PCs
  <2> QED  BY <1>1, <2>1, <2>2, <2>5 DEF run_bootstrap_pipeline, TypeOK
<1>2. CASE Scan
  <2>1. boot' \in {"no", "complete", "failed"} /\ files' \in [Pages -> FileState \cup {None}]
    BY <1>2 DEF Scan, TypeOK
  <2>2. todo' \subseteq Pages /\ \E next \in PCs : SaveOrDie(files', boot', next)
    BY <1>2 DEF Scan, PCs
  <2>3. /\ saved' \in [Pages -> FileState \cup {None}] /\ savedBoot' \in {"no", "complete", "failed"}
        /\ unsaved' \in BOOLEAN /\ faults' \in Nat /\ pc' \in PCs
    BY <2>1, <2>2 DEF SaveOrDie, TypeOK, PCs
  <2> QED  BY <1>2, <2>1, <2>2, <2>3 DEF Scan, TypeOK
<1>3. CASE RefreshCatalog
  <2>1. sections' \in [Pages -> Nat] /\ mtime' \in [Pages -> Nat] /\ UNCHANGED <<text, human>>
    BY <1>3, BootTypes DEF RefreshCatalog
  <2>2. catalogOk' \in BOOLEAN
    BY <1>3, CatalogTypes DEF RefreshCatalog
  <2>3. /\ saved' \in [Pages -> FileState \cup {None}] /\ savedBoot' \in {"no", "complete", "failed"}
        /\ unsaved' \in BOOLEAN /\ faults' \in Nat /\ pc' \in PCs
    BY <1>3 DEF RefreshCatalog, SaveOrDie, TypeOK, PCs
  <2> QED  BY <1>3, <2>1, <2>2, <2>3 DEF RefreshCatalog, TypeOK
<1>4. ASSUME NEW p \in Pages, FastTrack(p)  PROVE TypeOK'
  <2>1. CASE text[p] = "empty" \/ (text[p] = "text" /\ sections[p] > 0 /\ boot # "complete")
    <3>1. Put(p, "skipped", mtime[p]) /\ mtime[p] \in Nat /\ SaveCheckpoint(files') /\ budget' = budget - 1 /\ budget > 0
      BY <1>4, <2>1 DEF FastTrack, TypeOK
    <3>2. files' \in [Pages -> FileState \cup {None}]
      BY <1>0, <3>1, PutTypes
    <3>3. saved' \in [Pages -> FileState \cup {None}] /\ unsaved' \in BOOLEAN /\ faults' \in Nat
      BY <3>1, <3>2, CheckpointTypes
    <3> QED  BY <1>4, <3>1, <3>2, <3>3 DEF FastTrack, TypeOK
  <2>2. CASE ~(text[p] = "empty" \/ (text[p] = "text" /\ sections[p] > 0 /\ boot # "complete"))
    BY <1>4, <2>2 DEF FastTrack, TypeOK
  <2> QED  BY <2>1, <2>2
<1>5. ASSUME NEW p \in Pages, FastTrackMalformed(p)  PROVE TypeOK'
  BY <1>5 DEF FastTrackMalformed, TypeOK, PCs
<1>6. CASE QuarantineWrites \/ CommitMalformed \/ AnswerMalformed
  BY <1>6 DEF QuarantineWrites, CommitMalformed, AnswerMalformed, TypeOK, PCs, InHand, Turn, Quarantine
<1>7. CASE QuarantineSettles
  <2>1. cur \in Pages /\ MtimeNow(cur) \in Nat /\ budget > 0
    BY <1>7, MtimeTypes DEF QuarantineSettles, InHand, Quarantine
  <2>2. files' \in [Pages -> FileState \cup {None}]
    BY <1>0, <1>7, <2>1, PutTypes DEF QuarantineSettles
  <2>3. saved' \in [Pages -> FileState \cup {None}] /\ unsaved' \in BOOLEAN /\ faults' \in Nat
    BY <1>7, <2>2, CheckpointTypes DEF QuarantineSettles
  <2> QED  BY <1>7, <2>1, <2>2, <2>3 DEF QuarantineSettles, TypeOK, PCs
<1>8. CASE Relist
  BY <1>8 DEF Relist, list_pending_files, TypeOK, PCs
<1>9. ASSUME NEW p \in Pages, BeginPage(p)  PROVE TypeOK'
  <2>1. CASE Exists(p)
    BY <1>9, <2>1, CheckpointTypes DEF BeginPage, TakeTurn, TypeOK, PCs
  <2>2. CASE ~Exists(p)
    BY <1>9, <2>2 DEF BeginPage, TakeTurn, TypeOK, PCs
  <2> QED  BY <2>1, <2>2
<1>10. CASE Snapshot \/ ReadContent
  <2>1. cur \in Pages
    BY <1>10 DEF Snapshot, ReadContent, InHand, Turn, Asking
  <2> QED  BY <1>10, <2>1 DEF Snapshot, ReadContent, TypeOK, PCs
<1>11. CASE RunModules
  <2>1. PICK S \in SUBSET {p \in Pages : text[p] = "text"} :
          /\ touches' = touches + Cardinality(S)
          /\ mtime' = [p \in Pages |-> IF p \in S THEN mtime[p] + 1 ELSE mtime[p]]
          /\ commits' = [p \in Pages |-> IF p \in S THEN 0 ELSE commits[p]]
    BY <1>11 DEF RunModules
  <2>2. Cardinality(S) \in Nat
    BY <2>1, FS_Subset, FS_CardinalityType
  <2>3. saved' \in [Pages -> FileState \cup {None}] /\ unsaved' \in BOOLEAN /\ faults' \in Nat
    BY <1>11, CheckpointTypes DEF RunModules, TypeOK
  <2>4. mtime' \in [Pages -> Nat] /\ commits' \in [Pages -> Nat] /\ touches' \in Nat
    BY <2>1, <2>2 DEF TypeOK
  <2> QED  BY <1>11, <2>3, <2>4 DEF RunModules, TypeOK, PCs
<1>12. CASE Infer
  <2>1. cur \in Pages /\ start \in Nat /\ turns < budget
    BY <1>12 DEF Infer, InHand, Turn, Asking
  <2>2. files' \in [Pages -> FileState \cup {None}]
    BY <1>0, <1>12, <2>1, PutTypes DEF Infer, TypeOK
  <2>3. turns' \in {turns, turns + 1} /\ pc' \in {"checkpoint", "apply"}
    BY <1>12 DEF Infer
  <2>4. turns' \in 0..MaxFiles
    BY <2>1, <2>3 DEF TypeOK
  <2> QED  BY <1>12, <2>2, <2>3, <2>4 DEF Infer, TypeOK, PCs
<1>13. CASE Commit
  <2>1. cur \in Pages
    BY <1>13 DEF Commit, CommitIndex, InHand, Turn
  <2> QED  BY <1>13, <2>1 DEF Commit, CommitIndex, TypeOK, PCs
<1>14. CASE CommitAborts \/ ScanFails \/ StopSignal \/ Wake
  <2>1. CASE StopSignal
    <3>1. stop' \in BOOLEAN
      BY <2>1, Zenon DEF StopSignal
    <3> QED  BY <2>1, <3>1 DEF StopSignal, TypeOK
  <2>2. CASE CommitAborts \/ ScanFails \/ Wake
    BY <2>2 DEF CommitAborts, ScanFails, Wake, TypeOK, PCs
  <2> QED  BY <1>14, <2>1, <2>2
<1>15. CASE CommitLocked \/ RecordSkipped \/ RecordProcessed \/ RecordFails
  <2>1. cur \in Pages /\ start \in Nat /\ MtimeNow(cur) \in Nat /\ mtime[cur] \in Nat
    <3>1. cur \in Pages /\ start \in Nat
      BY <1>15 DEF CommitLocked, RecordSkipped, RecordProcessed, RecordFails, InHand, Turn
    <3> QED  BY <3>1, MtimeTypes DEF TypeOK
  <2>2. \E s \in Statuses, m \in Nat : Put(cur, s, m)
    BY <1>0, <1>15, <2>1 DEF CommitLocked, RecordSkipped, RecordProcessed, RecordFails
  <2>3. files' \in [Pages -> FileState \cup {None}]
    BY <2>1, <2>2, PutTypes
  <2> QED  BY <1>15, <2>3 DEF CommitLocked, RecordSkipped, RecordProcessed, RecordFails, TypeOK, PCs
<1>16. CASE Checkpoint
  <2>1. saved' \in [Pages -> FileState \cup {None}] /\ unsaved' \in BOOLEAN /\ faults' \in Nat
    BY <1>16, CheckpointTypes DEF Checkpoint, TypeOK
  <2> QED  BY <1>16, <2>1 DEF Checkpoint, TypeOK, PCs
<1>17. CASE EndCycle
  BY <1>17 DEF EndCycle, SaveOrDie, TypeOK, PCs
<1>18. CASE Reload
  BY <1>18 DEF Reload, TypeOK, PCs
<1>19. CASE Finalize \/ Crash
  <2>1. unsaved' \in BOOLEAN /\ stop' \in BOOLEAN
    BY <1>19, Zenon DEF Finalize, Crash, Forget
  <2>2. saved' \in [Pages -> FileState \cup {None}] /\ savedBoot' \in {"no", "complete", "failed"} /\ faults' \in Nat
    BY <1>19 DEF Finalize, Crash, TypeOK
  <2>3. /\ UNCHANGED <<pageVars, catalogOk, commits, edits, touches>> /\ Forget
    BY <1>19 DEF Finalize, Crash
  <2> QED  BY <2>1, <2>2, <2>3 DEF Forget, TypeOK, PCs
<1>20. CASE StartDaemon
  <2>1. files' \in [Pages -> FileState \cup {None}]
    BY <1>20 DEF StartDaemon, TypeOK
  <2> QED  BY <1>20, <2>1 DEF StartDaemon, TypeOK, PCs
<1>21. CASE run_plumber_audit
  <2>1. sections' \in [Pages -> Nat] /\ mtime' \in [Pages -> Nat] /\ UNCHANGED <<text, human>>
    BY <1>21, BootTypes DEF run_plumber_audit
  <2>2. catalogOk' \in BOOLEAN
    BY <1>21, CatalogTypes DEF run_plumber_audit
  <2>3. commits' \in [Pages -> Nat] /\ touches' \in Nat
    BY <1>21 DEF run_plumber_audit, TypeOK
  <2> QED  BY <1>21, <2>1, <2>2, <2>3 DEF run_plumber_audit, TypeOK
<1>22. ASSUME NEW p \in Pages, BackoffExpires(p)  PROVE TypeOK'
  <2>1. \A f \in FileState : [f EXCEPT !.wait = FALSE] \in FileState
    BY DEF FileState
  <2>2. files' \in [Pages -> FileState \cup {None}]
    <3>1. files[p] # None => [files[p] EXCEPT !.wait = FALSE] \in FileState
      BY <2>1 DEF TypeOK
    <3> QED  BY <1>22, <3>1 DEF BackoffExpires, TypeOK
  <2>3. saved' \in [Pages -> FileState \cup {None}]
    <3>1. saved[p] # None => [saved[p] EXCEPT !.wait = FALSE] \in FileState
      BY <2>1 DEF TypeOK
    <3> QED  BY <1>22, <3>1 DEF BackoffExpires, TypeOK
  <2> QED  BY <1>22, <2>2, <2>3 DEF BackoffExpires, TypeOK
<1>23. ASSUME NEW p \in Pages, HumanDelete(p)  PROVE TypeOK'
  BY <1>23 DEF HumanDelete, TypeOK
<1>24. ASSUME NEW p \in Pages, NEW kind \in {"empty", "malformed", "text"}, HumanSave(p, kind)  PROVE TypeOK'
  <2>1. catalogOk' \in BOOLEAN
    BY <1>24, CatalogTypes DEF HumanSave
  <2>2. sections' \in [Pages -> Nat] /\ text' \in [Pages -> {"none", "empty", "malformed", "text"}]
    BY <1>24 DEF HumanSave, TypeOK
  <2> QED  BY <1>24, <2>1, <2>2 DEF HumanSave, TypeOK
<1>25. CASE Backpropagate
  <2>1. touches' \in Nat /\ mtime' \in [Pages -> Nat] /\ commits' \in [Pages -> Nat]
    BY <1>25 DEF Backpropagate, TypeOK
  <2> QED  BY <1>25, <2>1 DEF Backpropagate, TypeOK
<1>26. CASE UNCHANGED vars
  BY <1>26 DEF vars, TypeOK
<1> QED
  BY <1>1, <1>2, <1>3, <1>4, <1>5, <1>6, <1>7, <1>8, <1>9, <1>10, <1>11, <1>12, <1>13, <1>14, <1>15, <1>16, <1>17,
     <1>18, <1>19, <1>20, <1>21, <1>22, <1>23, <1>24, <1>25, <1>26
     DEF Next, DaemonStep, TurnStep

\* A step out of the daemon's turn and quarantine keeps a page in its hand.
LEMMA HandStep == TypeOK /\ InHand /\ [Next]_vars => InHand'
<1> SUFFICES ASSUME TypeOK, InHand, [Next]_vars  PROVE InHand'
  OBVIOUS
<1> USE DaemonCycleAssumption DEF pageVars, diskVars, turnVars, loopVars, counts, InHand, Turn, Asking, Quarantine
<1>1. ASSUME UNCHANGED <<pc, cur, start, todo, budget, turns>>  PROVE InHand'
  BY <1>1
<1>2. ASSUME cur = None, cur' = None, pc' \notin Turn \cup Quarantine  PROVE InHand'
  BY <1>2
<1>3. CASE run_bootstrap_pipeline
  BY <1>2, <1>3 DEF run_bootstrap_pipeline, SaveOrDie
<1>4. CASE Scan
  BY <1>2, <1>4 DEF Scan, SaveOrDie
<1>5. CASE RefreshCatalog
  BY <1>2, <1>5 DEF RefreshCatalog, SaveOrDie
<1>6. ASSUME NEW p \in Pages, FastTrack(p)  PROVE InHand'
  BY <1>2, <1>6 DEF FastTrack
<1>7. ASSUME NEW p \in Pages, FastTrackMalformed(p)  PROVE InHand'
  BY <1>7 DEF FastTrackMalformed, TypeOK
<1>8. CASE QuarantineWrites
  BY <1>8 DEF QuarantineWrites
<1>9. CASE QuarantineSettles
  BY <1>9 DEF QuarantineSettles
<1>10. CASE Relist
  BY <1>2, <1>10 DEF Relist
<1>11. ASSUME NEW p \in Pages, BeginPage(p)  PROVE InHand'
  BY <1>11 DEF BeginPage, TakeTurn, TypeOK
<1>12. CASE Snapshot \/ ReadContent \/ RunModules
  BY <1>12 DEF Snapshot, ReadContent, RunModules
<1>13. CASE Infer
  BY <1>13 DEF Infer
<1>14. CASE Commit \/ CommitAborts \/ CommitLocked \/ CommitMalformed \/ AnswerMalformed \/ RecordSkipped \/ RecordProcessed
            \/ RecordFails
  BY <1>14 DEF Commit, CommitIndex, CommitAborts, CommitLocked, CommitMalformed, AnswerMalformed, RecordSkipped,
               RecordProcessed, RecordFails
<1>15. CASE Checkpoint
  BY <1>15 DEF Checkpoint
<1>16. CASE EndCycle
  BY <1>2, <1>16 DEF EndCycle, SaveOrDie
<1>17. CASE ScanFails \/ Reload \/ Wake \/ StartDaemon
  BY <1>2, <1>17 DEF ScanFails, Reload, Wake, StartDaemon
<1>18. CASE Finalize \/ Crash
  BY <1>18 DEF Finalize, Crash, Forget
<1>19. CASE run_plumber_audit \/ StopSignal \/ Backpropagate \/ UNCHANGED vars
  BY <1>1, <1>19 DEF run_plumber_audit, StopSignal, Backpropagate, vars
<1>20. ASSUME NEW p \in Pages, BackoffExpires(p) \/ HumanDelete(p)  PROVE InHand'
  BY <1>1, <1>20 DEF BackoffExpires, HumanDelete
<1>21. ASSUME NEW p \in Pages, NEW kind \in {"empty", "malformed", "text"}, HumanSave(p, kind)  PROVE InHand'
  BY <1>1, <1>21 DEF HumanSave
<1> QED
  BY <1>3, <1>4, <1>5, <1>6, <1>7, <1>8, <1>9, <1>10, <1>11, <1>12, <1>13, <1>14, <1>15, <1>16, <1>17, <1>18, <1>19,
     <1>20, <1>21
     DEF Next, DaemonStep, TurnStep

LEMMA TypeInit == Init => TypeOK /\ InHand
<1> SUFFICES ASSUME Init  PROVE TypeOK /\ InHand
  OBVIOUS
<1>1. budget \in 0..MaxFiles /\ turns \in 0..MaxFiles
  BY DaemonCycleAssumption DEF Init
<1> QED  BY <1>1, DaemonCycleAssumption DEF Init, TypeOK, InHand, Turn, Asking, Quarantine, PCs

TypeInv == TypeOK /\ InHand

LEMMA TypeInvariant == Spec => []TypeInv
<1>1. Init => TypeInv
  BY TypeInit DEF TypeInv
<1>2. TypeInv /\ [Next]_vars => TypeInv'
  BY TypeStep, HandStep DEF TypeInv
<1> QED  BY <1>1, <1>2, PTL DEF Spec

\* The ledgers in memory and on disk hold records of pages, a page is in hand
\* exactly while it has its turn, and turns and settled pages stay within
\* max_files_per_cycle.
THEOREM TypeIsCorrect == Spec => []TypeOK
  BY TypeInvariant, PTL DEF TypeInv

-----------------------------------------------------------------------------
(* One index per page *)

LEMMA IndexStep == TypeInv /\ AtMostOneIndex /\ [Next]_vars => AtMostOneIndex'
<1> SUFFICES ASSUME TypeInv, AtMostOneIndex, [Next]_vars  PROVE AtMostOneIndex'
  OBVIOUS
<1> USE DEF AtMostOneIndex, pageVars
<1>1. ASSUME UNCHANGED sections  PROVE AtMostOneIndex'
  BY <1>1
<1>2. ASSUME NEW S, BootPages(S)  PROVE AtMostOneIndex'
  BY <1>2 DEF BootPages
<1>3. CASE Commit
  <2>1. cur \in Pages
    BY <1>3 DEF Commit, CommitIndex, TypeInv, InHand, Turn
  <2>2. sections' = sections \/ sections' = [sections EXCEPT ![cur] = IF sections[cur] = 0 THEN 1 ELSE sections[cur]]
    BY <1>3 DEF Commit, CommitIndex
  <2> QED  BY <2>1, <2>2 DEF TypeInv, TypeOK
<1>4. ASSUME NEW p \in Pages, NEW kind, HumanSave(p, kind)  PROVE AtMostOneIndex'
  BY <1>4 DEF HumanSave, TypeInv, TypeOK
<1>5. ASSUME NEW p \in Pages, HumanDelete(p)  PROVE AtMostOneIndex'
  BY <1>5 DEF HumanDelete, TypeInv, TypeOK
<1> QED
  BY <1>1, <1>2, <1>3, <1>4, <1>5
     DEF Next, DaemonStep, TurnStep, vars, run_bootstrap_pipeline, RefreshCatalog, run_plumber_audit, Scan, ScanFails,
         FastTrack, FastTrackMalformed, QuarantineWrites, QuarantineSettles, Relist, BeginPage, TakeTurn, Snapshot,
         ReadContent, RunModules, Infer, CommitAborts, CommitLocked, CommitMalformed, AnswerMalformed, Backpropagate,
         RecordFails, RecordSkipped, RecordProcessed, Checkpoint, EndCycle, Reload, Wake, Finalize, Crash, StartDaemon,
         StopSignal, BackoffExpires

\* Phase 1, an audit, a refresh and a turn may all write an index of the same
\* page, in any order and again after a crash: it never has two.
THEOREM OneIndexPerPage == Spec => []AtMostOneIndex
<1>1. Init => AtMostOneIndex
  BY DEF Init, AtMostOneIndex
<1> QED  BY <1>1, IndexStep, TypeInvariant, PTL DEF Spec

-----------------------------------------------------------------------------
(* What a crash loses *)

LEMMA CheckpointCovers ==
    ASSUME SaveCheckpoint(files')
    PROVE  ~unsaved' => saved' = files'
  BY DEF SaveCheckpoint

LEMMA LossStep == TypeInv /\ CrashLosesOnePage /\ [Next]_vars => CrashLosesOnePage'
<1> SUFFICES ASSUME TypeInv, CrashLosesOnePage, [Next]_vars  PROVE CrashLosesOnePage'
  OBVIOUS
<1> USE DEF CrashLosesOnePage, diskVars, turnVars
\* The ledger was just saved, or could not be.
<1>1. ASSUME ~unsaved' => saved' = files'  PROVE CrashLosesOnePage'
  BY <1>1
\* Nothing of it changed, and the page in hand is still the same.
<1>2. ASSUME UNCHANGED <<saved, files, unsaved>>, cur' = cur \/ cur = None, pc' \in {"down", "final"} \/ pc \notin {"down", "final"}
      PROVE  CrashLosesOnePage'
  <2>1. cur = None => Pages \ {cur} = Pages
    BY DaemonCycleAssumption
  <2> QED  BY <1>2, <2>1
\* Only the record of the page in hand changed.
<1>3. ASSUME NEW s, NEW m, Put(cur, s, m), UNCHANGED <<saved, unsaved, cur>>, pc \notin {"down", "final"}
      PROVE  CrashLosesOnePage'
  <2>1. \A p \in Pages \ {cur} : files'[p] = files[p]
    BY <1>3 DEF Put, TypeInv, TypeOK
  <2> QED  BY <1>3, <2>1
<1>4. CASE run_bootstrap_pipeline \/ RefreshCatalog \/ EndCycle
  <2>1. \/ saved' = files'
        \/ pc' = "final"
    BY <1>4 DEF run_bootstrap_pipeline, RefreshCatalog, EndCycle, SaveOrDie
  <2> QED  BY <1>1, <2>1
<1>5. CASE Scan
  <2>1. saved' = files' \/ pc' = "final"
    BY <1>5 DEF Scan, SaveOrDie
  <2> QED  BY <1>1, <2>1
<1>6. ASSUME NEW p \in Pages, FastTrack(p)  PROVE CrashLosesOnePage'
  <2>1. SaveCheckpoint(files') \/ UNCHANGED <<saved, files, unsaved>>
    BY <1>6 DEF FastTrack
  <2> QED  BY <1>1, <1>2, <1>6, <2>1, CheckpointCovers DEF FastTrack
<1>7. ASSUME NEW p \in Pages, FastTrackMalformed(p)  PROVE CrashLosesOnePage'
  <2>1. cur = None
    BY <1>7 DEF FastTrackMalformed, TypeInv, InHand, Turn, Asking, Quarantine
  <2> QED  BY <1>2, <1>7, <2>1 DEF FastTrackMalformed
<1>8. CASE QuarantineSettles \/ Checkpoint \/ RunModules
  <2>1. SaveCheckpoint(files')
    BY <1>8 DEF QuarantineSettles, Checkpoint, RunModules, SaveCheckpoint
  <2> QED  BY <1>1, <2>1, CheckpointCovers
<1>9. ASSUME NEW p \in Pages, BeginPage(p)  PROVE CrashLosesOnePage'
  <2>1. SaveCheckpoint(files') \/ pc' = "final"
    BY <1>9 DEF BeginPage, TakeTurn, SaveCheckpoint
  <2> QED  BY <1>1, <2>1, CheckpointCovers
<1>10. CASE QuarantineWrites \/ Relist \/ Snapshot \/ ReadContent \/ Commit \/ CommitAborts \/ CommitMalformed \/ AnswerMalformed
            \/ Backpropagate \/ ScanFails \/ StopSignal \/ Wake
  BY <1>2, <1>10 DEF QuarantineWrites, Relist, Snapshot, ReadContent, Commit, CommitIndex, CommitAborts, CommitMalformed,
                     AnswerMalformed, Backpropagate, ScanFails, StopSignal, Wake
<1>11. CASE Infer
  <2>1. (\E s, m : Put(cur, s, m)) \/ files' = files
    BY <1>11 DEF Infer
  <2> QED  BY <1>2, <1>3, <1>11, <2>1 DEF Infer
<1>12. CASE CommitLocked \/ RecordSkipped \/ RecordProcessed \/ RecordFails
  <2>1. \E s, m : Put(cur, s, m)
    BY <1>12 DEF CommitLocked, RecordSkipped, RecordProcessed, RecordFails
  <2> QED  BY <1>3, <1>12, <2>1 DEF CommitLocked, RecordSkipped, RecordProcessed, RecordFails
\* ~unsaved: the ledger is what was saved last.
<1>13. CASE Reload
  BY <1>1, <1>13 DEF Reload
<1>14. CASE Finalize \/ Crash
  BY <1>14 DEF Finalize, Crash, Forget
<1>15. CASE StartDaemon
  BY <1>1, <1>15 DEF StartDaemon
<1>16. ASSUME NEW p \in Pages, BackoffExpires(p)  PROVE CrashLosesOnePage'
  <2>1. ASSUME NEW q \in Pages, saved[q] = files[q]  PROVE saved'[q] = files'[q]
    BY <1>16, <2>1 DEF BackoffExpires, TypeInv, TypeOK
  <2> QED  BY <1>16, <2>1 DEF BackoffExpires
<1>17. CASE run_plumber_audit \/ UNCHANGED vars
  BY <1>2, <1>17 DEF run_plumber_audit, vars
<1>18. ASSUME NEW p \in Pages, HumanDelete(p) \/ \E kind \in {"empty", "malformed", "text"} : HumanSave(p, kind)
       PROVE  CrashLosesOnePage'
  BY <1>2, <1>18 DEF HumanDelete, HumanSave
<1> QED
  BY <1>4, <1>5, <1>6, <1>7, <1>8, <1>9, <1>10, <1>11, <1>12, <1>13, <1>14, <1>15, <1>16, <1>17, <1>18
     DEF Next, DaemonStep, TurnStep

\* Wherever the daemon is killed, the ledger on disk has every record of the
\* one in memory but that of the page at hand, unless a checkpoint has failed.
THEOREM CrashLosesAtMostOnePage == Spec => []CrashLosesOnePage
<1>1. Init => CrashLosesOnePage
  BY DEF Init, CrashLosesOnePage
<1> QED  BY <1>1, LossStep, TypeInvariant, PTL DEF Spec

-----------------------------------------------------------------------------
(* NoSelfTrigger.  A page is settled when the ledger that counts, the one   *)
(* on disk while the daemon is down, says "processed" at the page's mtime.  *)
(* A page that is neither settled nor gone may be committed once more, so   *)
(* what was committed and what may still be stays within the faults.        *)

Recorded(f, p) == f[p] # None /\ f[p].status = "processed" /\ f[p].mtime = mtime[p]
Ledger == IF pc = "down" THEN saved ELSE files

Settled(p) ==
    /\ p \notin todo
    /\ IF cur = p
       THEN pc = "record" \/ (pc = "checkpoint" /\ Recorded(files, p))
       ELSE Recorded(Ledger, p)

Owed(p) == commits[p] + (IF text[p] = "none" \/ Settled(p) THEN 0 ELSE 1) <= 1 + faults

\* A page that was committed has its index until the human changes it.
Indexed(p) == commits[p] > 0 => text[p] = "none" \/ (text[p] = "text" /\ sections[p] > 0)

Unindexed == pc \in Quarantine => commits[cur] = 0

CommitInv == Unindexed /\ \A p \in Pages : Indexed(p) /\ Owed(p)

LEMMA IndexedStep ==
    ASSUME TypeInv, Unindexed, \A p \in Pages : Indexed(p), [Next]_vars
    PROVE  Unindexed' /\ \A p \in Pages : Indexed(p)'
<1> USE DEF TypeInv, TypeOK, Indexed, Unindexed, pageVars, Quarantine
<1>1. ASSUME UNCHANGED <<text, sections>>, \A p \in Pages : commits'[p] \in {0, commits[p]}
      PROVE  \A p \in Pages : Indexed(p)'
  BY <1>1
<1>2. ASSUME NEW S, BootPages(S), \A p \in Pages : commits'[p] \in {0, commits[p]}
      PROVE  \A p \in Pages : Indexed(p)'
  BY <1>2 DEF BootPages
<1>3. ASSUME pc' \in Quarantine => pc \in Quarantine /\ cur' = cur, \A p \in Pages : commits'[p] \in {0, commits[p]}
      PROVE  Unindexed'
  BY <1>3 DEF InHand
<1>4. CASE run_bootstrap_pipeline \/ RefreshCatalog
  <2>1. \E S : BootPages(S)
    BY <1>4 DEF run_bootstrap_pipeline, RefreshCatalog
  <2>2. commits' = commits /\ pc' \notin Quarantine
    BY <1>4 DEF run_bootstrap_pipeline, RefreshCatalog, SaveOrDie
  <2> QED  BY <1>2, <1>3, <2>1, <2>2
<1>5. CASE run_plumber_audit
  <2>1. \E S : BootPages(S) /\ commits' = [p \in Pages |-> IF p \in S THEN 0 ELSE commits[p]]
    BY <1>5 DEF run_plumber_audit
  <2>2. pc' = pc /\ cur' = cur
    BY <1>5 DEF run_plumber_audit, turnVars
  <2> QED  BY <1>2, <1>3, <2>1, <2>2
<1>6. CASE RunModules \/ Backpropagate
  <2>1. \A p \in Pages : commits'[p] \in {0, commits[p]}
    BY <1>6 DEF RunModules, Backpropagate
  <2> QED  BY <1>1, <1>3, <1>6, <2>1 DEF RunModules, Backpropagate
<1>7. CASE Commit
  <2>1. cur \in Pages /\ pc = "apply" /\ pc' = "record"
    BY <1>7 DEF Commit, CommitIndex, InHand, Turn
  <2>2. CASE text[cur] = "text"
    <3>1. /\ commits' = [commits EXCEPT ![cur] = @ + 1] /\ UNCHANGED text
          /\ sections' = [sections EXCEPT ![cur] = IF sections[cur] = 0 THEN 1 ELSE sections[cur]]
      BY <1>7, <2>2 DEF Commit, CommitIndex
    <3>2. \A p \in Pages \ {cur} : Indexed(p)'
      BY <3>1
    <3>3. \A p \in Pages : p = cur => Indexed(p)'
      BY <2>1, <2>2, <3>1
    <3> QED  BY <2>1, <3>2, <3>3
  <2>3. CASE text[cur] # "text"
    BY <1>1, <1>3, <1>7, <2>1, <2>3 DEF Commit, CommitIndex
  <2> QED  BY <2>2, <2>3
<1>8. ASSUME NEW p \in Pages, FastTrackMalformed(p)  PROVE Unindexed' /\ \A q \in Pages : Indexed(q)'
  <2>1. UNCHANGED <<text, sections, commits>> /\ cur' = p /\ text[p] = "malformed"
    BY <1>8 DEF FastTrackMalformed
  <2>2. commits[p] = 0
    <3>1. ~(commits[p] > 0) /\ commits[p] \in Nat
      BY <2>1
    <3> QED  BY <3>1
  <2> QED  BY <1>1, <2>1, <2>2
<1>9. ASSUME NEW p \in Pages, NEW kind \in {"empty", "malformed", "text"}, HumanSave(p, kind)
      PROVE  Unindexed' /\ \A q \in Pages : Indexed(q)'
  <2>1. commits' = [commits EXCEPT ![p] = 0] /\ UNCHANGED <<pc, cur>>
    BY <1>9 DEF HumanSave, turnVars
  <2>2. \A q \in Pages \ {p} : text'[q] = text[q] /\ sections'[q] = sections[q]
    BY <1>9 DEF HumanSave
  <2> QED  BY <1>3, <2>1, <2>2
<1>10. ASSUME NEW p \in Pages, HumanDelete(p)  PROVE Unindexed' /\ \A q \in Pages : Indexed(q)'
  <2>1. text' = [text EXCEPT ![p] = "none"] /\ sections' = [sections EXCEPT ![p] = 0] /\ UNCHANGED <<pc, cur, commits>>
    BY <1>10 DEF HumanDelete, turnVars
  <2> QED  BY <1>3, <2>1
<1>11. ASSUME UNCHANGED <<text, sections, commits>>, pc' \in Quarantine => pc \in Quarantine /\ cur' = cur
       PROVE  Unindexed' /\ \A p \in Pages : Indexed(p)'
  BY <1>1, <1>3, <1>11
<1>12. CASE Scan \/ QuarantineWrites \/ QuarantineSettles \/ Relist \/ Snapshot \/ ReadContent
  BY <1>11, <1>12 DEF Scan, SaveOrDie, QuarantineWrites, QuarantineSettles, Relist, Snapshot, ReadContent, turnVars
<1>13. CASE Infer \/ CommitAborts \/ CommitLocked \/ CommitMalformed \/ AnswerMalformed \/ RecordSkipped \/ RecordProcessed
            \/ RecordFails \/ Checkpoint \/ EndCycle \/ Reload
  BY <1>11, <1>13 DEF Infer, CommitAborts, CommitLocked, CommitMalformed, AnswerMalformed, RecordSkipped, RecordProcessed,
                      RecordFails, Checkpoint, EndCycle, SaveOrDie, Reload
<1>14. CASE Wake \/ Finalize \/ Crash \/ StartDaemon \/ ScanFails \/ StopSignal \/ UNCHANGED vars
  BY <1>11, <1>14 DEF Wake, Finalize, Crash, Forget, StartDaemon, ScanFails, StopSignal, turnVars, vars
<1>15. ASSUME NEW p \in Pages, FastTrack(p) \/ BeginPage(p) \/ BackoffExpires(p)
       PROVE  Unindexed' /\ \A q \in Pages : Indexed(q)'
  BY <1>11, <1>15 DEF FastTrack, BeginPage, TakeTurn, BackoffExpires, turnVars
<1> QED
  BY <1>4, <1>5, <1>6, <1>7, <1>8, <1>9, <1>10, <1>12, <1>13, <1>14, <1>15 DEF Next, DaemonStep, TurnStep

\* What is owed by a page after a change of it, after a fault, and otherwise.
LEMMA OwedStep ==
    ASSUME TypeOK, TypeOK', NEW p \in Pages, Indexed(p), Owed(p),
           \/ commits'[p] = 0
           \/ commits'[p] = commits[p] /\ faults' = faults + 1
           \/ /\ commits'[p] = commits[p] /\ faults' >= faults /\ text'[p] = text[p]
              /\ commits[p] > 0 /\ text[p] = "text" /\ Settled(p) => Settled(p)'
    PROVE  Owed(p)'
<1>1. faults \in Nat /\ faults' \in Nat /\ commits[p] \in Nat /\ commits'[p] \in Nat
  BY DEF TypeOK
<1>2. CASE commits'[p] = 0 \/ (commits'[p] = commits[p] /\ faults' = faults + 1)
  BY <1>1, <1>2 DEF Owed
<1>3. CASE /\ commits'[p] = commits[p] /\ faults' >= faults /\ text'[p] = text[p]
           /\ commits[p] > 0 /\ text[p] = "text" /\ Settled(p) => Settled(p)'
  <2>1. CASE commits[p] = 0
    BY <1>1, <1>3, <2>1 DEF Owed
  <2>2. CASE commits[p] > 0
    BY <1>1, <1>3, <2>2 DEF Owed, Indexed
  <2> QED  BY <1>1, <2>1, <2>2
<1> QED  BY <1>2, <1>3

LEMMA DebtStep ==
    ASSUME TypeInv, TypeOK', CrashLosesOnePage, Unindexed, [Next]_vars, NEW p \in Pages, Indexed(p), Owed(p)
    PROVE  Owed(p)'
<1> USE DaemonCycleAssumption DEF TypeInv, pageVars, diskVars, turnVars, loopVars, counts
<1>0. faults \in Nat /\ commits \in [Pages -> Nat] /\ mtime \in [Pages -> Nat] /\ text[p] = text[p]
  BY DEF TypeOK
\* The page keeps its mtime, and its record where it is looked for.
<1>a. ASSUME commits'[p] = commits[p], faults' \in {faults, faults + 1}, text'[p] = text[p],
             commits[p] > 0 /\ text[p] = "text" /\ Settled(p) /\ faults' = faults => Settled(p)'
      PROVE  Owed(p)'
  BY <1>0, <1>a, OwedStep
<1>b. ASSUME commits'[p] = commits[p], faults' \in {faults, faults + 1}, text'[p] = text[p],
             mtime'[p] = mtime[p], UNCHANGED <<cur, files>>, todo' \subseteq todo,
             pc' # pc => pc # "down" /\ pc \notin {"record", "checkpoint"} /\ pc' # "down",
             pc = "down" => saved' = saved
      PROVE  Owed(p)'
  <2>1. Settled(p) => Settled(p)'
    <3>1. CASE pc' = pc
      BY <1>b, <3>1 DEF Settled, Recorded, Ledger
    <3>2. CASE pc' # pc
      BY <1>b, <3>2 DEF Settled, Recorded, Ledger
    <3> QED  BY <3>1, <3>2
  <2> QED  BY <1>a, <1>b, <2>1
\* BootPages leaves a page with an index alone.
<1>c. ASSUME NEW S, BootPages(S)
      PROVE  text' = text /\ (commits[p] > 0 /\ text[p] = "text" => mtime'[p] = mtime[p])
  BY <1>c DEF BootPages, Indexed, TypeOK
<1>1. CASE run_bootstrap_pipeline \/ RefreshCatalog
  <2>1. \E S : BootPages(S)
    BY <1>1 DEF run_bootstrap_pipeline, RefreshCatalog
  <2>2. /\ pc \in {"boot", "idle"} /\ pc' \in {"scan", "final", "reload"} /\ UNCHANGED <<files, cur, todo, commits>>
        /\ faults' \in {faults, faults + 1}
    BY <1>1 DEF run_bootstrap_pipeline, RefreshCatalog, SaveOrDie
  <2>3. commits[p] > 0 /\ text[p] = "text" /\ Settled(p) => Settled(p)'
    BY <1>c, <2>1, <2>2 DEF Settled, Recorded, Ledger
  <2> QED  BY <1>a, <1>c, <2>1, <2>2, <2>3
<1>2. CASE run_plumber_audit
  <2>1. PICK S : BootPages(S) /\ commits' = [q \in Pages |-> IF q \in S THEN 0 ELSE commits[q]]
    BY <1>2 DEF run_plumber_audit
  <2>2. UNCHANGED <<pc, files, saved, cur, todo, faults>>
    BY <1>2 DEF run_plumber_audit
  <2>3. CASE p \in S
    BY <2>1, <2>3, OwedStep
  <2>4. CASE p \notin S
    <3>1. commits'[p] = commits[p] /\ text'[p] = text[p] /\ mtime'[p] = mtime[p]
      BY <2>1, <2>4 DEF BootPages
    <3> QED  BY <1>b, <2>2, <3>1
  <2> QED  BY <2>3, <2>4
<1>3. CASE Scan
  <2>1. /\ pc = "scan" /\ pc' \in {"idle", "fast", "final"} /\ UNCHANGED <<text, mtime, cur, commits>>
        /\ faults' \in {faults, faults + 1} /\ cur = None
    BY <1>3 DEF Scan, SaveOrDie, InHand, Turn, Asking, Quarantine
  <2>2. /\ files' = [q \in Pages |-> IF Exists(q) THEN files[q] ELSE None]
        /\ todo' \subseteq {q \in Pages : NeedsPhase2(q) \/ NeedsPhase1(q)}
    BY <1>3 DEF Scan
  <2>3. text[p] = "text" /\ Settled(p) => Settled(p)'
    <3> SUFFICES ASSUME text[p] = "text", Settled(p)  PROVE Settled(p)'
      OBVIOUS
    <3>1. files[p] # None /\ files[p].status = "processed" /\ files[p].mtime = mtime[p]
      BY <2>1 DEF Settled, Recorded, Ledger
    <3>2. p \notin todo'
      BY <2>2, <3>1 DEF NeedsPhase2, NeedsPhase1, Matches
    <3>3. files'[p] = files[p]
      BY <2>2 DEF Exists
    <3> QED  BY <2>1, <3>1, <3>2, <3>3 DEF Settled, Recorded, Ledger
  <2> QED  BY <1>a, <2>1, <2>3
<1>4. ASSUME NEW q \in Pages, FastTrack(q)  PROVE Owed(p)'
  <2>1. /\ q \in todo /\ todo' \subseteq todo /\ UNCHANGED <<pc, cur, text, mtime, commits>> /\ pc = "fast"
        /\ faults' \in {faults, faults + 1}
    BY <1>4 DEF FastTrack, SaveCheckpoint
  <2>2. p # q => files'[p] = files[p]
    BY <1>4 DEF FastTrack, Put, TypeOK
  <2>3. Settled(p) => Settled(p)'
    BY <2>1, <2>2 DEF Settled, Recorded, Ledger
  <2> QED  BY <1>a, <2>1, <2>3
<1>5. ASSUME NEW q \in Pages, FastTrackMalformed(q)  PROVE Owed(p)'
  <2>1. /\ q \in todo /\ todo' \subseteq todo /\ cur' = q /\ UNCHANGED <<files, text, mtime, commits, faults>>
        /\ pc = "fast" /\ pc' = "quarantine" /\ cur = None
    BY <1>5 DEF FastTrackMalformed, InHand, Turn, Asking, Quarantine
  <2>2. Settled(p) => Settled(p)'
    BY <2>1 DEF Settled, Recorded, Ledger
  <2> QED  BY <1>a, <2>1, <2>2
\* The page in quarantine was not committed since it changed.
<1>6. CASE QuarantineWrites
  <2>1. /\ pc = "quarantine" /\ pc' = "settle" /\ UNCHANGED <<files, cur, todo, text, commits, faults>>
        /\ mtime' = mtime \/ mtime' = [mtime EXCEPT ![cur] = @ + 1]
    BY <1>6 DEF QuarantineWrites
  <2>2. CASE p = cur
    BY <2>1, <2>2, OwedStep DEF Unindexed, Quarantine
  <2>3. CASE p # cur
    <3>1. mtime'[p] = mtime[p]
      BY <1>0, <2>1, <2>3
    <3> QED  BY <1>b, <2>1, <3>1
  <2> QED  BY <2>2, <2>3
<1>7. CASE QuarantineSettles
  <2>1. /\ pc = "settle" /\ pc' = "fast" /\ UNCHANGED <<todo, text, mtime, commits>> /\ cur' = None
        /\ faults' \in {faults, faults + 1}
    BY <1>7 DEF QuarantineSettles, SaveCheckpoint
  <2>2. CASE p = cur
    BY <2>1, <2>2, OwedStep DEF Unindexed, Quarantine
  <2>3. CASE p # cur
    <3>1. files'[p] = files[p]
      BY <1>7, <2>3 DEF QuarantineSettles, Put, TypeOK
    <3>2. Settled(p) => Settled(p)'
      BY <2>1, <2>3, <3>1 DEF Settled, Recorded, Ledger
    <3> QED  BY <1>a, <2>1, <3>2
  <2> QED  BY <2>2, <2>3
<1>8. CASE Relist
  <2>1. /\ pc = "fast" /\ pc' = "turn" /\ UNCHANGED <<files, cur, text, mtime, commits, faults>> /\ cur = None
        /\ todo' \subseteq {q \in Pages : NeedsPhase2(q) \/ NeedsPhase1(q)}
    BY <1>8 DEF Relist, list_pending_files, InHand, Turn, Asking, Quarantine
  <2>2. Settled(p) => Settled(p)'
    <3> SUFFICES ASSUME Settled(p)  PROVE Settled(p)'
      OBVIOUS
    <3>1. files[p] # None /\ files[p].status = "processed" /\ files[p].mtime = mtime[p]
      BY <2>1 DEF Settled, Recorded, Ledger
    <3>2. p \notin todo'
      BY <2>1, <3>1 DEF NeedsPhase2, NeedsPhase1, Matches
    <3> QED  BY <2>1, <3>1, <3>2 DEF Settled, Recorded, Ledger
  <2> QED  BY <1>a, <2>1, <2>2
<1>9. ASSUME NEW q \in Pages, BeginPage(q)  PROVE Owed(p)'
  <2>1. /\ q \in todo /\ todo' \subseteq todo /\ UNCHANGED <<files, text, mtime, commits>> /\ cur' \in {q, cur}
        /\ faults' \in {faults, faults + 1} /\ pc = "turn" /\ pc' \in {"snapshot", "final"} /\ cur = None
    BY <1>9 DEF BeginPage, TakeTurn, SaveCheckpoint, InHand, Turn, Asking, Quarantine
  <2>2. Settled(p) => Settled(p)'
    BY <2>1 DEF Settled, Recorded, Ledger
  <2> QED  BY <1>a, <2>1, <2>2
<1>10. CASE RunModules
  <2>1. PICK S \in SUBSET Pages :
          /\ mtime' = [q \in Pages |-> IF q \in S THEN mtime[q] + 1 ELSE mtime[q]]
          /\ commits' = [q \in Pages |-> IF q \in S THEN 0 ELSE commits[q]]
    BY <1>10 DEF RunModules
  <2>2. /\ UNCHANGED <<files, cur, todo, text>> /\ faults' \in {faults, faults + 1}
        /\ pc = "modules" /\ pc' = "reread"
    BY <1>10 DEF RunModules, SaveCheckpoint
  <2>3. CASE p \in S
    BY <2>1, <2>3, OwedStep
  <2>4. CASE p \notin S
    BY <1>b, <2>1, <2>2, <2>4
  <2> QED  BY <2>3, <2>4
<1>11. CASE Snapshot \/ ReadContent \/ CommitAborts \/ Wake \/ ScanFails \/ StopSignal
  <2>1. /\ UNCHANGED <<files, saved, cur, todo, text, mtime, commits>> /\ faults' \in {faults, faults + 1}
        /\ pc' # pc => pc \in {"snapshot", "resnapshot", "content", "reread", "apply", "sleep", "scan"} /\ pc' # "down"
    BY <1>11 DEF Snapshot, ReadContent, CommitAborts, Wake, ScanFails, StopSignal
  <2> QED  BY <1>b, <2>1
\* The page in hand has not been committed in this turn.
<1>12. CASE Infer \/ CommitLocked \/ RecordSkipped
  <2>1. /\ pc \in {"infer", "apply", "quarantined"} /\ pc' \in {"checkpoint", "apply"} /\ faults' \in {faults, faults + 1}
        /\ UNCHANGED <<cur, todo, text, mtime, commits>>
    BY <1>12 DEF Infer, CommitLocked, RecordSkipped
  <2>2. p # cur => files'[p] = files[p]
    BY <1>12 DEF Infer, CommitLocked, RecordSkipped, Put, TypeOK
  <2>3. Settled(p) => Settled(p)'
    BY <2>1, <2>2 DEF Settled, Recorded, Ledger
  <2> QED  BY <1>a, <2>1, <2>3
<1>13. CASE Commit
  <2>1. pc = "apply" /\ pc' = "record" /\ UNCHANGED <<files, cur, todo, text, faults>> /\ cur \in Pages \ todo
    BY <1>13 DEF Commit, CommitIndex, InHand, Turn
  <2>2. CASE p = cur /\ text[p] = "text"
    <3>1. commits'[p] = commits[p] + 1
      BY <1>0, <1>13, <2>2 DEF Commit, CommitIndex
    <3>2. ~Settled(p) /\ Settled(p)'
      BY <2>1, <2>2 DEF Settled
    <3> QED  BY <1>0, <2>1, <2>2, <3>1, <3>2 DEF Owed
  <2>3. CASE p = cur /\ text[p] # "text"
    <3>1. commits'[p] = commits[p]
      BY <1>13, <2>3 DEF Commit, CommitIndex
    <3> QED  BY <1>a, <2>1, <2>3, <3>1
  <2>4. CASE p # cur
    <3>1. commits'[p] = commits[p] /\ mtime'[p] = mtime[p]
      BY <1>0, <1>13, <2>4 DEF Commit, CommitIndex
    <3> QED  BY <1>b, <2>1, <3>1
  <2> QED  BY <2>2, <2>3, <2>4
<1>14. CASE CommitMalformed
  <2>1. /\ pc = "apply" /\ pc' = "quarantined" /\ UNCHANGED <<files, cur, todo, text, commits, faults>>
        /\ text[cur] = "malformed" /\ (mtime' = mtime \/ mtime' = [mtime EXCEPT ![cur] = @ + 1])
    BY <1>14 DEF CommitMalformed
  <2>2. CASE p = cur
    BY <1>a, <2>1, <2>2
  <2>3. CASE p # cur
    <3>1. mtime'[p] = mtime[p]
      BY <1>0, <1>14, <2>3 DEF CommitMalformed
    <3> QED  BY <1>b, <2>1, <3>1
  <2> QED  BY <2>2, <2>3
<1>15. CASE RecordProcessed
  <2>1. pc = "record" /\ pc' = "checkpoint" /\ UNCHANGED <<cur, todo, text, mtime, commits, faults>>
    BY <1>15 DEF RecordProcessed
  <2>2. CASE p = cur
    <3>1. text[p] = "text" => files'[p] = Record("processed", mtime[p])
      BY <1>15, <2>2 DEF RecordProcessed, Exists, Put, TypeOK
    <3>2. Record("processed", mtime[p]) \in FileState
      BY <1>0 DEF Record, FileState, Statuses
    <3>3. text[p] = "text" => Recorded(files, p)'
      BY <2>1, <3>1, <3>2 DEF Recorded, Record
    <3>4. text[p] = "text" /\ Settled(p) => Settled(p)'
      BY <2>1, <2>2, <3>3 DEF Settled, Recorded
    <3> QED  BY <1>a, <2>1, <3>4
  <2>3. CASE p # cur
    <3>1. files'[p] = files[p]
      BY <1>15, <2>3 DEF RecordProcessed, Put, TypeOK
    <3>2. Settled(p) => Settled(p)'
      BY <2>1, <2>3, <3>1 DEF Settled, Recorded, Ledger
    <3> QED  BY <1>a, <2>1, <3>2
  <2> QED  BY <2>2, <2>3
<1>16. CASE Checkpoint
  <2>1. /\ pc = "checkpoint" /\ pc' = "turn" /\ UNCHANGED <<files, todo, text, mtime, commits>> /\ cur' = None
        /\ faults' \in {faults, faults + 1}
    BY <1>16 DEF Checkpoint, SaveCheckpoint
  <2>2. Settled(p) => Settled(p)'
    BY <2>1 DEF Settled, Recorded, Ledger
  <2> QED  BY <1>a, <2>1, <2>2
<1>17. CASE EndCycle
  <2>1. /\ pc = "turn" /\ pc' \in {"reload", "final"} /\ UNCHANGED <<files, cur, text, mtime, commits>> /\ todo' = {}
        /\ faults' \in {faults, faults + 1}
    BY <1>17 DEF EndCycle, SaveOrDie
  <2> QED  BY <1>b, <2>1
\* What is loaded is what was in memory: a failed checkpoint forbids the load.
<1>18. CASE Reload
  <2>1. /\ pc = "reload" /\ pc' \in {"final", "sleep"} /\ UNCHANGED <<cur, todo, text, mtime, commits, faults>> /\ cur = None
        /\ files' = IF unsaved THEN files ELSE saved
    BY <1>18 DEF Reload, InHand, Turn, Asking, Quarantine
  <2>2. files'[p] = files[p]
    BY <2>1 DEF CrashLosesOnePage
  <2>3. Settled(p) => Settled(p)'
    BY <2>1, <2>2 DEF Settled, Recorded, Ledger
  <2> QED  BY <1>a, <2>1, <2>3
<1>19. CASE Finalize
  <2>1. /\ pc = "final" /\ pc' = "down" /\ UNCHANGED <<text, mtime, commits>> /\ todo' = {} /\ cur = None /\ cur' = None
        /\ (saved' = files /\ faults' = faults) \/ faults' = faults + 1
    BY <1>19 DEF Finalize, Forget, InHand, Turn, Asking, Quarantine
  <2>2. Settled(p) /\ faults' = faults => Settled(p)'
    BY <1>0, <2>1 DEF Settled, Recorded, Ledger
  <2> QED  BY <1>a, <2>1, <2>2
\* A fault may take the record of a commit back.
<1>20. CASE Crash \/ AnswerMalformed \/ RecordFails
  BY <1>20, OwedStep DEF Crash, AnswerMalformed, RecordFails
<1>21. CASE StartDaemon
  <2>1. /\ pc = "down" /\ pc' \in {"scan", "boot"} /\ UNCHANGED <<text, mtime, commits, todo, cur, faults>> /\ cur = None
        /\ files' = [q \in Pages |-> IF saved[q] # None /\ saved[q].status = "error" THEN None ELSE saved[q]]
    BY <1>21 DEF StartDaemon, InHand, Turn, Asking, Quarantine
  <2>2. Settled(p) => Settled(p)'
    BY <2>1 DEF Settled, Recorded, Ledger
  <2> QED  BY <1>a, <2>1, <2>2
<1>22. ASSUME NEW q \in Pages, BackoffExpires(q)  PROVE Owed(p)'
  <2>1. UNCHANGED <<pc, text, mtime, commits, todo, cur, faults>>
    BY <1>22 DEF BackoffExpires
  <2>2. /\ files[p] # None => files'[p] # None /\ files'[p].status = files[p].status /\ files'[p].mtime = files[p].mtime
        /\ saved[p] # None => saved'[p] # None /\ saved'[p].status = saved[p].status /\ saved'[p].mtime = saved[p].mtime
    <3>1. \A f \in FileState : LET g == [f EXCEPT !.wait = FALSE]
                               IN  g \in FileState /\ g.status = f.status /\ g.mtime = f.mtime
      BY DEF FileState
    <3>2. files[p] # None => files[p] \in FileState /\ files'[p] \in {files[p], [files[p] EXCEPT !.wait = FALSE]}
      BY <1>22 DEF BackoffExpires, TypeOK
    <3>3. saved[p] # None => saved[p] \in FileState /\ saved'[p] \in {saved[p], [saved[p] EXCEPT !.wait = FALSE]}
      BY <1>22 DEF BackoffExpires, TypeOK
    <3> QED  BY <3>1, <3>2, <3>3
  <2>3. Settled(p) => Settled(p)'
    BY <2>1, <2>2 DEF Settled, Recorded, Ledger
  <2> QED  BY <1>a, <2>1, <2>3
<1>23. ASSUME NEW q \in Pages, HumanDelete(q)  PROVE Owed(p)'
  <2>1. UNCHANGED <<pc, mtime, commits, todo, cur, faults, files, saved>> /\ text' = [text EXCEPT ![q] = "none"]
    BY <1>23 DEF HumanDelete
  <2>2. CASE p = q
    BY <1>0, <2>1, <2>2 DEF Owed, TypeOK
  <2>3. CASE p # q
    <3>1. text'[p] = text[p]
      BY <2>1, <2>3 DEF TypeOK
    <3> QED  BY <1>b, <2>1, <3>1
  <2> QED  BY <2>2, <2>3
<1>24. ASSUME NEW q \in Pages, NEW kind \in {"empty", "malformed", "text"}, HumanSave(q, kind)  PROVE Owed(p)'
  <2>1. /\ UNCHANGED <<pc, todo, cur, faults, files, saved>> /\ text' = [text EXCEPT ![q] = kind]
        /\ commits' = [commits EXCEPT ![q] = 0] /\ mtime' = [mtime EXCEPT ![q] = @ + 1]
    BY <1>24 DEF HumanSave
  <2>2. CASE p = q
    BY <1>0, <2>1, <2>2, OwedStep
  <2>3. CASE p # q
    <3>1. text'[p] = text[p] /\ commits'[p] = commits[p] /\ mtime'[p] = mtime[p]
      BY <1>0, <2>1, <2>3 DEF TypeOK
    <3> QED  BY <1>b, <2>1, <3>1
  <2> QED  BY <2>2, <2>3
<1>25. CASE Backpropagate
  <2>1. PICK q \in Pages : mtime' = [mtime EXCEPT ![q] = @ + 1] /\ commits' = [commits EXCEPT ![q] = 0]
    BY <1>25 DEF Backpropagate
  <2>2. UNCHANGED <<pc, text, todo, cur, faults, files, saved>>
    BY <1>25 DEF Backpropagate
  <2>3. CASE p = q
    BY <1>0, <2>1, <2>3, OwedStep
  <2>4. CASE p # q
    <3>1. commits'[p] = commits[p] /\ mtime'[p] = mtime[p]
      BY <1>0, <2>1, <2>4
    <3> QED  BY <1>b, <2>2, <3>1
  <2> QED  BY <2>3, <2>4
<1>26. CASE UNCHANGED vars
  <2>1. UNCHANGED <<pc, text, mtime, commits, todo, cur, faults, files, saved>>
    BY <1>26 DEF vars
  <2> QED  BY <1>b, <2>1
<1> QED
  BY <1>1, <1>2, <1>3, <1>4, <1>5, <1>6, <1>7, <1>8, <1>9, <1>10, <1>11, <1>12, <1>13, <1>14, <1>15, <1>16, <1>17,
     <1>18, <1>19, <1>20, <1>21, <1>22, <1>23, <1>24, <1>25, <1>26
     DEF Next, DaemonStep, TurnStep

\* A page that nobody else changes is committed once, and once more for every
\* kill, failed save, busy lock, bad answer or failure between the commit
\* and its record: the record of a commit keeps the page out of every later
\* list until a fault takes the record back.
THEOREM CommitsTriggerNothing == Spec => []NoSelfTrigger
<1>1. TypeInv /\ CommitInv => NoSelfTrigger
  BY DEF TypeInv, TypeOK, CommitInv, Owed, NoSelfTrigger
<1>2. Init => CommitInv
  <2> SUFFICES ASSUME Init, NEW p \in Pages  PROVE Unindexed /\ Indexed(p) /\ Owed(p)
    BY DEF CommitInv, Unindexed, Init, Quarantine
  <2>1. commits[p] = 0 /\ faults = 0 /\ pc = "down"
    BY DEF Init
  <2> QED  BY <2>1 DEF Unindexed, Indexed, Owed, Quarantine
<1>3. TypeInv /\ TypeInv' /\ CrashLosesOnePage /\ CommitInv /\ [Next]_vars => CommitInv'
  BY IndexedStep, DebtStep DEF TypeInv, CommitInv
<1> QED  BY <1>1, <1>2, <1>3, TypeInvariant, CrashLosesAtMostOnePage, PTL DEF Spec

-----------------------------------------------------------------------------
(* PayloadIsFresh, without the cognitive modules: the content is read after *)
(* the baseline, so a page still at its baseline still has that content.    *)

Fresh ==
    /\ pc \notin {"modules", "reread", "resnapshot"}
    /\ pc = "snapshot" => base = None
    /\ pc \in {"content", "infer", "apply"} /\ base # None => base <= mtime[cur]
    /\ pc \in {"infer", "apply"} /\ base # None /\ Exists(cur) /\ base = mtime[cur] => got = human[cur]

LEMMA FreshStep == ~Modules /\ TypeInv /\ TypeInv' /\ Fresh /\ [Next]_vars => Fresh'
<1> SUFFICES ASSUME ~Modules, TypeInv, TypeInv', Fresh, [Next]_vars  PROVE Fresh'
  OBVIOUS
<1> USE DEF TypeInv, pageVars, turnVars
<1>0. pc \in {"content", "infer", "apply"} => cur \in Pages
  BY DEF InHand, Turn, Asking
<1>n. mtime \in [Pages -> Nat] /\ human \in [Pages -> Nat] /\ (base # None => base \in Nat)
  BY DEF TypeOK
\* Nothing of the turn changes; a page whose content changes gets a new mtime.
<1>1. ASSUME UNCHANGED <<cur, base, got>>, pc' \notin {"modules", "reread", "resnapshot", "snapshot", "content"},
             pc' \in {"infer", "apply"} => pc \in {"infer", "apply"},
             \A p \in Pages : \/ mtime'[p] = mtime[p] /\ human'[p] = human[p] /\ (Exists(p)' => Exists(p))
                             \/ mtime'[p] = mtime[p] + 1
      PROVE  Fresh'
  BY <1>0, <1>n, <1>1 DEF Fresh
<1>2. ASSUME pc' \notin {"modules", "reread", "resnapshot", "snapshot", "content", "infer", "apply"}  PROVE Fresh'
  BY <1>2 DEF Fresh
<1>3. ASSUME UNCHANGED <<pc, cur, base, got>>,
             \A p \in Pages : \/ mtime'[p] = mtime[p] /\ human'[p] = human[p] /\ (Exists(p)' => Exists(p))
                             \/ mtime'[p] = mtime[p] + 1
      PROVE  Fresh'
  BY <1>0, <1>n, <1>3 DEF Fresh
<1>4. CASE Snapshot
  <2>1. pc = "snapshot" /\ pc' = "content" /\ cur' = cur /\ mtime' = mtime /\ cur \in Pages
    BY <1>4 DEF Snapshot, Fresh, InHand, Turn, Asking
  <2>2. base' = mtime[cur] \/ base' = None
    BY <1>4, <2>1 DEF Snapshot, Fresh
  <2> QED  BY <1>n, <2>1, <2>2 DEF Fresh
<1>5. CASE ReadContent
  <2>1. pc = "content" /\ pc' = "infer" /\ UNCHANGED <<cur, base, mtime, human, text>>
        /\ got' = IF Exists(cur) THEN human[cur] ELSE got
    BY <1>5 DEF ReadContent, Fresh
  <2> QED  BY <1>0, <2>1 DEF Fresh, Exists
<1>6. CASE Infer \/ CommitAborts \/ CommitLocked \/ AnswerMalformed
  BY <1>1, <1>2, <1>6 DEF Infer, CommitAborts, CommitLocked, AnswerMalformed, Exists
<1>7. CASE Commit \/ CommitMalformed \/ RecordSkipped \/ RecordProcessed \/ RecordFails \/ Checkpoint
  BY <1>2, <1>7 DEF Commit, CommitIndex, CommitMalformed, RecordSkipped, RecordProcessed, RecordFails, Checkpoint
<1>8. CASE run_bootstrap_pipeline \/ RefreshCatalog \/ Scan \/ EndCycle
  BY <1>2, <1>8 DEF run_bootstrap_pipeline, RefreshCatalog, Scan, EndCycle, SaveOrDie
<1>9. CASE QuarantineWrites \/ QuarantineSettles \/ Relist \/ ScanFails \/ Reload \/ Wake \/ Finalize \/ Crash \/ StartDaemon
  BY <1>2, <1>9 DEF QuarantineWrites, QuarantineSettles, Relist, ScanFails, Reload, Wake, Finalize, Crash, Forget, StartDaemon
<1>10. ASSUME NEW p \in Pages, FastTrack(p) \/ FastTrackMalformed(p)  PROVE Fresh'
  BY <1>2, <1>10 DEF FastTrack, FastTrackMalformed
<1>11. ASSUME NEW p \in Pages, BeginPage(p)  PROVE Fresh'
  BY <1>11 DEF BeginPage, TakeTurn, Fresh
<1>12. CASE RunModules \/ Backpropagate
  BY <1>12 DEF RunModules, Backpropagate, Fresh
<1>13. CASE run_plumber_audit
  <2>1. UNCHANGED <<pc, cur, base, got, human, text>>
    BY <1>13 DEF run_plumber_audit, BootPages
  <2>2. \A p \in Pages : mtime'[p] \in {mtime[p], mtime[p] + 1}
    BY <1>13 DEF run_plumber_audit, BootPages
  <2> QED  BY <1>3, <2>1, <2>2 DEF Exists
<1>14. CASE StopSignal \/ UNCHANGED vars
  BY <1>3, <1>14 DEF StopSignal, vars, Exists
<1>15. ASSUME NEW p \in Pages, BackoffExpires(p)  PROVE Fresh'
  BY <1>3, <1>15 DEF BackoffExpires, Exists
<1>16. ASSUME NEW p \in Pages, HumanDelete(p)  PROVE Fresh'
  <2>1. \A q \in Pages : Exists(q)' => Exists(q)
    BY <1>16 DEF HumanDelete, Exists, TypeOK
  <2> QED  BY <1>3, <1>16, <2>1 DEF HumanDelete
<1>17. ASSUME NEW p \in Pages, NEW kind \in {"empty", "malformed", "text"}, HumanSave(p, kind)  PROVE Fresh'
  <2>1. UNCHANGED <<pc, cur, base, got>> /\ mtime'[p] = mtime[p] + 1
    BY <1>n, <1>17 DEF HumanSave
  <2>2. \A q \in Pages \ {p} : mtime'[q] = mtime[q] /\ human'[q] = human[q] /\ text'[q] = text[q]
    BY <1>n, <1>17 DEF HumanSave, TypeOK
  <2> QED  BY <1>3, <2>1, <2>2 DEF Exists
<1> QED
  BY <1>4, <1>5, <1>6, <1>7, <1>8, <1>9, <1>10, <1>11, <1>12, <1>13, <1>14, <1>15, <1>16, <1>17
     DEF Next, DaemonStep, TurnStep

\* Where the cognitive modules do not run, a commit to a page that was there
\* when its baseline was taken writes a payload computed on the human's text
\* as it is; with them it may not (the save between 2380 and 2381).
THEOREM PayloadsAreFresh == ~Modules => (Spec => PayloadIsFresh)
<1> SUFFICES ASSUME ~Modules  PROVE Spec => PayloadIsFresh
  OBVIOUS
<1>1. Init => Fresh
  BY DEF Init, Fresh
<1>2. TypeInv /\ TypeInv' /\ Fresh /\ [Next]_vars => Fresh'
  BY FreshStep
<1>3. TypeInv /\ Fresh /\ [Next]_vars
        => [\A p \in Pages : commits'[p] > commits[p] /\ base # None => got = human[p]]_vars
  <2> SUFFICES ASSUME TypeInv, Fresh, [Next]_vars, NEW p \in Pages, commits'[p] > commits[p], base # None
               PROVE  got = human[p]
    OBVIOUS
  <2>1. commits \in [Pages -> Nat]
    BY DEF TypeInv, TypeOK
  <2>2. Commit
    <3> SUFFICES ASSUME ~Commit  PROVE commits'[p] \in {0, commits[p]}
      BY <2>1
    <3>1. CASE run_plumber_audit \/ RunModules \/ Backpropagate \/ \E q \in Pages, kind \in {"empty", "malformed", "text"} : HumanSave(q, kind)
      BY <2>1, <3>1 DEF run_plumber_audit, RunModules, Backpropagate, HumanSave
    <3> QED
      BY <3>1
         DEF Next, DaemonStep, TurnStep, vars, run_bootstrap_pipeline, RefreshCatalog, Scan, ScanFails, FastTrack,
             FastTrackMalformed, QuarantineWrites, QuarantineSettles, Relist, BeginPage, TakeTurn, Snapshot, ReadContent,
             Infer, CommitAborts, CommitLocked, CommitMalformed, AnswerMalformed, RecordSkipped, RecordProcessed,
             RecordFails, Checkpoint, EndCycle, Reload, Wake, Finalize, Crash, StartDaemon, StopSignal, BackoffExpires, HumanDelete
  <2>3. pc = "apply" /\ ~file_mtime_drifted /\ p = cur
    BY <2>1, <2>2 DEF Commit, CommitIndex
  <2> QED  BY <2>3 DEF Fresh, file_mtime_drifted
<1> QED  BY <1>1, <1>2, <1>3, TypeInvariant, PTL DEF Spec, PayloadIsFresh

-----------------------------------------------------------------------------
(* The map of the clusters.  First, least elements, and sets of numbers in  *)
(* ascending order.                                                         *)

LEMMA LeastIs ==
    ASSUME NEW S \in SUBSET Nat, S # {}
    PROVE  \E m \in S : \A x \in S : m <= x
<1>1. PICK m \in S : \A x \in S : ~(<<x, m>> \in OpToRel(<, Nat))
  BY NatLessThanWellFounded, WFMin
<1>2. ASSUME NEW x \in S  PROVE m <= x
  <2>1. m \in Nat /\ x \in Nat
    OBVIOUS
  <2>2. ~(<<x, m>> \in OpToRel(<, Nat))
    BY <1>1
  <2>3. ~(x < m)
    BY <2>1, <2>2 DEF OpToRel
  <2>. QED
    BY <2>1, <2>3
<1>. QED
  BY <1>2

LEMMA MinIs ==
    ASSUME NEW S \in SUBSET Nat, S # {}
    PROVE  Min(S) \in S /\ \A x \in S : Min(S) <= x
BY LeastIs DEF Min

LEMMA MinOfTwo ==
    ASSUME NEW a \in Int, NEW b \in Int
    PROVE  Min({a, b}) \in Int /\ Min({a, b}) <= a /\ Min({a, b}) <= b
<1>1. \E x \in {a, b} : \A y \in {a, b} : x <= y
  OBVIOUS
<1>2. Min({a, b}) \in {a, b} /\ \A y \in {a, b} : Min({a, b}) <= y
  BY <1>1 DEF Min
<1>. QED
  BY <1>2

LEMMA MaxOfTwo ==
    ASSUME NEW a \in Int, NEW b \in Int
    PROVE  Max({a, b}) \in Int
<1>1. \E x \in {a, b} : \A y \in {a, b} : x >= y
  OBVIOUS
<1>2. Max({a, b}) \in {a, b}
  BY <1>1 DEF Max
<1>. QED
  BY <1>2

Sorted(c) == \A i, j \in DOMAIN c : i < j => c[i] < c[j]
Listing(S) == {c \in [1..Cardinality(S) -> S] : Sorted(c)}

LEMMA IntervalSubset ==
    ASSUME NEW n \in Nat, NEW S \in SUBSET (1..n)
    PROVE  IsFiniteSet(S) /\ Cardinality(S) \in Nat /\ Cardinality(S) <= n
<1>1. IsFiniteSet(1..n) /\ Cardinality(1..n) = n
  <2>1. 1 \in Int /\ n \in Int /\ (IF 1 > n THEN 0 ELSE n - 1 + 1) = n
    OBVIOUS
  <2>. QED
    BY <2>1, FS_Interval
<1>. QED
  BY <1>1, FS_Subset, FS_CardinalityType

\* The greatest element goes last.
LEMMA ListingGrows ==
    ASSUME NEW n \in Nat, n # 0, NEW S \in SUBSET (1..n), n \in S, Listing(S \ {n}) # {}
    PROVE  Listing(S) # {}
<1>. DEFINE R == S \ {n}
            k == Cardinality(R)
<1>1. n - 1 \in Nat /\ R \in SUBSET (1..n - 1) /\ \A x \in R : x \in Nat /\ x < n
  OBVIOUS
<1>2. IsFiniteSet(R) /\ k \in Nat
  BY <1>1, IntervalSubset
<1>3. Cardinality(S) = k + 1
  <2>1. S = R \cup {n} /\ n \notin R
    OBVIOUS
  <2>. HIDE DEF R
  <2>. QED
    BY <1>2, <2>1, FS_AddElement
<1>4. PICK c \in [1..k -> R] : Sorted(c)
  BY DEF Listing
<1>. HIDE DEF k
<1>. DEFINE d == [i \in 1..k + 1 |-> IF i = k + 1 THEN n ELSE c[i]]
<1>5. d \in [1..k + 1 -> S]
  <2>1. ASSUME NEW i \in 1..k + 1, i # k + 1  PROVE c[i] \in S
    BY <1>2, <1>4, <2>1
  <2>. QED
    BY <2>1
<1>6. ASSUME NEW i \in 1..k + 1, NEW j \in 1..k + 1, i < j  PROVE d[i] < d[j]
  <2>1. i \in 1..k /\ c[i] \in R /\ d[i] = c[i]
    BY <1>2, <1>4, <1>6
  <2>2. CASE j = k + 1
    BY <1>1, <2>1, <2>2
  <2>3. CASE j # k + 1
    BY <1>2, <1>4, <1>6, <2>1, <2>3 DEF Sorted
  <2>. QED
    BY <2>2, <2>3
<1>7. Sorted(d)
  BY <1>6 DEF Sorted
<1>. HIDE DEF d, R
<1>. QED
  BY <1>3, <1>5, <1>7 DEF Listing

LEMMA ListingExists ==
    ASSUME NEW n \in Nat
    PROVE  \A S \in SUBSET (1..n) : Listing(S) # {}
<1>. DEFINE bad == {k \in Nat : \E S \in SUBSET (1..k) : Listing(S) = {}}
<1>1. ASSUME bad # {}  PROVE FALSE
  <2>1. PICK k \in bad : \A j \in bad : k <= j
    <3>1. bad \in SUBSET Nat
      OBVIOUS
    <3>. HIDE DEF bad
    <3>. QED
      BY <1>1, <3>1, LeastIs
  <2>2. PICK S \in SUBSET (1..k) : Listing(S) = {}
    OBVIOUS
  <2>3. k \in Nat
    OBVIOUS
  <2>4. CASE k = 0
    <3>1. S = {}
      <4>1. 1..k = {}
        BY <2>4
      <4>. QED
        BY <4>1
    <3>2. Cardinality(S) = 0
      BY <3>1, FS_EmptySet
    <3>. DEFINE c == [i \in 1..0 |-> 0]
    <3>3. c \in [1..0 -> S] /\ Sorted(c)
      BY DEF Sorted
    <3>. HIDE DEF c
    <3>. QED
      BY <2>2, <3>2, <3>3 DEF Listing
  <2>5. CASE k # 0
    <3>1. k - 1 \in Nat /\ ~(k <= k - 1)
      BY <2>3, <2>5
    <3>2. k - 1 \notin bad
      <4>. HIDE DEF bad
      <4>. QED
        BY <2>1, <3>1
    <3>3. \A R \in SUBSET (1..k - 1) : Listing(R) # {}
      BY <3>1, <3>2
    <3>. HIDE DEF bad
    <3>4. S \ {k} \in SUBSET (1..k - 1)
      BY <2>3
    <3>5. k \in S
      <4>1. k \notin S => S \ {k} = S
        OBVIOUS
      <4>. QED
        BY <2>2, <3>3, <3>4, <4>1
    <3>. QED
      BY <2>2, <2>3, <2>5, <3>3, <3>4, <3>5, ListingGrows
  <2>. QED
    BY <2>4, <2>5
<1>. QED
  BY <1>1

Injective(c) == \A i, j \in DOMAIN c : c[i] = c[j] => i = j

\* A set of numbers in ascending order: each of them once.
LEMMA AscendingIs ==
    ASSUME NEW n \in Nat, NEW S \in SUBSET (1..n)
    PROVE  /\ Ascending(S) \in Seq(S) /\ Len(Ascending(S)) = Cardinality(S)
           /\ Cardinality(S) \in Nat /\ DOMAIN Ascending(S) = 1..Cardinality(S)
           /\ Injective(Ascending(S)) /\ Members(Ascending(S)) = S
<1>. DEFINE k == Cardinality(S)
            c == Ascending(S)
<1>1. IsFiniteSet(S) /\ k \in Nat
  BY IntervalSubset
<1>2. Ascending(S) \in [1..k -> S] /\ Sorted(Ascending(S))
  <2>1. \E f \in [1..Cardinality(S) -> S] : \A i, j \in DOMAIN f : i < j => f[i] < f[j]
    <3>1. Listing(S) # {}
      BY ListingExists
    <3>. QED
      BY <3>1 DEF Listing, Sorted
  <2>. QED
    BY <2>1 DEF Ascending, Sorted
<1>. HIDE DEF c, k
<1>3. c \in [1..k -> S] /\ Sorted(c)
  BY <1>2 DEF c
<1>4. c \in Seq(S) /\ Len(c) = k /\ DOMAIN c = 1..k
  BY <1>1, <1>3
<1>5. Injective(c)
  <2>1. ASSUME NEW i \in DOMAIN c, NEW j \in DOMAIN c, c[i] = c[j], i # j  PROVE FALSE
    <3>1. c[i] \in S /\ c[j] \in S
      BY <1>3, <1>4
    <3>2. c[i] \in Nat /\ c[j] \in Nat
      <4>1. \A x \in S : x \in Nat
        OBVIOUS
      <4>. QED
        BY <3>1, <4>1, Zenon
    <3>3. i < j \/ j < i
      BY <1>1, <1>4, <2>1
    <3>4. c[i] < c[j] \/ c[j] < c[i]
      BY <1>3, <3>3 DEF Sorted
    <3>. QED
      BY <2>1, <3>2, <3>4
  <2>. QED
    BY <2>1 DEF Injective
<1>6. c \in Surjection(1..k, S)
  <2>1. c \in Injection(1..k, S)
    BY <1>3, <1>4, <1>5 DEF Injective, Injection, IsInjective
  <2>2. IsFiniteSet(1..k) /\ Cardinality(1..k) = k
    <3>1. 1 \in Int /\ k \in Int /\ (IF 1 > k THEN 0 ELSE k - 1 + 1) = k
      BY <1>1
    <3>. QED
      BY <3>1, FS_Interval
  <2>. QED
    BY <1>1, <2>1, <2>2, FS_Injection DEF k
<1>7. Members(c) = S
  BY <1>3, <1>4, <1>6 DEF Surjection, Members
<1>. QED
  BY <1>1, <1>4, <1>5, <1>7 DEF c, k

-----------------------------------------------------------------------------
(* Clusters, and lists of disjoint ones *)

Clusters == {c \in Seq(Titles) : c # <<>> /\ Injective(c)}

LEMMA ConstantsAre ==
    /\ N \in Nat /\ MaxSize \in Nat /\ MaxSize >= 2 /\ MinSize \in Nat /\ effective_min \in Int
<1>1. N \in Nat /\ MaxSize \in Nat /\ MaxSize >= 2 /\ MinSize \in Nat
  BY SemanticClustersAssumption
<1>2. Min({MinSize, MaxSize}) \in Int
  <2>1. MinSize \in Int /\ MaxSize \in Int
    BY <1>1
  <2>. QED
    BY <2>1, MinOfTwo
<1>. QED
  BY <1>1, <1>2 DEF effective_min

LEMMA ClusterIs ==
    ASSUME NEW c \in Clusters
    PROVE  /\ Len(c) \in Nat /\ Len(c) >= 1 /\ DOMAIN c = 1..Len(c) /\ Head(c) = c[1] /\ Head(c) \in Members(c)
           /\ Members(c) \in SUBSET Titles /\ Members(c) # {} /\ Cardinality(Members(c)) = Len(c)
<1>1. c \in Seq(Titles) /\ c # <<>> /\ Injective(c)
  BY DEF Clusters
<1>2. Len(c) \in Nat /\ Len(c) >= 1 /\ DOMAIN c = 1..Len(c) /\ Head(c) = c[1] /\ c \in [1..Len(c) -> Titles]
  BY <1>1
<1>3. Members(c) \in SUBSET Titles /\ Head(c) \in Members(c)
  BY <1>2 DEF Members
<1>4. c \in Bijection(1..Len(c), Members(c))
  BY <1>1, <1>2 DEF Injective, Members, Bijection, Injection, Surjection, IsInjective
<1>5. Cardinality(Members(c)) = Len(c)
  BY <1>2, <1>4, FS_CountingElements DEF ExistsBijection
<1>. QED
  BY <1>2, <1>3, <1>5

\* A set of pages in ascending order is a cluster.
LEMMA AscendingIsCluster ==
    ASSUME NEW S \in SUBSET Titles, S # {}
    PROVE  /\ Ascending(S) \in Clusters /\ Members(Ascending(S)) = S
           /\ Len(Ascending(S)) = Cardinality(S) /\ Cardinality(S) \in Nat /\ IsFiniteSet(S)
<1>1. N \in Nat /\ S \in SUBSET (1..N)
  BY ConstantsAre DEF Titles
<1>2. /\ Ascending(S) \in Seq(S) /\ Len(Ascending(S)) = Cardinality(S) /\ Cardinality(S) \in Nat
      /\ Injective(Ascending(S)) /\ Members(Ascending(S)) = S
  BY <1>1, AscendingIs
<1>3. IsFiniteSet(S)
  BY <1>1, IntervalSubset
<1>4. Ascending(S) # <<>>
  <2>1. ASSUME Ascending(S) = <<>>  PROVE FALSE
    <3>1. Cardinality(S) = 0
      BY <1>2, <2>1
    <3>. QED
      BY <1>3, <3>1, FS_EmptySet
  <2>. QED
    BY <2>1
<1>5. Ascending(S) \in Seq(Titles)
  BY <1>2
<1>. QED
  BY <1>2, <1>3, <1>4, <1>5 DEF Clusters

PagesIn(s) == UNION {Members(s[i]) : i \in DOMAIN s}
Disjoint(s) == \A i, k \in DOMAIN s : i # k => Members(s[i]) \cap Members(s[k]) = {}
Parts == {s \in Seq(Clusters) : Disjoint(s)}

LEMMA PagesAre ==
    ASSUME NEW s \in Seq(Clusters)
    PROVE  PagesIn(s) \in SUBSET Titles /\ \A i \in DOMAIN s : s[i] \in Clusters /\ Members(s[i]) \subseteq PagesIn(s)
<1>1. \A i \in DOMAIN s : s[i] \in Clusters
  OBVIOUS
<1>2. \A i \in DOMAIN s : Members(s[i]) \in SUBSET Titles
  BY <1>1, ClusterIs
<1>. QED
  BY <1>1, <1>2 DEF PagesIn

LEMMA NoParts == <<>> \in Parts /\ PagesIn(<<>>) = {}
BY DEF Parts, PagesIn, Disjoint

LEMMA PartsAppend ==
    ASSUME NEW s \in Parts, NEW c \in Clusters, Members(c) \cap PagesIn(s) = {}
    PROVE  Append(s, c) \in Parts /\ PagesIn(Append(s, c)) = PagesIn(s) \cup Members(c)
<1>. DEFINE a == Append(s, c)
            n == Len(s)
<1>1. s \in Seq(Clusters) /\ Disjoint(s) /\ n \in Nat /\ DOMAIN s = 1..n
  BY DEF Parts
<1>2. a \in Seq(Clusters) /\ DOMAIN a = 1..n + 1 /\ a[n + 1] = c /\ \A i \in 1..n : a[i] = s[i]
  BY <1>1
<1>. HIDE DEF a, n
<1>3. \A i \in 1..n + 1 : i \in 1..n \/ i = n + 1
  BY <1>1
<1>4. \A i \in 1..n : i \in 1..n + 1 /\ i # n + 1
  BY <1>1
<1>5. n + 1 \in 1..n + 1
  BY <1>1
<1>6. \A i \in 1..n : Members(s[i]) \subseteq PagesIn(s)
  BY <1>1, PagesAre
<1>7. Disjoint(a)
  <2>1. ASSUME NEW i \in 1..n + 1, NEW k \in 1..n + 1, i # k  PROVE Members(a[i]) \cap Members(a[k]) = {}
    <3>1. CASE i \in 1..n /\ k \in 1..n
      BY <1>1, <1>2, <2>1, <3>1 DEF Disjoint
    <3>2. CASE i = n + 1 /\ k \in 1..n
      BY <1>2, <1>6, <3>2
    <3>3. CASE i \in 1..n /\ k = n + 1
      BY <1>2, <1>6, <3>3
    <3>. QED
      BY <1>3, <2>1, <3>1, <3>2, <3>3
  <2>. QED
    BY <1>2, <2>1 DEF Disjoint
<1>8. PagesIn(a) = PagesIn(s) \cup Members(c)
  BY <1>1, <1>2, <1>3, <1>4, <1>5 DEF PagesIn
<1>. QED
  BY <1>2, <1>7, <1>8 DEF Parts, a

LEMMA PartsFront ==
    ASSUME NEW s \in Parts, s # <<>>
    PROVE  /\ Front(s) \in Parts /\ Last(s) \in Clusters
           /\ Members(Last(s)) \cap PagesIn(Front(s)) = {} /\ PagesIn(s) = PagesIn(Front(s)) \cup Members(Last(s))
<1>. DEFINE n == Len(s)
            f == Front(s)
<1>1. s \in Seq(Clusters) /\ Disjoint(s) /\ n \in Nat /\ n # 0 /\ DOMAIN s = 1..n
  BY DEF Parts
<1>2. n - 1 \in Nat /\ f \in Seq(Clusters) /\ DOMAIN f = 1..n - 1 /\ \A i \in 1..n - 1 : f[i] = s[i]
  <2>1. n - 1 \in Nat /\ f = SubSeq(s, 1, n - 1)
    BY <1>1 DEF Front
  <2>. QED
    BY <1>1, <2>1
<1>3. n \in 1..n /\ Last(s) = s[n]
  BY <1>1 DEF Last
<1>. HIDE DEF n, f
<1>4. Last(s) \in Clusters
  BY <1>1, <1>3
<1>5. \A i \in 1..n - 1 : i \in 1..n /\ i # n
  BY <1>1
<1>6. \A i \in 1..n : i \in 1..n - 1 \/ i = n
  BY <1>1
<1>7. Disjoint(f)
  BY <1>1, <1>2, <1>5 DEF Disjoint
<1>8. Members(Last(s)) \cap PagesIn(f) = {}
  BY <1>1, <1>2, <1>3, <1>5 DEF Disjoint, PagesIn
<1>9. PagesIn(s) = PagesIn(f) \cup Members(Last(s))
  BY <1>1, <1>2, <1>3, <1>5, <1>6 DEF PagesIn
<1>. QED
  BY <1>2, <1>4, <1>7, <1>8, <1>9 DEF Parts, f

LEMMA PartsReverse ==
    ASSUME NEW s \in Parts
    PROVE  Reverse(s) \in Parts /\ PagesIn(Reverse(s)) = PagesIn(s)
<1>. DEFINE n == Len(s)
            r == Reverse(s)
<1>1. s \in Seq(Clusters) /\ Disjoint(s) /\ n \in Nat /\ DOMAIN s = 1..n
  BY DEF Parts
<1>2. \A i \in 1..n : n - i + 1 \in 1..n /\ n - (n - i + 1) + 1 = i
  BY <1>1
<1>3. r = [i \in 1..n |-> s[n - i + 1]]
  BY DEF Reverse
<1>. HIDE DEF n, r
<1>4. r \in Seq(Clusters) /\ DOMAIN r = 1..n /\ \A i \in 1..n : r[i] = s[n - i + 1]
  <2>1. \A i \in 1..n : s[n - i + 1] \in Clusters
    BY <1>1, <1>2
  <2>. QED
    BY <1>1, <1>3, <2>1
<1>5. \A i, k \in 1..n : i # k => n - i + 1 # n - k + 1
  BY <1>1
<1>6. Disjoint(r)
  BY <1>1, <1>2, <1>4, <1>5 DEF Disjoint
<1>7. PagesIn(r) = PagesIn(s)
  <2>1. \A x : x \in PagesIn(r) => x \in PagesIn(s)
    BY <1>1, <1>2, <1>4 DEF PagesIn
  <2>2. ASSUME NEW x \in PagesIn(s)  PROVE x \in PagesIn(r)
    <3>1. PICK i \in 1..n : x \in Members(s[i])
      BY <1>1 DEF PagesIn
    <3>2. n - i + 1 \in 1..n /\ r[n - i + 1] = s[i]
      BY <1>2, <1>4
    <3>. QED
      BY <1>4, <3>1, <3>2 DEF PagesIn
  <2>. QED
    BY <2>1, <2>2
<1>. QED
  BY <1>4, <1>6, <1>7 DEF Parts, r

-----------------------------------------------------------------------------
(* The communities, and the halves of a cluster *)

LEMMA GroupedIs ==
    ASSUME community \in [Titles -> Titles]
    PROVE  Grouped \in Parts /\ PagesIn(Grouped) = Titles
<1>. DEFINE F == {t \in Titles : \A u \in Of(community[t]) : t <= u}
            firsts == Ascending(F)
            k == Cardinality(F)
            g == [i \in 1..k |-> Ascending(Of(community[firsts[i]]))]
<1>1. N \in Nat /\ F \in SUBSET (1..N) /\ F \subseteq Titles
  BY ConstantsAre DEF Titles
<1>2. /\ firsts \in Seq(F) /\ Len(firsts) = k /\ k \in Nat /\ DOMAIN firsts = 1..k
      /\ Injective(firsts) /\ Members(firsts) = F
  <2>. HIDE DEF F
  <2>. QED
    BY <1>1, AscendingIs
<1>3. Grouped = g
  BY <1>2 DEF Grouped
<1>4. ASSUME NEW t \in F  PROVE t \in Titles /\ \A u \in Titles : community[u] = community[t] => t <= u
  BY <1>4 DEF Of
<1>. HIDE DEF F, firsts, k
<1>5. ASSUME NEW i \in 1..k
      PROVE  /\ g[i] \in Clusters
             /\ Members(g[i]) = {t \in Titles : community[t] = community[firsts[i]]}
             /\ firsts[i] \in Titles
             /\ \A u \in Titles : community[u] = community[firsts[i]] => firsts[i] <= u
  <2>1. firsts[i] \in F
    BY <1>2
  <2>2. firsts[i] \in Titles /\ \A u \in Titles : community[u] = community[firsts[i]] => firsts[i] <= u
    BY <1>4, <2>1
  <2>3. Of(community[firsts[i]]) \in SUBSET Titles /\ firsts[i] \in Of(community[firsts[i]])
    BY <2>2 DEF Of
  <2>4. g[i] \in Clusters /\ Members(g[i]) = Of(community[firsts[i]])
    BY <2>3, AscendingIsCluster
  <2>. QED
    BY <2>2, <2>4 DEF Of
<1>. HIDE DEF g
<1>6. g \in Seq(Clusters) /\ DOMAIN g = 1..k
  <2>1. g = [i \in 1..k |-> g[i]]
    BY DEF g
  <2>. QED
    BY <1>2, <1>5, <2>1
<1>7. ASSUME NEW i \in 1..k, NEW j \in 1..k, NEW x \in Members(g[i]), x \in Members(g[j])  PROVE i = j
  <2>1. community[firsts[i]] = community[firsts[j]]
    BY <1>5, <1>7
  <2>2. firsts[i] <= firsts[j] /\ firsts[j] <= firsts[i] /\ firsts[i] \in Nat /\ firsts[j] \in Nat
    BY <1>5, <2>1 DEF Titles
  <2>3. firsts[i] = firsts[j]
    BY <2>2
  <2>. QED
    BY <1>2, <2>3 DEF Injective
<1>8. Disjoint(g)
  BY <1>6, <1>7 DEF Disjoint
<1>9. ASSUME NEW t \in Titles  PROVE t \in PagesIn(g)
  <2>. DEFINE S == {u \in Titles : community[u] = community[t]}
  <2>1. S \in SUBSET Nat /\ S # {}
    BY DEF Titles
  <2>2. PICK m \in S : \A u \in S : m <= u
    BY <2>1, LeastIs
  <2>3. m \in Titles /\ community[m] = community[t] /\ \A u \in Of(community[m]) : m <= u
    BY <2>2 DEF Of
  <2>4. m \in Members(firsts)
    BY <1>2, <2>3 DEF F
  <2>5. PICK i \in 1..k : firsts[i] = m
    BY <1>2, <2>4 DEF Members
  <2>6. t \in Members(g[i])
    BY <1>5, <2>3, <2>5
  <2>. QED
    BY <1>6, <2>6 DEF PagesIn
<1>10. PagesIn(g) = Titles
  BY <1>6, <1>9, PagesAre
<1>. QED
  BY <1>3, <1>6, <1>8, <1>10 DEF Parts

Similarities == sim \in [Pairs -> 0..MaxSimilarity]

LEMMA SimilarityIs ==
    ASSUME Similarities, NEW a \in Titles, NEW b \in Titles, a # b
    PROVE  sim[{a, b}] \in Nat
<1>1. {a, b} \in Pairs
  BY DEF Pairs
<1>2. \A x \in 0..MaxSimilarity : x \in Nat
  OBVIOUS
<1>. QED
  BY <1>1, <1>2 DEF Similarities

\* The seeds are two pages: there is a first pair among the least similar.
LEMMA SeedsAre ==
    ASSUME Similarities, NEW c \in Clusters, Len(c) >= 2
    PROVE  Seeds(c) \in (DOMAIN c) \X (DOMAIN c) /\ c[Seeds(c)[1]] # c[Seeds(c)[2]]
<1>. DEFINE ij == {p \in (DOMAIN c) \X (DOMAIN c) : p[1] < p[2]}
            s(p) == sim[{c[p[1]], c[p[2]]}]
            first(p, q) == p[1] < q[1] \/ (p[1] = q[1] /\ p[2] <= q[2])
            Least(p) == \A q \in ij : s(p) < s(q) \/ (s(p) = s(q) /\ first(p, q))
<1>1. c \in Seq(Titles) /\ Injective(c) /\ Len(c) \in Nat /\ DOMAIN c = 1..Len(c)
  BY ClusterIs DEF Clusters
<1>2. ASSUME NEW p \in ij
      PROVE  /\ p[1] \in DOMAIN c /\ p[2] \in DOMAIN c /\ p[1] \in Nat /\ p[2] \in Nat /\ p[1] < p[2]
             /\ p = <<p[1], p[2]>> /\ c[p[1]] # c[p[2]] /\ s(p) \in Nat
  <2>1. p[1] \in DOMAIN c /\ p[2] \in DOMAIN c /\ p[1] < p[2] /\ p = <<p[1], p[2]>>
    OBVIOUS
  <2>2. p[1] \in Nat /\ p[2] \in Nat
    BY <1>1, <2>1
  <2>3. p[1] # p[2]
    BY <2>1, <2>2
  <2>4. c[p[1]] # c[p[2]]
    BY <1>1, <2>1, <2>3 DEF Injective
  <2>5. c[p[1]] \in Titles /\ c[p[2]] \in Titles
    BY <1>1, <2>1
  <2>. QED
    BY <2>1, <2>2, <2>4, <2>5, SimilarityIs
<1>3. <<1, 2>> \in ij
  BY <1>1
<1>4. ASSUME NEW a \in DOMAIN c, NEW b \in DOMAIN c, a < b  PROVE <<a, b>> \in ij
  BY <1>4
<1>. HIDE DEF ij
<1>. DEFINE values == {s(p) : p \in ij}
<1>5. values \in SUBSET Nat /\ values # {}
  BY <1>2, <1>3
<1>6. PICK m \in values : \A x \in values : m <= x
  <2>. HIDE DEF values
  <2>. QED
    BY <1>5, LeastIs
<1>7. m \in Nat /\ \A q \in ij : m <= s(q)
  BY <1>5, <1>6
<1>. DEFINE lefts == {p[1] : p \in {q \in ij : s(q) = m}}
<1>8. lefts \in SUBSET Nat /\ lefts # {}
  BY <1>2, <1>6
<1>9. PICK a \in lefts : \A x \in lefts : a <= x
  <2>. HIDE DEF lefts
  <2>. QED
    BY <1>8, LeastIs
<1>. DEFINE rights == {p[2] : p \in {q \in ij : s(q) = m /\ q[1] = a}}
<1>10. rights \in SUBSET Nat /\ rights # {}
  BY <1>2, <1>9
<1>11. PICK b \in rights : \A x \in rights : b <= x
  <2>. HIDE DEF rights
  <2>. QED
    BY <1>10, LeastIs
<1>12. PICK p \in ij : p[2] = b /\ s(p) = m /\ p[1] = a
  BY <1>11
<1>13. ASSUME NEW q \in ij  PROVE s(p) < s(q) \/ (s(p) = s(q) /\ first(p, q))
  <2>1. m <= s(q) /\ s(q) \in Nat
    BY <1>2, <1>7
  <2>2. CASE s(q) # m
    <3>1. m < s(q)
      BY <1>7, <2>1, <2>2
    <3>. QED
      BY <1>12, <3>1
  <2>3. CASE s(q) = m
    <3>1. a <= q[1] /\ a \in Nat /\ q[1] \in Nat
      BY <1>2, <1>8, <1>9, <2>3
    <3>2. q[1] = a => b <= q[2]
      BY <1>11, <2>3
    <3>3. a < q[1] \/ a = q[1]
      BY <3>1
    <3>. QED
      BY <1>12, <2>3, <3>2, <3>3
  <2>. QED
    BY <2>2, <2>3
<1>14. \E r \in ij : Least(r)
  BY <1>13
<1>15. Seeds(c) = CHOOSE r \in ij : Least(r)
  BY DEF Seeds, ij
<1>16. Seeds(c) \in ij
  <2>. HIDE DEF Least
  <2>. QED
    BY <1>14, <1>15
<1>. QED
  BY <1>2, <1>16 DEF ij

LEMMA ClusterAppend ==
    ASSUME NEW c \in Clusters, NEW t \in Titles, t \notin Members(c)
    PROVE  Append(c, t) \in Clusters /\ Members(Append(c, t)) = Members(c) \cup {t}
<1>. DEFINE a == Append(c, t)
            n == Len(c)
<1>1. c \in Seq(Titles) /\ Injective(c) /\ n \in Nat /\ DOMAIN c = 1..n
  BY ClusterIs DEF Clusters
<1>2. a \in Seq(Titles) /\ a # <<>> /\ DOMAIN a = 1..n + 1 /\ a[n + 1] = t /\ \A i \in 1..n : a[i] = c[i]
  BY <1>1
<1>. HIDE DEF a, n
<1>3. \A i \in 1..n + 1 : i \in 1..n \/ i = n + 1
  BY <1>1
<1>4. n + 1 \in 1..n + 1 /\ \A i \in 1..n : i \in 1..n + 1
  BY <1>1
<1>5. \A i \in 1..n : c[i] # t
  BY <1>1 DEF Members
<1>6. Injective(a)
  BY <1>1, <1>2, <1>3, <1>5 DEF Injective
<1>7. Members(a) = Members(c) \cup {t}
  BY <1>1, <1>2, <1>3, <1>4 DEF Members
<1>. QED
  BY <1>2, <1>6, <1>7 DEF Clusters, a

LEMMA OnePage ==
    ASSUME NEW t \in Titles
    PROVE  <<t>> \in Clusters /\ Members(<<t>>) = {t}
<1>1. <<t>> \in Seq(Titles) /\ <<t>> # <<>> /\ DOMAIN <<t>> = {1} /\ <<t>>[1] = t
  OBVIOUS
<1>2. Injective(<<t>>) /\ Members(<<t>>) = {t}
  BY <1>1 DEF Injective, Members
<1>. QED
  BY <1>1, <1>2 DEF Clusters

\* Two halves of the seeds a and b and the first i pages.
Halves(h, c, a, b, i) ==
    \E x, y \in Clusters :
        /\ h = <<x, y>> /\ Members(x) \cap Members(y) = {}
        /\ Members(x) \cup Members(y) = {a, b} \cup {c[k] : k \in 1..i}

LEMMA HalvesGrow ==
    ASSUME NEW c \in Clusters, NEW a, NEW b, NEW i \in 1..Len(c), NEW h, Halves(h, c, a, b, i - 1)
    PROVE  Halves(IF c[i] \in {a, b} THEN h ELSE Joins(c[i], h), c, a, b, i)
<1>1. c \in Seq(Titles) /\ Injective(c) /\ Len(c) \in Nat /\ DOMAIN c = 1..Len(c) /\ i \in Nat /\ c[i] \in Titles
  BY ClusterIs DEF Clusters
<1>2. PICK x, y \in Clusters :
        /\ h = <<x, y>> /\ Members(x) \cap Members(y) = {}
        /\ Members(x) \cup Members(y) = {a, b} \cup {c[k] : k \in 1..i - 1}
  BY DEF Halves
<1>3. {c[k] : k \in 1..i} = {c[k] : k \in 1..i - 1} \cup {c[i]}
  <2>1. 1..i = (1..i - 1) \cup {i}
    BY <1>1
  <2>. QED
    BY <2>1
<1>4. CASE c[i] \in {a, b}
  BY <1>2, <1>3, <1>4 DEF Halves
<1>5. CASE c[i] \notin {a, b}
  <2>1. ASSUME NEW k \in 1..i - 1  PROVE c[k] # c[i]
    <3>1. k \in DOMAIN c /\ k # i
      BY <1>1
    <3>. QED
      BY <1>1, <3>1 DEF Injective
  <2>2. c[i] \notin Members(x) \cup Members(y)
    BY <1>2, <1>5, <2>1
  <2>3. /\ Append(x, c[i]) \in Clusters /\ Members(Append(x, c[i])) = Members(x) \cup {c[i]}
        /\ Append(y, c[i]) \in Clusters /\ Members(Append(y, c[i])) = Members(y) \cup {c[i]}
    BY <1>1, <2>2, ClusterAppend
  <2>4. Joins(c[i], h) \in {<<Append(x, c[i]), y>>, <<x, Append(y, c[i])>>}
    BY <1>2 DEF Joins
  <2>5. CASE Joins(c[i], h) = <<Append(x, c[i]), y>>
    <3>1. /\ Members(Append(x, c[i])) \cap Members(y) = {}
          /\ Members(Append(x, c[i])) \cup Members(y) = {a, b} \cup {c[k] : k \in 1..i}
      BY <1>2, <1>3, <2>2, <2>3
    <3>. QED
      BY <1>5, <2>3, <2>5, <3>1 DEF Halves
  <2>6. CASE Joins(c[i], h) = <<x, Append(y, c[i])>>
    <3>1. /\ Members(x) \cap Members(Append(y, c[i])) = {}
          /\ Members(x) \cup Members(Append(y, c[i])) = {a, b} \cup {c[k] : k \in 1..i}
      BY <1>2, <1>3, <2>2, <2>3
    <3>. QED
      BY <1>5, <2>3, <2>6, <3>1 DEF Halves
  <2>. QED
    BY <2>4, <2>5, <2>6
<1>. QED
  BY <1>4, <1>5

\* The two halves of a cluster are clusters, and each page is in one of them.
LEMMA BisectedIs ==
    ASSUME Similarities, NEW c \in Clusters, Len(c) >= 2
    PROVE  \E x, y \in Clusters :
              Bisected(c) = <<x, y>> /\ Members(x) \cap Members(y) = {} /\ Members(x) \cup Members(y) = Members(c)
<1>. DEFINE a == c[Seeds(c)[1]]
            b == c[Seeds(c)[2]]
            m == Len(c)
            first == <<<<a>>, <<b>>>>
            Grows(h, i) == IF c[i] \in {a, b} THEN h ELSE Joins(c[i], h)
            Unfolds(f, n) == f = [i \in 0..n |-> IF i = 0 THEN first ELSE Grows(f[i - 1], i)]
            halves == CHOOSE f : Unfolds(f, m)
            missing == {n \in Nat : ~\E f : Unfolds(f, n)}
<1>1. c \in Seq(Titles) /\ Injective(c) /\ m \in Nat /\ DOMAIN c = 1..m
  BY ClusterIs DEF Clusters
<1>2. a \in Titles /\ b \in Titles /\ a # b /\ a \in Members(c) /\ b \in Members(c)
  <2>1. Seeds(c)[1] \in DOMAIN c /\ Seeds(c)[2] \in DOMAIN c /\ a # b
    BY SeedsAre
  <2>. HIDE DEF m
  <2>. QED
    BY <1>1, <2>1 DEF Members
<1>3. Bisected(c) = halves[m]
  BY DEF Bisected
<1>4. \E f : Unfolds(f, m)
  <2>1. SUFFICES ASSUME missing # {}  PROVE FALSE
    BY <1>1
  <2>2. PICK n \in missing : \A k \in missing : n <= k
    <3>1. missing \in SUBSET Nat
      OBVIOUS
    <3>. HIDE DEF missing
    <3>. QED
      BY <2>1, <3>1, LeastIs
  <2>3. n \in Nat /\ ~\E f : Unfolds(f, n)
    OBVIOUS
  <2>4. CASE n = 0
    <3>. DEFINE f == [i \in 0..n |-> first]
    <3>1. Unfolds(f, n)
      <4>1. \A i \in 0..n : i = 0
        BY <2>4
      <4>. HIDE DEF first
      <4>. QED
        BY <4>1
    <3>. QED
      BY <2>3, <3>1
  <2>5. CASE n # 0
    <3>1. n - 1 \in Nat /\ ~(n <= n - 1)
      BY <2>3, <2>5
    <3>2. n - 1 \notin missing
      <4>. HIDE DEF missing
      <4>. QED
        BY <2>2, <3>1
    <3>3. PICK f : Unfolds(f, n - 1)
      BY <3>1, <3>2
    <3>. DEFINE g == [i \in 0..n |-> IF i = n THEN Grows(f[n - 1], n) ELSE f[i]]
    <3>. HIDE DEF first, Grows
    <3>4. ASSUME NEW i \in 0..n
          PROVE  g[i] = IF i = 0 THEN first ELSE Grows(g[i - 1], i)
      <4>1. CASE i = 0
        <5>1. g[i] = f[0] /\ 0 \in 0..n - 1
          BY <2>5, <3>1, <4>1
        <5>2. f[0] = first
          BY <3>3, <5>1
        <5>. QED
          BY <4>1, <5>1, <5>2
      <4>2. CASE i = n
        <5>1. i - 1 \in 0..n /\ i - 1 # n /\ i # 0
          BY <2>3, <2>5, <4>2
        <5>2. g[i - 1] = f[n - 1]
          BY <4>2, <5>1
        <5>. QED
          BY <4>2, <5>1, <5>2
      <4>3. CASE i # 0 /\ i # n
        <5>1. i \in 0..n - 1 /\ i - 1 \in 0..n /\ i - 1 # n
          BY <2>3, <4>3
        <5>2. g[i] = f[i] /\ g[i - 1] = f[i - 1]
          BY <4>3, <5>1
        <5>3. f[i] = Grows(f[i - 1], i)
          BY <3>3, <4>3, <5>1
        <5>. QED
          BY <4>3, <5>2, <5>3
      <4>. QED
        BY <4>1, <4>2, <4>3
    <3>5. g = [i \in 0..n |-> g[i]]
      OBVIOUS
    <3>. HIDE DEF g
    <3>6. Unfolds(g, n)
      BY <3>4, <3>5
    <3>. QED
      BY <2>3, <3>6
  <2>. QED
    BY <2>4, <2>5
<1>5. Unfolds(halves, m)
  BY <1>4
<1>. HIDE DEF halves, first, missing
<1>6. halves[0] = first /\ \A i \in 1..m : halves[i] = Grows(halves[i - 1], i)
  <2>. HIDE DEF Grows
  <2>1. \A i \in 0..m : halves[i] = IF i = 0 THEN first ELSE Grows(halves[i - 1], i)
    BY <1>5
  <2>2. 0 \in 0..m /\ \A i \in 1..m : i \in 0..m /\ i # 0
    BY <1>1
  <2>. QED
    BY <2>1, <2>2
<1>. HIDE DEF Unfolds
<1>. DEFINE bad == {n \in 0..m : ~Halves(halves[n], c, a, b, n)}
<1>7. ASSUME bad # {}  PROVE FALSE
  <2>1. PICK n \in bad : \A k \in bad : n <= k
    <3>1. bad \in SUBSET Nat
      BY <1>1
    <3>. HIDE DEF bad
    <3>. QED
      BY <1>7, <3>1, LeastIs
  <2>2. n \in 0..m /\ ~Halves(halves[n], c, a, b, n)
    OBVIOUS
  <2>3. CASE n = 0
    <3>1. <<a>> \in Clusters /\ Members(<<a>>) = {a} /\ <<b>> \in Clusters /\ Members(<<b>>) = {b}
      BY <1>2, OnePage
    <3>2. {c[k] : k \in 1..0} = {}
      OBVIOUS
    <3>. HIDE DEF a, b
    <3>3. Halves(first, c, a, b, 0)
      <4>. DEFINE x == <<a>>
                  y == <<b>>
      <4>1. first = <<x, y>>
        BY DEF first
      <4>2. /\ x \in Clusters /\ y \in Clusters /\ Members(x) \cap Members(y) = {}
            /\ Members(x) \cup Members(y) = {a, b} \cup {c[k] : k \in 1..0}
        BY <1>2, <3>1, <3>2
      <4>. HIDE DEF x, y
      <4>. QED
        BY <4>1, <4>2 DEF Halves
    <3>. QED
      BY <1>6, <2>2, <2>3, <3>3
  <2>4. CASE n # 0
    <3>1. n - 1 \in 0..m /\ ~(n <= n - 1) /\ n \in 1..m
      BY <1>1, <2>2, <2>4
    <3>2. n - 1 \notin bad
      <4>. HIDE DEF bad
      <4>. QED
        BY <2>1, <3>1
    <3>3. Halves(halves[n - 1], c, a, b, n - 1)
      BY <3>1, <3>2
    <3>4. Halves(Grows(halves[n - 1], n), c, a, b, n)
      BY <3>1, <3>3, HalvesGrow
    <3>. QED
      BY <1>6, <2>2, <3>1, <3>4
  <2>. QED
    BY <2>3, <2>4
<1>8. Halves(halves[m], c, a, b, m)
  <2>1. m \in 0..m
    BY <1>1
  <2>. QED
    BY <1>7, <2>1
<1>9. {a, b} \cup {c[k] : k \in 1..m} = Members(c)
  <2>1. Members(c) = {c[k] : k \in 1..m}
    BY <1>1 DEF Members
  <2>. HIDE DEF a, b, m
  <2>. QED
    BY <1>2, <2>1
<1>. HIDE DEF a, b, m
<1>. QED
  BY <1>3, <1>8, <1>9 DEF Halves

-----------------------------------------------------------------------------
(* Pooling and packing *)

LEMMA FunctionIsSeq ==
    ASSUME NEW S, NEW n \in Nat, NEW f \in [1..n -> S]
    PROVE  f \in Seq(S) /\ DOMAIN f = 1..n
OBVIOUS

\* The clusters that stay, sorted, and the pages of the others.
Stays(s, large) == [i \in DOMAIN large |-> Ascending(Members(s[large[i]]))]
Leaves(s, small) == UNION {Members(s[i]) : i \in small}

WellKept(s, r, rest) ==
    /\ r \in Parts /\ rest \in SUBSET Titles
    /\ PagesIn(r) \cap rest = {} /\ PagesIn(r) \cup rest = PagesIn(s)
    /\ \A i \in DOMAIN r : \E k \in DOMAIN s : Len(r[i]) = Len(s[k])

LEMMA KeptAre ==
    ASSUME NEW s \in Parts, NEW small \in SUBSET DOMAIN s, NEW r, r = Stays(s, Ascending(DOMAIN s \ small))
    PROVE  WellKept(s, r, Leaves(s, small))
<1>. DEFINE n == Len(s)
            big == DOMAIN s \ small
            large == Ascending(big)
            rest == Leaves(s, small)
            m == Cardinality(big)
<1>1. s \in Seq(Clusters) /\ Disjoint(s) /\ n \in Nat /\ DOMAIN s = 1..n
  BY DEF Parts
<1>2. /\ large \in Seq(big) /\ m \in Nat /\ DOMAIN large = 1..m
      /\ Injective(large) /\ Members(large) = big
  <2>1. big \in SUBSET (1..n)
    BY <1>1
  <2>. HIDE DEF big, n
  <2>. QED
    BY <1>1, <2>1, AscendingIs DEF big
<1>. HIDE DEF n, m
<1>3. \A i \in 1..m : large[i] \in DOMAIN s /\ large[i] \notin small
  BY <1>2
<1>4. \A i \in DOMAIN s : i \notin small => \E k \in 1..m : large[k] = i
  BY <1>2 DEF Members
<1>5. \A i, k \in 1..m : i # k => large[i] # large[k]
  BY <1>2 DEF Injective
<1>. HIDE DEF big, large, rest
<1>0. r = [i \in 1..m |-> Ascending(Members(s[large[i]]))]
  BY <1>2 DEF Stays, large, big
<1>6. ASSUME NEW i \in 1..m
      PROVE  /\ r[i] \in Clusters /\ Members(r[i]) = Members(s[large[i]])
             /\ Len(r[i]) = Len(s[large[i]]) /\ Members(s[large[i]]) \subseteq PagesIn(s)
  <2>1. s[large[i]] \in Clusters /\ Members(s[large[i]]) \subseteq PagesIn(s)
    BY <1>1, <1>3, PagesAre
  <2>2. /\ Members(s[large[i]]) \in SUBSET Titles /\ Members(s[large[i]]) # {}
        /\ Cardinality(Members(s[large[i]])) = Len(s[large[i]])
    BY <2>1, ClusterIs
  <2>3. r[i] = Ascending(Members(s[large[i]]))
    BY <1>0
  <2>. QED
    BY <2>1, <2>2, <2>3, AscendingIsCluster
<1>7. r \in Seq(Clusters) /\ DOMAIN r = 1..m
  <2>1. r = [i \in 1..m |-> r[i]]
    BY <1>0
  <2>2. m \in Nat /\ \A i \in 1..m : r[i] \in Clusters
    BY <1>2, <1>6
  <2>3. r \in [1..m -> Clusters]
    BY <2>1, <2>2
  <2>. QED
    BY <2>2, <2>3, FunctionIsSeq
<1>8. Disjoint(r)
  <2>1. ASSUME NEW i \in 1..m, NEW k \in 1..m, i # k  PROVE Members(r[i]) \cap Members(r[k]) = {}
    <3>1. large[i] \in DOMAIN s /\ large[k] \in DOMAIN s /\ large[i] # large[k]
      BY <1>3, <1>5, <2>1
    <3>2. Members(s[large[i]]) \cap Members(s[large[k]]) = {}
      BY <1>1, <3>1 DEF Disjoint
    <3>3. Members(r[i]) = Members(s[large[i]]) /\ Members(r[k]) = Members(s[large[k]])
      BY <1>6
    <3>. QED
      BY <3>2, <3>3
  <2>. QED
    BY <1>7, <2>1 DEF Disjoint
<1>9. rest \in SUBSET Titles
  BY <1>1, PagesAre DEF rest, Leaves
<1>10. PagesIn(r) \cap rest = {}
  <2>1. ASSUME NEW i \in 1..m, NEW k \in small  PROVE Members(r[i]) \cap Members(s[k]) = {}
    <3>1. large[i] \in DOMAIN s /\ k \in DOMAIN s /\ large[i] # k
      BY <1>3
    <3>. QED
      BY <1>1, <1>6, <3>1 DEF Disjoint
  <2>2. ASSUME NEW x \in PagesIn(r), x \in rest  PROVE FALSE
    <3>1. PICK i \in 1..m : x \in Members(r[i])
      BY <1>7 DEF PagesIn
    <3>2. PICK k \in small : x \in Members(s[k])
      BY <2>2 DEF rest, Leaves
    <3>. QED
      BY <2>1, <3>1, <3>2
  <2>. QED
    BY <2>2
<1>11. PagesIn(r) \cup rest = PagesIn(s)
  <2>1. PagesIn(r) \subseteq PagesIn(s)
    BY <1>6, <1>7 DEF PagesIn
  <2>2. rest \subseteq PagesIn(s)
    BY DEF PagesIn, rest, Leaves
  <2>3. ASSUME NEW x \in PagesIn(s), x \notin rest  PROVE x \in PagesIn(r)
    <3>1. PICK i \in DOMAIN s : x \in Members(s[i])
      BY DEF PagesIn
    <3>2. i \notin small
      BY <2>3, <3>1 DEF rest, Leaves
    <3>3. PICK k \in 1..m : large[k] = i
      BY <1>4, <3>2
    <3>4. x \in Members(r[k])
      BY <1>6, <3>1, <3>3
    <3>. QED
      BY <1>7, <3>4 DEF PagesIn
  <2>. QED
    BY <2>1, <2>2, <2>3
<1>12. \A i \in DOMAIN r : \E k \in DOMAIN s : Len(r[i]) = Len(s[k])
  BY <1>3, <1>6, <1>7
<1>13. /\ r \in Parts /\ rest \in SUBSET Titles
       /\ PagesIn(r) \cap rest = {} /\ PagesIn(r) \cup rest = PagesIn(s)
  BY <1>7, <1>8, <1>9, <1>10, <1>11 DEF Parts, rest
<1>. QED
  BY <1>12, <1>13 DEF WellKept, rest


LEMMA KeptWell ==
    ASSUME NEW s \in Parts, NEW small \in SUBSET DOMAIN s
    PROVE  WellKept(s, Stays(s, Ascending(DOMAIN s \ small)), Leaves(s, small))
<1>1. PICK r : r = Stays(s, Ascending(DOMAIN s \ small))
  OBVIOUS
<1>2. WellKept(s, r, Leaves(s, small))
  BY <1>1, KeptAre
<1>. QED
  BY <1>1, <1>2

\* A page is added to one of the clusters.
Attached(s, i, t) == [s EXCEPT ![i] = Ascending(Members(@) \cup {t})]

LEMMA AttachedIs ==
    ASSUME NEW s \in Parts, NEW i \in DOMAIN s, NEW t \in Titles, t \notin PagesIn(s),
           NEW r, r = Attached(s, i, t)
    PROVE  /\ r \in Parts /\ PagesIn(r) = PagesIn(s) \cup {t}
           /\ DOMAIN r = DOMAIN s /\ Len(r[i]) = Len(s[i]) + 1
           /\ \A k \in DOMAIN s : k # i => r[k] = s[k]
<1>1. s \in Seq(Clusters) /\ Disjoint(s)
  BY DEF Parts
<1>2. s[i] \in Clusters /\ \A k \in DOMAIN s : Members(s[k]) \subseteq PagesIn(s)
  BY <1>1, PagesAre
<1>3. /\ Members(s[i]) \in SUBSET Titles /\ Members(s[i]) # {} /\ Cardinality(Members(s[i])) = Len(s[i])
      /\ t \notin Members(s[i])
  BY <1>2, ClusterIs
<1>. DEFINE S == Members(s[i]) \cup {t}
<1>4. S \in SUBSET Titles /\ S # {}
  BY <1>3
<1>5. Cardinality(S) = Len(s[i]) + 1
  <2>1. IsFiniteSet(Members(s[i]))
    BY <1>3, AscendingIsCluster
  <2>. QED
    BY <1>3, <2>1, FS_AddElement
<1>6. r = [k \in DOMAIN s |-> r[k]] /\ r[i] = Ascending(S) /\ \A k \in DOMAIN s : k # i => r[k] = s[k]
  BY DEF Attached
<1>7. Ascending(S) \in Clusters /\ Members(Ascending(S)) = S /\ Len(Ascending(S)) = Cardinality(S)
  <2>. HIDE DEF S
  <2>. QED
    BY <1>4, AscendingIsCluster
<1>. HIDE DEF S
<1>8. r \in Seq(Clusters) /\ DOMAIN r = DOMAIN s
  <2>1. \A k \in DOMAIN s : r[k] \in Clusters
    BY <1>1, <1>6, <1>7
  <2>2. DOMAIN s = 1..Len(s) /\ Len(s) \in Nat
    BY <1>1
  <2>. QED
    BY <1>6, <2>1, <2>2
<1>9. Disjoint(r)
  <2>1. ASSUME NEW k \in DOMAIN s, k # i  PROVE Members(r[k]) \cap Members(r[i]) = {}
    <3>1. Members(r[i]) = Members(s[i]) \cup {t} /\ r[k] = s[k]
      BY <1>6, <1>7, <2>1 DEF S
    <3>2. Members(s[k]) \cap Members(s[i]) = {} /\ t \notin Members(s[k])
      BY <1>1, <1>2, <2>1 DEF Disjoint
    <3>. QED
      BY <3>1, <3>2
  <2>2. ASSUME NEW k \in DOMAIN s, NEW l \in DOMAIN s, k # i, l # i, k # l  PROVE Members(r[k]) \cap Members(r[l]) = {}
    BY <1>1, <1>6, <2>2 DEF Disjoint
  <2>. QED
    BY <1>8, <2>1, <2>2 DEF Disjoint
<1>10. PagesIn(r) = PagesIn(s) \cup {t}
  <2>1. ASSUME NEW x \in PagesIn(r)  PROVE x \in PagesIn(s) \cup {t}
    <3>1. PICK k \in DOMAIN s : x \in Members(r[k])
      BY <1>8 DEF PagesIn
    <3>. QED
      BY <1>2, <1>6, <1>7, <3>1 DEF S
  <2>2. ASSUME NEW x \in PagesIn(s)  PROVE x \in PagesIn(r)
    <3>1. PICK k \in DOMAIN s : x \in Members(s[k])
      BY DEF PagesIn
    <3>2. x \in Members(r[k])
      BY <1>6, <1>7, <3>1 DEF S
    <3>. QED
      BY <1>8, <3>2 DEF PagesIn
  <2>3. t \in PagesIn(r)
    BY <1>6, <1>7, <1>8 DEF PagesIn, S
  <2>. QED
    BY <2>1, <2>2, <2>3
<1>. QED
  BY <1>5, <1>6, <1>7, <1>8, <1>9, <1>10 DEF Parts, S

\* Of the candidates no more than m have fewer than m nearer ones.
LEMMA NearestAre ==
    ASSUME Similarities, page \in Titles, NEW R \in SUBSET Titles, page \notin R, NEW m \in Int,
           NEW B, B = {t \in R : Cardinality({u \in R : Nearer(u, t)}) < m}
    PROVE  IsFiniteSet(B) /\ Cardinality(B) \in Nat /\ (m > 0 => Cardinality(B) <= m) /\ (m <= 0 => Cardinality(B) = 0)
<1>. DEFINE Before(t) == {u \in R : Nearer(u, t)}
            f == [t \in B |-> Cardinality(Before(t))]
<1>1. ASSUME NEW t \in R  PROVE t \in Nat /\ sim[{page, t}] \in Nat
  <2>1. t \in Titles /\ t # page
    OBVIOUS
  <2>2. \A x \in Titles : x \in Nat
    BY DEF Titles
  <2>. QED
    BY <2>1, <2>2, SimilarityIs
<1>. DEFINE w(t) == sim[{page, t}]
<1>0. \A t, u \in R : Nearer(t, u) <=> w(t) > w(u) \/ (w(t) = w(u) /\ t < u)
  BY DEF Nearer
<1>2. ASSUME NEW t \in R, NEW u \in R, t # u  PROVE Nearer(t, u) \/ Nearer(u, t)
  <2>1. t \in Nat /\ u \in Nat /\ w(t) \in Nat /\ w(u) \in Nat
    BY <1>1
  <2>. HIDE DEF w
  <2>. QED
    BY <1>0, <1>2, <2>1
<1>3. ASSUME NEW t \in R  PROVE ~Nearer(t, t)
  <2>1. t \in Nat /\ w(t) \in Nat
    BY <1>1
  <2>. HIDE DEF w
  <2>. QED
    BY <1>0, <2>1
<1>4. ASSUME NEW t \in R, NEW u \in R, NEW v \in R, Nearer(t, u), Nearer(u, v)  PROVE Nearer(t, v)
  <2>1. t \in Nat /\ u \in Nat /\ v \in Nat /\ w(t) \in Nat /\ w(u) \in Nat /\ w(v) \in Nat
    BY <1>1
  <2>2. /\ w(t) > w(u) \/ (w(t) = w(u) /\ t < u)
        /\ w(u) > w(v) \/ (w(u) = w(v) /\ u < v)
    BY <1>0, <1>4
  <2>. HIDE DEF w
  <2>3. w(t) > w(v) \/ (w(t) = w(v) /\ t < v)
    BY <2>1, <2>2
  <2>. QED
    BY <1>0, <2>3
<1>5. N \in Nat /\ R \in SUBSET (1..N)
  BY ConstantsAre DEF Titles
<1>6. ASSUME NEW t \in R  PROVE Before(t) \in SUBSET R /\ IsFiniteSet(Before(t)) /\ Cardinality(Before(t)) \in Nat
  BY <1>5, IntervalSubset
<1>7. ASSUME NEW t \in R, NEW u \in R, Nearer(t, u)  PROVE Cardinality(Before(t)) # Cardinality(Before(u))
  <2>1. Before(t) \in SUBSET Before(u)
    BY <1>4, <1>7
  <2>2. Before(t) # Before(u)
    BY <1>3, <1>7
  <2>. HIDE DEF Before
  <2>. QED
    BY <1>6, <2>1, <2>2, FS_Subset
<1>8. B \in SUBSET R /\ IsFiniteSet(B) /\ Cardinality(B) \in Nat
  <2>1. B \in SUBSET (1..N)
    BY <1>5
  <2>. QED
    BY <1>5, <2>1, IntervalSubset
<1>9. \A t \in B : t \in R /\ Cardinality(Before(t)) \in Nat /\ Cardinality(Before(t)) < m
  BY <1>6
<1>. HIDE DEF Before
<1>10. CASE m <= 0
  <2>1. \A t \in B : FALSE
    BY <1>9, <1>10
  <2>2. B = {}
    BY <2>1, Zenon
  <2>3. Cardinality(B) = 0
    BY <2>2, FS_EmptySet
  <2>. QED
    BY <1>8, <1>10, <2>3
<1>11. CASE m > 0
  <2>1. f \in [B -> 0..m - 1]
    BY <1>9
  <2>2. f \in Injection(B, 0..m - 1)
    <3>1. ASSUME NEW t \in B, NEW u \in B, f[t] = f[u], t # u  PROVE FALSE
      BY <1>2, <1>7, <1>9, <3>1
    <3>. QED
      BY <2>1, <3>1 DEF Injection, IsInjective
  <2>3. IsFiniteSet(0..m - 1) /\ Cardinality(0..m - 1) = m
    <3>1. 0 \in Int /\ m - 1 \in Int /\ (IF 0 > m - 1 THEN 0 ELSE m - 1 - 0 + 1) = m
      BY <1>11
    <3>. QED
      BY <3>1, FS_Interval
  <2>4. Cardinality(B) <= m
    <3>. HIDE DEF f
    <3>. QED
      BY <2>2, <2>3, FS_Injection
  <2>. QED
    BY <1>8, <1>11, <2>4
<1>. QED
  BY <1>10, <1>11

\* The next bin: pages of the pool, the first among them, and not too many.
LEMMA BinIs ==
    ASSUME Similarities, pool \in SUBSET Titles, pool # {}
    PROVE  /\ page \in pool /\ _greedy_semantic_bin \in SUBSET pool /\ page \in _greedy_semantic_bin
           /\ Cardinality(_greedy_semantic_bin) <= MaxSize
<1>. DEFINE R == pool \ {page}
            m == target_size - 1
            B == {t \in R : Cardinality({u \in R : Nearer(u, t)}) < m}
<1>1. page \in pool
  <2>1. pool \in SUBSET Nat
    BY DEF Titles
  <2>. QED
    BY <2>1, MinIs DEF page
<1>2. Cardinality(pool) \in Nat
  <2>1. N \in Nat /\ pool \in SUBSET (1..N)
    BY ConstantsAre DEF Titles
  <2>. QED
    BY <2>1, IntervalSubset
<1>3. target_size \in Int /\ target_size <= MaxSize
  <2>. DEFINE x == Max({effective_min, Cardinality(pool)})
              t == Min({MaxSize, x})
  <2>1. x \in Int
    BY <1>2, ConstantsAre, MaxOfTwo
  <2>. HIDE DEF x
  <2>2. t \in Int /\ t <= MaxSize
    <3>1. MaxSize \in Int
      BY ConstantsAre
    <3>. QED
      BY <2>1, <3>1, MinOfTwo
  <2>3. target_size = IF Cardinality(pool) > MaxSize /\ Cardinality(pool) < t + effective_min
                      THEN Cardinality(pool) - effective_min ELSE t
    BY DEF target_size, x
  <2>. HIDE DEF t
  <2>. QED
    BY <1>2, <2>2, <2>3, ConstantsAre
<1>4. _greedy_semantic_bin = {page} \cup B
  BY DEF _greedy_semantic_bin
<1>5. page \in Titles /\ R \in SUBSET Titles /\ page \notin R /\ m \in Int
  BY <1>1, <1>3
<1>6. B \subseteq R /\ page \notin B
  OBVIOUS
<1>7. IsFiniteSet(B) /\ Cardinality(B) \in Nat /\ (m > 0 => Cardinality(B) <= m) /\ (m <= 0 => Cardinality(B) = 0)
  <2>. HIDE DEF R, m
  <2>. QED
    BY <1>5, NearestAre
<1>8. Cardinality(B \cup {page}) = Cardinality(B) + 1
  <2>. HIDE DEF B
  <2>. QED
    BY <1>6, <1>7, FS_AddElement
<1>9. Cardinality(B) + 1 <= MaxSize
  <2>. HIDE DEF B
  <2>. QED
    BY <1>3, <1>7, ConstantsAre
<1>10. {page} \cup B = B \cup {page}
  OBVIOUS
<1>. HIDE DEF B
<1>. QED
  BY <1>1, <1>4, <1>6, <1>8, <1>9, <1>10

-----------------------------------------------------------------------------
(* The inductive invariant: while the clusters are put together the pages   *)
(* are where each phase leaves them, each in one place.                     *)

Small(s) == \A i \in DOMAIN s : Len(s[i]) <= MaxSize

Whole ==
    /\ stack \in Parts /\ kept \in Parts /\ pool \in SUBSET Titles
    /\ PagesIn(stack) \cap PagesIn(kept) = {} /\ pool \cap (PagesIn(stack) \cup PagesIn(kept)) = {}
    /\ PagesIn(stack) \cup PagesIn(kept) \cup pool = Titles
    /\ Small(kept)

Left ==
    /\ phase \in {"split", "keep", "save"} => pool = {}
    /\ phase \in {"keep", "place", "save"} => stack = <<>>

PartsInv ==
    /\ Similarities /\ community \in [Titles -> Titles]
    /\ phase \in {"split", "keep", "place", "save"} => Whole
    /\ Left

LEMMA PartsInit == ClustersInit => PartsInv
<1>. SUFFICES ASSUME ClustersInit  PROVE PartsInv
  OBVIOUS
<1>1. phase = "load" /\ Similarities /\ community = [t \in Titles |-> t]
  BY DEF ClustersInit, Similarities
<1>. QED
  BY <1>1 DEF PartsInv, Left

LEMMA PartsGroup ==
    ASSUME PartsInv, Group
    PROVE  PartsInv'
<1>1. /\ phase' = "split" /\ stack' = Reverse(Grouped) /\ kept' = <<>> /\ pool' = {}
      /\ community' = [t \in Titles |-> t] /\ sim' = sim
  BY DEF Group, Goes, Forgotten, graph
<1>2. Grouped \in Parts /\ PagesIn(Grouped) = Titles
  BY GroupedIs DEF PartsInv
<1>3. stack' \in Parts /\ PagesIn(stack)' = Titles
  <2>1. Reverse(Grouped) \in Parts /\ PagesIn(Reverse(Grouped)) = Titles
    BY <1>2, PartsReverse
  <2>. QED
    BY <1>1, <2>1 DEF PagesIn
<1>4. kept' \in Parts /\ PagesIn(kept)' = {} /\ Small(kept)'
  BY <1>1, NoParts DEF PagesIn, Small
<1>5. Whole'
  BY <1>1, <1>3, <1>4 DEF Whole
<1>6. Similarities' /\ community' \in [Titles -> Titles] /\ Left'
  BY <1>1 DEF PartsInv, Similarities, Left
<1>. QED
  BY <1>5, <1>6 DEF PartsInv

LEMMA SmallAppend ==
    ASSUME NEW s \in Parts, NEW c \in Clusters, Small(s), Len(c) <= MaxSize
    PROVE  Small(Append(s, c))
<1>1. s \in Seq(Clusters) /\ DOMAIN s = 1..Len(s) /\ Len(s) \in Nat
  BY DEF Parts
<1>2. DOMAIN Append(s, c) = 1..Len(s) + 1
      /\ \A i \in 1..Len(s) + 1 : Append(s, c)[i] = c \/ (i \in 1..Len(s) /\ Append(s, c)[i] = s[i])
  BY <1>1
<1>. QED
  BY <1>1, <1>2 DEF Small

LEMMA PartsSplit ==
    ASSUME PartsInv, Split
    PROVE  PartsInv'
<1>. DEFINE c == Last(stack)
            f == Front(stack)
<1>1. /\ phase = "split" /\ stack # <<>> /\ UNCHANGED <<sim, community, pool, phase>>
      /\ IF Len(c) <= MaxSize THEN stack' = f /\ kept' = Append(kept, c)
         ELSE stack' = f \o Bisected(c) /\ kept' = kept
  BY DEF Split, graph, louvain
<1>2. Similarities /\ Whole /\ pool = {} /\ community \in [Titles -> Titles]
  BY <1>1 DEF PartsInv, Left
<1>3. /\ f \in Parts /\ c \in Clusters
      /\ Members(c) \cap PagesIn(f) = {} /\ PagesIn(stack) = PagesIn(f) \cup Members(c)
  BY <1>1, <1>2, PartsFront DEF Whole
<1>. HIDE DEF c, f
<1>4. Members(c) \cap PagesIn(kept) = {} /\ PagesIn(f) \cap PagesIn(kept) = {} /\ PagesIn(f) \cup Members(c) \cup PagesIn(kept) = Titles
  BY <1>2, <1>3 DEF Whole
<1>5. CASE Len(c) <= MaxSize
  <2>1. /\ Append(kept, c) \in Parts /\ PagesIn(Append(kept, c)) = PagesIn(kept) \cup Members(c)
        /\ Small(Append(kept, c))
    BY <1>2, <1>3, <1>4, <1>5, PartsAppend, SmallAppend DEF Whole
  <2>2. stack' = f /\ kept' = Append(kept, c)
    BY <1>1, <1>5
  <2>3. PagesIn(stack)' = PagesIn(f) /\ PagesIn(kept)' = PagesIn(kept) \cup Members(c) /\ Small(kept)'
    BY <2>1, <2>2 DEF PagesIn, Small
  <2>. QED
    BY <1>1, <1>2, <1>3, <1>4, <2>1, <2>2, <2>3 DEF PartsInv, Whole, Left, Similarities
<1>6. CASE ~(Len(c) <= MaxSize)
  <2>1. Len(c) >= 2
    BY <1>3, <1>6, ClusterIs, ConstantsAre
  <2>2. PICK x, y \in Clusters :
          Bisected(c) = <<x, y>> /\ Members(x) \cap Members(y) = {} /\ Members(x) \cup Members(y) = Members(c)
    BY <1>2, <1>3, <2>1, BisectedIs
  <2>3. Append(f, x) \in Parts /\ PagesIn(Append(f, x)) = PagesIn(f) \cup Members(x)
    <3>1. Members(x) \cap PagesIn(f) = {}
      BY <1>3, <2>2
    <3>. QED
      BY <1>3, <3>1, PartsAppend
  <2>4. /\ Append(Append(f, x), y) \in Parts
        /\ PagesIn(Append(Append(f, x), y)) = PagesIn(f) \cup Members(x) \cup Members(y)
    <3>1. Members(y) \cap PagesIn(Append(f, x)) = {}
      BY <1>3, <2>2, <2>3
    <3>. QED
      BY <2>3, <3>1, PartsAppend
  <2>5. stack' = Append(Append(f, x), y) /\ kept' = kept
    <3>1. f \in Seq(Clusters)
      BY <1>3 DEF Parts
    <3>2. f \o <<x, y>> = Append(Append(f, x), y)
      BY <3>1
    <3>. QED
      BY <1>1, <1>6, <2>2, <3>2
  <2>6. PagesIn(stack)' = PagesIn(f) \cup Members(x) \cup Members(y) /\ PagesIn(kept)' = PagesIn(kept) /\ Small(kept)'
    BY <1>2, <2>4, <2>5 DEF PagesIn, Small, Whole
  <2>7. Whole'
    BY <1>1, <1>2, <1>4, <2>2, <2>4, <2>5, <2>6 DEF Whole
  <2>. QED
    BY <1>1, <1>2, <2>7 DEF PartsInv, Left, Similarities
<1>. QED
  BY <1>5, <1>6

LEMMA PartsKeep ==
    ASSUME PartsInv, Keep
    PROVE  PartsInv'
<1>. DEFINE small == {i \in DOMAIN kept : Undersized(kept[i])}
            r == Stays(kept, Ascending(DOMAIN kept \ small))
            rest == Leaves(kept, small)
<1>1. phase = "keep" /\ phase' = "place" /\ kept' = r /\ pool' = rest /\ UNCHANGED <<sim, community, stack>>
  BY DEF Keep, Goes, graph, louvain, Stays, Leaves
<1>2. Similarities /\ Whole /\ stack = <<>> /\ pool = {} /\ community \in [Titles -> Titles]
  BY <1>1 DEF PartsInv, Left
<1>3. small \in SUBSET DOMAIN kept
  OBVIOUS
<1>. HIDE DEF small
<1>4. /\ r \in Parts /\ rest \in SUBSET Titles
      /\ PagesIn(r) \cap rest = {} /\ PagesIn(r) \cup rest = PagesIn(kept)
      /\ \A i \in DOMAIN r : \E k \in DOMAIN kept : Len(r[i]) = Len(kept[k])
  <2>1. kept \in Parts
    BY <1>2 DEF Whole
  <2>2. WellKept(kept, r, rest)
    BY <1>3, <2>1, KeptWell
  <2>. HIDE DEF r, rest
  <2>. QED
    BY <2>2 DEF WellKept
<1>. HIDE DEF r, rest
<1>5. PagesIn(kept)' = PagesIn(r) /\ Small(kept)'
  BY <1>1, <1>2, <1>4 DEF PagesIn, Small, Whole
<1>6. PagesIn(stack) = {} /\ PagesIn(stack)' = {} /\ stack' \in Parts
  BY <1>1, <1>2, NoParts DEF PagesIn
<1>7. Whole'
  BY <1>1, <1>2, <1>4, <1>5, <1>6 DEF Whole
<1>. QED
  BY <1>1, <1>2, <1>7 DEF PartsInv, Left, Similarities

LEMMA PartsPlace ==
    ASSUME PartsInv, Place
    PROVE  PartsInv'
<1>. DEFINE bin == _greedy_semantic_bin
<1>1. /\ phase = "place" /\ pool # {} /\ UNCHANGED <<sim, community, stack, phase>>
      /\ IF BestKept # {}
         THEN (\E i \in BestKept : kept' = Attached(kept, i, page)) /\ pool' = pool \ {page}
         ELSE kept' = Append(kept, Ascending(bin)) /\ pool' = pool \ bin
  BY DEF Place, graph, louvain, Attached
<1>2. Similarities /\ Whole /\ stack = <<>> /\ community \in [Titles -> Titles]
  BY <1>1 DEF PartsInv, Left
<1>3. page \in pool /\ bin \in SUBSET pool /\ page \in bin /\ Cardinality(bin) <= MaxSize
  BY <1>1, <1>2, BinIs DEF Whole
<1>. HIDE DEF bin
<1>4. PagesIn(stack) = {} /\ PagesIn(stack)' = {} /\ stack' \in Parts
  BY <1>1, <1>2, NoParts DEF PagesIn
<1>5. kept \in Parts /\ pool \in SUBSET Titles /\ pool \cap PagesIn(kept) = {} /\ PagesIn(kept) \cup pool = Titles /\ Small(kept)
  BY <1>2, <1>4 DEF Whole
<1>6. CASE BestKept # {}
  <2>1. PICK i \in BestKept : kept' = Attached(kept, i, page)
    BY <1>1, <1>6
  <2>2. i \in DOMAIN kept /\ Len(kept[i]) < MaxSize
    BY DEF BestKept, Roomy
  <2>3. page \in Titles /\ page \notin PagesIn(kept)
    BY <1>3, <1>5
  <2>4. /\ kept' \in Parts /\ PagesIn(kept') = PagesIn(kept) \cup {page}
        /\ DOMAIN kept' = DOMAIN kept /\ Len(kept'[i]) = Len(kept[i]) + 1
        /\ \A k \in DOMAIN kept : k # i => kept'[k] = kept[k]
    BY <1>5, <2>1, <2>2, <2>3, AttachedIs
  <2>5. Small(kept)'
    <3>1. kept[i] \in Clusters
      BY <1>5, <2>2 DEF Parts
    <3>2. Len(kept[i]) + 1 <= MaxSize
      BY <2>2, <3>1, ClusterIs, ConstantsAre
    <3>. QED
      BY <1>5, <2>4, <3>2 DEF Small
  <2>6. PagesIn(kept)' = PagesIn(kept) \cup {page}
    BY <2>4 DEF PagesIn
  <2>7. pool' = pool \ {page}
    BY <1>1, <1>6
  <2>8. Whole'
    BY <1>3, <1>4, <1>5, <2>4, <2>5, <2>6, <2>7 DEF Whole
  <2>. QED
    BY <1>1, <1>2, <2>8 DEF PartsInv, Left, Similarities
<1>7. CASE BestKept = {}
  <2>1. kept' = Append(kept, Ascending(bin)) /\ pool' = pool \ bin
    BY <1>1, <1>7
  <2>2. bin \in SUBSET Titles /\ bin # {}
    BY <1>3, <1>5
  <2>3. Ascending(bin) \in Clusters /\ Members(Ascending(bin)) = bin /\ Len(Ascending(bin)) = Cardinality(bin)
    BY <2>2, AscendingIsCluster
  <2>4. bin \cap PagesIn(kept) = {}
    BY <1>3, <1>5
  <2>5. /\ Append(kept, Ascending(bin)) \in Parts /\ PagesIn(Append(kept, Ascending(bin))) = PagesIn(kept) \cup bin
        /\ Small(Append(kept, Ascending(bin)))
    BY <1>3, <1>5, <2>3, <2>4, PartsAppend, SmallAppend
  <2>6. kept' \in Parts /\ PagesIn(kept)' = PagesIn(kept) \cup bin /\ Small(kept)'
    BY <2>1, <2>5 DEF PagesIn, Small
  <2>7. Whole'
    BY <1>3, <1>4, <1>5, <2>1, <2>6 DEF Whole
  <2>. QED
    BY <1>1, <1>2, <2>7 DEF PartsInv, Left, Similarities
<1>. QED
  BY <1>6, <1>7

LEMMA PartsPlaced ==
    ASSUME PartsInv, Placed
    PROVE  PartsInv'
<1>1. /\ phase = "place" /\ phase' = "split" /\ pool = {} /\ stack' = Reverse(kept) /\ kept' = <<>>
      /\ UNCHANGED <<sim, community, pool>>
  BY DEF Placed, Goes, graph, louvain
<1>2. Similarities /\ Whole /\ stack = <<>> /\ community \in [Titles -> Titles]
  BY <1>1 DEF PartsInv, Left
<1>3. PagesIn(stack) = {}
  BY <1>2, NoParts
<1>4. kept \in Parts /\ PagesIn(kept) = Titles
  BY <1>1, <1>2, <1>3 DEF Whole
<1>5. stack' \in Parts /\ PagesIn(stack)' = Titles
  <2>1. Reverse(kept) \in Parts /\ PagesIn(Reverse(kept)) = Titles
    BY <1>4, PartsReverse
  <2>. QED
    BY <1>1, <2>1 DEF PagesIn
<1>6. kept' \in Parts /\ PagesIn(kept)' = {} /\ Small(kept)'
  BY <1>1, NoParts DEF PagesIn, Small
<1>7. Whole'
  BY <1>1, <1>5, <1>6 DEF Whole
<1>. QED
  BY <1>1, <1>2, <1>7 DEF PartsInv, Left, Similarities

\* A step that leaves the clusters alone, or ends with them.
LEMMA PartsStay ==
    ASSUME PartsInv, sim' = sim, community' \in [Titles -> Titles],
           \/ UNCHANGED <<stack, kept, pool>> /\ Left' /\ (phase' \in {"split", "keep", "place", "save"} => Whole)
           \/ phase' \notin {"split", "keep", "place", "save"}
    PROVE  PartsInv'
<1>1. Similarities'
  BY DEF PartsInv, Similarities
<1>2. CASE phase' \notin {"split", "keep", "place", "save"}
  BY <1>1, <1>2 DEF PartsInv, Left
<1>3. CASE UNCHANGED <<stack, kept, pool>> /\ Left' /\ (phase' \in {"split", "keep", "place", "save"} => Whole)
  <2>1. PagesIn(stack)' = PagesIn(stack) /\ PagesIn(kept)' = PagesIn(kept) /\ Small(kept)' = Small(kept)
    BY <1>3 DEF PagesIn, Small
  <2>2. Whole => Whole'
    BY <1>3, <2>1 DEF Whole
  <2>. QED
    BY <1>1, <1>3, <2>2 DEF PartsInv
<1>. QED
  BY <1>2, <1>3

LEMMA PartsStep == PartsInv /\ [ClustersNext]_clustersVars => PartsInv'
<1>. SUFFICES ASSUME PartsInv, [ClustersNext]_clustersVars  PROVE PartsInv'
  OBVIOUS
<1>1. CASE Link \/ Linked \/ NextIteration
  <2>1. sim' = sim /\ community' = community /\ phase' \in {"link", "move"}
    BY <1>1 DEF Link, Linked, NextIteration, Goes, graph
  <2>. QED
    BY <2>1, PartsStay DEF PartsInv
<1>2. CASE Move
  <2>1. sim' = sim /\ phase' = "move"
    BY <1>2 DEF Move, graph
  <2>2. community' \in [Titles -> Titles]
    <3>1. \A c \in BestMoves(node) : c \in Titles
      BY DEF BestMoves, PartsInv
    <3>2. community' = community \/ \E c \in BestMoves(node) : community' = [community EXCEPT ![node] = c]
      BY <1>2 DEF Move
    <3>. QED
      BY <3>1, <3>2 DEF PartsInv
  <2>. QED
    BY <2>1, <2>2, PartsStay
<1>3. CASE Splitted
  <2>1. /\ phase = "split" /\ phase' \in {"keep", "save"} /\ stack = <<>>
        /\ UNCHANGED <<sim, community, stack, kept, pool>>
    BY <1>3 DEF Splitted, Goes, graph, louvain, balance
  <2>2. Left' /\ Whole
    BY <2>1 DEF PartsInv, Left
  <2>. QED
    BY <2>1, <2>2, PartsStay DEF PartsInv
<1>4. CASE Load \/ TakeMap \/ Save \/ NextGroup
  <2>1. UNCHANGED <<sim, community>>
    BY <1>4 DEF Load, TakeMap, Save, NextGroup, graph, louvain
  <2>2. phase' \in {"load", "reload", "link", "work", "end"}
    <3>1. CASE Load \/ NextGroup
      BY <3>1 DEF Load, NextGroup, Goes
    <3>2. CASE TakeMap \/ Save
      <4>1. \E map : Uses(map)
        BY <3>2 DEF TakeMap, Save
      <4>. QED
        BY <4>1 DEF Uses
    <3>. QED
      BY <1>4, <3>1, <3>2
  <2>. QED
    BY <2>1, <2>2, PartsStay DEF PartsInv
<1>5. CASE Ask \/ CommitPage \/ Command \/ UNCHANGED clustersVars
  <2>1. UNCHANGED <<sim, community, phase, stack, kept, pool>>
    BY <1>5 DEF Ask, CommitPage, Command, clustersVars, graph, louvain, balance
  <2>2. Left' /\ (phase' \in {"split", "keep", "place", "save"} => Whole)
    BY <2>1 DEF PartsInv, Left
  <2>. QED
    BY <2>1, <2>2, PartsStay DEF PartsInv
<1>. QED
  BY <1>1, <1>2, <1>3, <1>4, <1>5, PartsGroup, PartsSplit, PartsKeep, PartsPlace, PartsPlaced
  DEF ClustersNext, Step, Compute

-----------------------------------------------------------------------------
(* Each page in one place *)

Spots(s, t) == {ij \in (DOMAIN s) \X Titles : ij[2] \in DOMAIN s[ij[1]] /\ s[ij[1]][ij[2]] = t}

LEMMA OneSpot ==
    ASSUME NEW s \in Parts, NEW t \in Titles
    PROVE  Cardinality(Spots(s, t)) = IF t \in PagesIn(s) THEN 1 ELSE 0
<1>1. s \in Seq(Clusters) /\ Disjoint(s)
  BY DEF Parts
<1>2. CASE t \notin PagesIn(s)
  <2>1. ASSUME NEW ij \in Spots(s, t)  PROVE FALSE
    <3>1. ij[1] \in DOMAIN s /\ t \in Members(s[ij[1]])
      BY DEF Spots, Members
    <3>. QED
      BY <1>2, <3>1 DEF PagesIn
  <2>2. Spots(s, t) = {}
    BY <2>1
  <2>. QED
    BY <1>2, <2>2, FS_EmptySet
<1>3. CASE t \in PagesIn(s)
  <2>1. PICK i \in DOMAIN s : t \in Members(s[i])
    BY <1>3 DEF PagesIn
  <2>2. PICK j \in DOMAIN s[i] : s[i][j] = t
    BY <2>1 DEF Members
  <2>3. s[i] \in Clusters /\ Injective(s[i])
    BY <1>1 DEF Clusters
  <2>4. j \in Titles
    <3>1. N \in Nat /\ Members(s[i]) \in SUBSET (1..N)
      BY <2>3, ClusterIs, ConstantsAre DEF Titles
    <3>2. Cardinality(Members(s[i])) <= N
      <4>. DEFINE S == Members(s[i])
      <4>. HIDE DEF S
      <4>1. S \in SUBSET (1..N)
        BY <3>1 DEF S
      <4>2. Cardinality(S) <= N
        BY <3>1, <4>1, IntervalSubset
      <4>. QED
        BY <4>2 DEF S
    <3>3. j \in 1..Len(s[i]) /\ Len(s[i]) \in Nat /\ Len(s[i]) <= N
      BY <2>3, <3>2, ClusterIs
    <3>. QED
      BY <3>1, <3>3 DEF Titles
  <2>5. <<i, j>> \in Spots(s, t)
    BY <2>2, <2>4 DEF Spots
  <2>6. ASSUME NEW ij \in Spots(s, t)  PROVE ij = <<i, j>>
    <3>1. ij = <<ij[1], ij[2]>> /\ ij[1] \in DOMAIN s /\ ij[2] \in DOMAIN s[ij[1]] /\ s[ij[1]][ij[2]] = t
      BY DEF Spots
    <3>2. t \in Members(s[ij[1]])
      BY <3>1 DEF Members
    <3>3. ij[1] = i
      BY <1>1, <2>1, <3>1, <3>2 DEF Disjoint
    <3>4. ij[2] = j
      BY <2>2, <2>3, <3>1, <3>3 DEF Injective
    <3>. QED
      BY <3>1, <3>3, <3>4
  <2>7. Spots(s, t) = {<<i, j>>}
    BY <2>5, <2>6
  <2>. QED
    BY <1>3, <2>7, FS_Singleton
<1>. QED
  BY <1>2, <1>3

LEMMA PartsConcat ==
    ASSUME NEW s \in Parts, NEW r \in Parts, PagesIn(s) \cap PagesIn(r) = {}
    PROVE  s \o r \in Parts /\ PagesIn(s \o r) = PagesIn(s) \cup PagesIn(r)
<1>. DEFINE c == s \o r
            n == Len(s)
            m == Len(r)
<1>1. /\ s \in Seq(Clusters) /\ Disjoint(s) /\ n \in Nat /\ DOMAIN s = 1..n
      /\ r \in Seq(Clusters) /\ Disjoint(r) /\ m \in Nat /\ DOMAIN r = 1..m
  BY DEF Parts
<1>2. /\ c \in Seq(Clusters) /\ DOMAIN c = 1..n + m
      /\ \A i \in 1..n : c[i] = s[i]
      /\ \A i \in 1..n + m : i > n => c[i] = r[i - n]
  BY <1>1
<1>. HIDE DEF c, n, m
<1>3. \A i \in 1..n + m : i \in 1..n \/ (i > n /\ i - n \in 1..m /\ i \notin 1..n)
  BY <1>1
<1>4. \A i \in 1..n + m, k \in 1..n + m : i > n /\ k > n /\ i # k => i - n # k - n
  BY <1>1
<1>5. \A i \in 1..n : i \in 1..n + m
  BY <1>1
<1>6. \A i \in 1..m : n + i \in 1..n + m /\ n + i > n /\ (n + i) - n = i
  BY <1>1
<1>7. /\ \A i \in 1..n : Members(s[i]) \subseteq PagesIn(s)
      /\ \A i \in 1..m : Members(r[i]) \subseteq PagesIn(r)
  BY <1>1, PagesAre
<1>8. Disjoint(c)
  <2>1. ASSUME NEW i \in 1..n + m, NEW k \in 1..n + m, i # k  PROVE Members(c[i]) \cap Members(c[k]) = {}
    <3>1. CASE i \in 1..n /\ k \in 1..n
      BY <1>1, <1>2, <2>1, <3>1 DEF Disjoint
    <3>2. CASE i \in 1..n /\ k \notin 1..n
      <4>1. c[i] = s[i] /\ c[k] = r[k - n] /\ k - n \in 1..m
        BY <1>2, <1>3, <3>2
      <4>. QED
        BY <1>7, <3>2, <4>1
    <3>3. CASE i \notin 1..n /\ k \in 1..n
      <4>1. c[k] = s[k] /\ c[i] = r[i - n] /\ i - n \in 1..m
        BY <1>2, <1>3, <3>3
      <4>. QED
        BY <1>7, <3>3, <4>1
    <3>4. CASE i \notin 1..n /\ k \notin 1..n
      <4>1. c[i] = r[i - n] /\ c[k] = r[k - n] /\ i - n \in 1..m /\ k - n \in 1..m /\ i - n # k - n
        BY <1>2, <1>3, <1>4, <2>1, <3>4
      <4>. QED
        BY <1>1, <4>1 DEF Disjoint
    <3>. QED
      BY <3>1, <3>2, <3>3, <3>4
  <2>. QED
    BY <1>2, <2>1 DEF Disjoint
<1>9. PagesIn(c) = PagesIn(s) \cup PagesIn(r)
  <2>1. ASSUME NEW x \in PagesIn(c)  PROVE x \in PagesIn(s) \cup PagesIn(r)
    <3>1. PICK i \in 1..n + m : x \in Members(c[i])
      BY <1>2 DEF PagesIn
    <3>. QED
      BY <1>2, <1>3, <1>7, <3>1
  <2>2. ASSUME NEW x \in PagesIn(s)  PROVE x \in PagesIn(c)
    <3>1. PICK i \in 1..n : x \in Members(s[i])
      BY <1>1 DEF PagesIn
    <3>2. x \in Members(c[i]) /\ i \in DOMAIN c
      BY <1>2, <1>5, <3>1
    <3>. QED
      BY <3>2 DEF PagesIn
  <2>3. ASSUME NEW x \in PagesIn(r)  PROVE x \in PagesIn(c)
    <3>1. PICK i \in 1..m : x \in Members(r[i])
      BY <1>1 DEF PagesIn
    <3>2. c[n + i] = r[i] /\ n + i \in DOMAIN c
      BY <1>2, <1>6
    <3>. QED
      BY <3>1, <3>2 DEF PagesIn
  <2>. QED
    BY <2>1, <2>2, <2>3
<1>. QED
  BY <1>2, <1>8, <1>9 DEF Parts, c

LEMMA PartsInvPartitions == PartsInv => PagesPartitioned
<1>. SUFFICES ASSUME PartsInv  PROVE PagesPartitioned
  OBVIOUS
<1>1. ASSUME phase \in {"split", "keep", "place", "save"}, NEW t \in Titles
      PROVE  Cardinality(Spots(stack \o kept, t)) = IF t \in pool THEN 0 ELSE 1
  <2>1. Whole
    BY <1>1 DEF PartsInv
  <2>2. stack \o kept \in Parts /\ PagesIn(stack \o kept) = PagesIn(stack) \cup PagesIn(kept)
    BY <2>1, PartsConcat DEF Whole
  <2>3. t \in PagesIn(stack \o kept) <=> t \notin pool
    BY <2>1, <2>2 DEF Whole
  <2>. QED
    BY <2>2, <2>3, OneSpot
<1>2. ASSUME phase = "save", NEW i \in DOMAIN kept  PROVE kept[i] # <<>> /\ Len(kept[i]) <= MaxSize
  <2>1. kept \in Parts /\ Small(kept)
    BY <1>2 DEF PartsInv, Whole
  <2>2. kept[i] \in Clusters
    BY <2>1 DEF Parts
  <2>. QED
    BY <2>1, <2>2 DEF Small, Clusters
<1>. QED
  BY <1>1, <1>2 DEF PagesPartitioned, Spots

\* compute_semantic_clusters: for every similarity graph no page is lost or put
\* in two places from the communities to the clusters, and no cluster that
\* comes out is empty or larger than the maximum.
THEOREM ClustersPartitionPages == ClustersSpec => []PagesPartitioned
BY PartsInit, PartsStep, PartsInvPartitions, PTL DEF ClustersSpec

-----------------------------------------------------------------------------
(* The map that is filed, and the groups of the cycle *)

Total(map) == map \in Parts /\ PagesIn(map) = Titles

\* No two clusters begin with the same page.
LEMMA InOrderIs ==
    ASSUME NEW s \in Parts
    PROVE  InOrder(s) \in Parts /\ PagesIn(InOrder(s)) = PagesIn(s)
<1>. DEFINE H == {Head(c) : c \in Members(s)}
            heads == Ascending(H)
            m == Cardinality(H)
            Beginning(t) == CHOOSE c \in Members(s) : Head(c) = t
            r == [i \in 1..m |-> Ascending(Members(Beginning(heads[i])))]
<1>1. s \in Seq(Clusters) /\ Disjoint(s)
  BY DEF Parts
<1>2. ASSUME NEW c \in Members(s)
      PROVE  /\ c \in Clusters /\ Head(c) \in Members(c) /\ Members(c) \in SUBSET Titles /\ Members(c) # {}
             /\ Members(c) \subseteq PagesIn(s)
  <2>1. PICK i \in DOMAIN s : c = s[i]
    BY DEF Members
  <2>. QED
    BY <1>1, <2>1, PagesAre, ClusterIs
<1>3. ASSUME NEW c \in Members(s), NEW d \in Members(s), NEW x \in Members(c), x \in Members(d)  PROVE c = d
  <2>1. PICK i \in DOMAIN s : c = s[i]
    BY DEF Members
  <2>2. PICK k \in DOMAIN s : d = s[k]
    BY DEF Members
  <2>. QED
    BY <1>1, <1>3, <2>1, <2>2 DEF Disjoint
<1>4. N \in Nat /\ H \in SUBSET (1..N)
  <2>1. \A c \in Members(s) : Head(c) \in Titles
    BY <1>2
  <2>. QED
    BY <2>1, ConstantsAre DEF Titles
<1>5. /\ heads \in Seq(H) /\ m \in Nat /\ DOMAIN heads = 1..m /\ Injective(heads) /\ Members(heads) = H
  <2>. HIDE DEF H
  <2>. QED
    BY <1>4, AscendingIs
<1>6. InOrder(s) = r
  BY <1>5 DEF InOrder
<1>7. ASSUME NEW i \in 1..m
      PROVE  Beginning(heads[i]) \in Members(s) /\ Head(Beginning(heads[i])) = heads[i]
  <2>1. heads[i] \in H
    <3>. HIDE DEF heads, H, m
    <3>. QED
      BY <1>5 DEF Members
  <2>2. \E c \in Members(s) : Head(c) = heads[i]
    BY <2>1
  <2>. HIDE DEF heads
  <2>. QED
    BY <2>2
<1>8. ASSUME NEW c \in Members(s)  PROVE \E i \in 1..m : Beginning(heads[i]) = c
  <2>1. Head(c) \in Members(heads)
    BY <1>5
  <2>2. PICK i \in 1..m : heads[i] = Head(c)
    BY <1>5, <2>1 DEF Members
  <2>3. Beginning(heads[i]) \in Members(s) /\ Head(Beginning(heads[i])) = Head(c)
    BY <1>7, <2>2
  <2>. HIDE DEF Beginning
  <2>. QED
    BY <1>2, <1>3, <2>3
<1>. HIDE DEF H, heads, m, Beginning
<1>9. ASSUME NEW i \in 1..m
      PROVE  /\ r[i] \in Clusters /\ Members(r[i]) = Members(Beginning(heads[i]))
  BY <1>2, <1>7, AscendingIsCluster
<1>. HIDE DEF r
<1>10. r \in Seq(Clusters) /\ DOMAIN r = 1..m
  <2>1. r \in [1..m -> Clusters]
    BY <1>9 DEF r
  <2>. QED
    BY <1>5, <2>1, FunctionIsSeq
<1>11. Disjoint(r)
  <2>1. ASSUME NEW i \in 1..m, NEW k \in 1..m, NEW x \in Members(r[i]), x \in Members(r[k])  PROVE i = k
    <3>1. Beginning(heads[i]) = Beginning(heads[k])
      BY <1>3, <1>7, <1>9, <2>1
    <3>2. heads[i] = heads[k]
      BY <1>7, <3>1
    <3>. QED
      BY <1>5, <3>2 DEF Injective
  <2>. QED
    BY <1>10, <2>1 DEF Disjoint
<1>12. PagesIn(r) = PagesIn(s)
  <2>1. ASSUME NEW x \in PagesIn(r)  PROVE x \in PagesIn(s)
    <3>1. PICK i \in 1..m : x \in Members(r[i])
      BY <1>10 DEF PagesIn
    <3>. QED
      BY <1>2, <1>7, <1>9, <3>1
  <2>2. ASSUME NEW x \in PagesIn(s)  PROVE x \in PagesIn(r)
    <3>1. PICK k \in DOMAIN s : x \in Members(s[k])
      BY DEF PagesIn
    <3>2. s[k] \in Members(s)
      BY DEF Members
    <3>3. PICK i \in 1..m : Beginning(heads[i]) = s[k]
      BY <1>8, <3>2
    <3>. QED
      BY <1>9, <1>10, <3>1, <3>3 DEF PagesIn
  <2>. QED
    BY <2>1, <2>2
<1>. QED
  BY <1>6, <1>10, <1>11, <1>12 DEF Parts

\* Whoever filed it, the map is a partition; and until the catalog or the file
\* is changed by another, it is the one the cycle has grouped its pages by.
MapInv ==
    /\ at \in Nat /\ group \in Nat /\ changes \in Nat
    /\ phase = "reload" => file # NoMap
    /\ phase = "work" => group # 0
    /\ file # NoMap => Total(file.clusters)
    /\ group # 0 => Total(clusters)
    /\ changes = 0 =>
        IF group = 0 THEN file = NoMap /\ phase \notin {"reload", "work", "end"}
        ELSE file = Own(clusters) /\ file # NoMap /\ phase \in {"load", "reload", "work", "end"}

LEMMA MapInit == ClustersInit => MapInv
BY DEF ClustersInit, MapInv

LEMMA FiledIsSome ==
    ASSUME NEW a \in Nat, NEW n \in Nat, NEW map \in Parts
    PROVE  [at |-> a, size |-> n, clusters |-> map] # NoMap
<1>1. map \in Seq(Seq(1..N))
  <2>1. Clusters \subseteq Seq(1..N)
    BY DEF Clusters, Titles
  <2>2. map \in Seq(Clusters)
    BY DEF Parts
  <2>. QED
    BY <2>1, <2>2
<1>2. [at |-> a, size |-> n, clusters |-> map] \in [at : Nat, size : Nat, clusters : Seq(Seq(1..N))]
  BY <1>1
<1>. QED
  BY <1>2, SemanticClustersAssumption

LEMMA MapStep == PartsInv /\ MapInv /\ [ClustersNext]_clustersVars => MapInv'
<1>. SUFFICES ASSUME PartsInv, MapInv, [ClustersNext]_clustersVars  PROVE MapInv'
  OBVIOUS
<1>. USE DEF MapInv, Goes, cycle, Own
<1>1. CASE Compute
  <2>1. phase \notin {"load", "reload", "work", "end"}
    BY <1>1 DEF Compute, Link, Linked, Move, NextIteration, Group, Split, Splitted, Keep, Place, Placed
  <2>2. phase' \notin {"reload", "work", "end"}
    BY <1>1, <2>1 DEF Compute, Link, Linked, Move, NextIteration, Group, Split, Splitted, Keep, Place, Placed
  <2>3. UNCHANGED <<file, at, group, changes, clusters>>
    BY <1>1 DEF Compute, Link, Linked, Move, NextIteration, Group, Split, Splitted, Keep, Place, Placed
  <2>. QED
    BY <2>1, <2>2, <2>3 DEF Total, PagesIn
<1>2. CASE Load
  <2>1. /\ phase = "load" /\ phase' \in {"reload", "link"} /\ (phase' = "reload" => file # NoMap)
        /\ (file # NoMap /\ file.at = at /\ file.size = MaxSize => phase' = "reload")
        /\ UNCHANGED <<file, at, group, changes, clusters>>
    BY <1>2 DEF Load
  <2>. QED
    BY <2>1 DEF Total, PagesIn
<1>3. CASE TakeMap
  <2>1. phase = "reload" /\ Uses(file.clusters) /\ file' = file /\ Total(file.clusters)
    BY <1>3 DEF TakeMap
  <2>. QED
    BY <2>1 DEF Uses, Total, PagesIn
<1>4. CASE Save
  <2>. DEFINE map == InOrder(kept)
              new == [at |-> at, size |-> MaxSize, clusters |-> map]
  <2>1. phase = "save" /\ Uses(map) /\ file' = new
    BY <1>4 DEF Save
  <2>2. Total(map)
    <3>1. kept \in Parts /\ PagesIn(kept) = Titles
      <4>1. Whole /\ stack = <<>> /\ pool = {}
        BY <2>1 DEF PartsInv, Left
      <4>2. PagesIn(stack) = {}
        BY <4>1, NoParts
      <4>. QED
        BY <4>1, <4>2 DEF Whole
    <3>. QED
      BY <3>1, InOrderIs DEF Total
  <2>. HIDE DEF map
  <2>3. new # NoMap
    BY <2>2, FiledIsSome, ConstantsAre DEF Total
  <2>4. Total(file.clusters)'
    BY <2>1, <2>2 DEF Total, PagesIn
  <2>5. CASE group = 0
    <3>1. phase' = "load" /\ clusters' = map /\ group' = 1 /\ UNCHANGED <<at, changes>>
      BY <2>1, <2>5 DEF Uses
    <3>2. Total(clusters)'
      BY <2>2, <3>1 DEF Total, PagesIn
    <3>. HIDE DEF new
    <3>3. file' = Own(clusters)'
      BY <2>1, <3>1 DEF new
    <3>. QED
      BY <2>1, <2>3, <2>4, <3>1, <3>2, <3>3
  <2>6. CASE group # 0
    <3>1. phase' = "work" /\ UNCHANGED <<at, clusters, group, changes>>
      BY <2>1, <2>6 DEF Uses
    <3>2. changes # 0
      BY <2>1, <2>6
    <3>. HIDE DEF new
    <3>. QED
      BY <2>1, <2>3, <2>4, <2>6, <3>1, <3>2 DEF Total, PagesIn
  <2>. QED
    BY <2>5, <2>6
<1>5. CASE NextGroup
  <2>1. phase = "work" /\ phase' \in {"load", "end"} /\ group' = group + 1 /\ UNCHANGED <<file, at, clusters, changes>>
    BY <1>5 DEF NextGroup
  <2>2. group \in Nat /\ group # 0 /\ group' \in Nat /\ group' # 0
    BY <2>1
  <2>3. (file # NoMap => Total(file.clusters))' /\ Total(clusters)'
    BY <2>1, <2>2 DEF Total, PagesIn
  <2>4. CASE changes = 0
    BY <2>1, <2>2, <2>3, <2>4
  <2>5. CASE changes # 0
    BY <2>1, <2>2, <2>3, <2>5
  <2>. QED
    BY <2>4, <2>5
<1>6. CASE Ask
  BY <1>6 DEF Ask, Total, PagesIn
<1>7. CASE CommitPage
  <2>1. changes' = changes + 1 /\ at' = at + 1 /\ UNCHANGED <<phase, file, clusters, group>>
    BY <1>7 DEF CommitPage
  <2>. QED
    BY <2>1 DEF Total, PagesIn
<1>8. CASE Command
  <2>. DEFINE map == <<Ascending(Titles)>>
              new == [at |-> at, size |-> N + MaxSize, clusters |-> map]
  <2>1. changes' = changes + 1 /\ file' = new /\ UNCHANGED <<phase, at, clusters, group>>
    BY <1>8 DEF Command
  <2>2. Total(map)
    <3>1. Titles # {}
      <4>1. 1 \in 1..N
        BY SemanticClustersAssumption
      <4>. QED
        BY <4>1 DEF Titles
    <3>2. Ascending(Titles) \in Clusters /\ Members(Ascending(Titles)) = Titles
      BY <3>1, AscendingIsCluster
    <3>3. map = Append(<<>>, Ascending(Titles))
      OBVIOUS
    <3>4. Members(Ascending(Titles)) \cap PagesIn(<<>>) = {}
      BY NoParts
    <3>. HIDE DEF map
    <3>5. map \in Parts /\ PagesIn(map) = PagesIn(<<>>) \cup Members(Ascending(Titles))
      BY <3>2, <3>3, <3>4, NoParts, PartsAppend
    <3>. QED
      BY <3>2, <3>5, NoParts DEF Total
  <2>. HIDE DEF map
  <2>3. new # NoMap
    <3>1. N + MaxSize \in Nat
      BY ConstantsAre
    <3>. QED
      BY <2>2, <3>1, FiledIsSome DEF Total
  <2>4. Total(file.clusters)'
    BY <2>1, <2>2 DEF Total, PagesIn
  <2>. HIDE DEF new
  <2>. QED
    BY <2>1, <2>3, <2>4 DEF Total, PagesIn
<1>9. CASE UNCHANGED clustersVars
  BY <1>9 DEF clustersVars, Total, PagesIn
<1>. QED
  BY <1>1, <1>2, <1>3, <1>4, <1>5, <1>6, <1>7, <1>8, <1>9 DEF ClustersNext, Step

\* The action of NeighborhoodIsTheGroups.
OwnNeighborhood ==
    phase # "work" /\ phase' = "work" /\ changes = 0 /\ group <= Len(clusters)
        => focus' = Members(clusters[group])

LEMMA OwnStep == MapInv /\ [ClustersNext]_clustersVars => [OwnNeighborhood]_clustersVars
<1>. SUFFICES ASSUME MapInv, ClustersNext, phase # "work", phase' = "work", changes = 0, group <= Len(clusters)
              PROVE  focus' = Members(clusters[group])
  BY DEF OwnNeighborhood, clustersVars
<1>1. CASE TakeMap
  <2>1. file.clusters = clusters /\ group # 0
    BY <1>1 DEF MapInv, TakeMap, Own
  <2>2. focus' = Neighborhood(clusters)
    BY <1>1, <2>1 DEF TakeMap, Uses, inject_cluster_focus_context
  <2>3. Len(clusters) \in Nat /\ group \in Nat
    BY <2>1 DEF MapInv, Total, Parts
  <2>4. ~(group > Len(clusters))
    BY <2>3
  <2>. QED
    BY <2>2, <2>4 DEF Neighborhood
<1>2. ~Save
  BY DEF Save, Uses, MapInv
<1>. QED
  BY <1>1, <1>2 DEF ClustersNext, Step, Compute, Link, Linked, Move, NextIteration, Group, Split, Splitted, Keep,
     Place, Placed, Goes, Load, NextGroup, Ask, CommitPage, Command

LEMMA MapInvariant == ClustersSpec => [](PartsInv /\ MapInv)
<1>1. PartsInv /\ MapInv /\ [ClustersNext]_clustersVars => (PartsInv /\ MapInv)'
  BY PartsStep, MapStep
<1>. QED
  BY <1>1, PartsInit, MapInit, PTL DEF ClustersSpec

\* The groups of a cycle, and the map in the file whoever filed it last, have
\* every page of the catalog in exactly one cluster.
Grouping ==
    /\ group # 0 => Total(clusters)
    /\ file # NoMap => Total(file.clusters)

\* load_or_compute_semantic_clusters: also when the file is replaced between
\* its two reads, by the map of a catalog of the same pages, no page is left out
\* of the groups or put in two.
THEOREM GroupsPartitionPages == ClustersSpec => []Grouping
<1>1. MapInv => Grouping
  BY DEF MapInv, Grouping
<1>. QED
  BY <1>1, MapInvariant, PTL

\* _begin_cluster_context: while nobody else changes the catalog or the file, a
\* group begins with the pages of its own cluster as its neighborhood.
THEOREM GroupBeginsWithItself == ClustersSpec => NeighborhoodIsTheGroups
<1>1. PartsInv /\ MapInv /\ [ClustersNext]_clustersVars => [OwnNeighborhood]_clustersVars
  BY OwnStep
<1>. QED
  BY <1>1, MapInvariant, PTL DEF ClustersSpec, NeighborhoodIsTheGroups, OwnNeighborhood
=============================================================================
