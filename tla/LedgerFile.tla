----------------------------- MODULE LedgerFile -----------------------------
(***************************************************************************)
(* src/agent/maintenance_daemon.py, src/graph/json_flock.py: the daemon's  *)
(* checkpoint file and its backup.  A save writes a temporary file,        *)
(* renames it over the checkpoint and then copies the checkpoint over the  *)
(* backup in place, all under a flock.  A load takes no lock: when it      *)
(* cannot read the checkpoint it reads the backup and copies it over the   *)
(* checkpoint in place.  The daemon, the stop command and the control room *)
(* load; the first two also save.                                          *)
(*                                                                         *)
(* What is abstracted: the contents of a checkpoint are the number of the  *)
(* save that wrote it; 0 is the state of a graph that has none.            *)
(***************************************************************************)
EXTENDS Naturals

CONSTANTS
    Procs,          \* processes that load
    Savers,         \* those that also save
    MaxSaves,       \* bound: saves
    MaxFaults,      \* bound: kills, damages and I/O errors since the last whole save
    Overlap,        \* may a save overlap a load that restores the backup
    Nil

ASSUME LedgerFileAssumption ==
    /\ Savers \subseteq Procs /\ Nil \notin Procs
    /\ MaxSaves \in Nat /\ MaxFaults \in Nat /\ Overlap \in BOOLEAN

Fresh == 0          \* DaemonState()
Missing == MaxSaves + 1
Torn == MaxSaves + 2
Versions == 0..MaxSaves
Contents == 0..Torn

VARIABLES
    checkpoint, \* disk: what state_path names
    inode,      \* the save whose temporary file it is
    backup,     \* disk: state_bak_path
    flock,      \* the process inside cross_process_json_flock
    at,         \* what each process is doing
    held,       \* the DaemonState a process has loaded, or Nil
    ino,        \* the inode a process has open
    floor,      \* what a load had to find when it began
    saves,      \* saves begun
    acked,      \* the newest save that returned
    faults      \* faults since the last whole save

bothFiles == <<checkpoint, inode, backup>>
fileVars == <<checkpoint, inode, backup, flock, at, held, ino, floor, saves, acked, faults>>

Readable(c) == c \in Versions

\* What a load that nobody disturbs returns.
Found == IF Readable(checkpoint) THEN checkpoint ELSE IF Readable(backup) THEN backup ELSE Fresh

Steps == {"idle", "read", "reread", "readBackup", "restore", "rewrite",
          "lock", "write", "commit", "copy", "recopy"}

FileTypeOK ==
    /\ checkpoint \in Contents /\ backup \in Contents /\ inode \in Versions
    /\ flock \in Procs \cup {Nil}
    /\ at \in [Procs -> Steps]
    /\ held \in [Procs -> Versions \cup {Nil}]
    /\ ino \in [Procs -> Versions] /\ floor \in [Procs -> Versions]
    /\ saves \in Versions /\ acked \in Versions /\ faults \in 0..MaxFaults

FileInit ==
    /\ checkpoint = Missing /\ inode = 0 /\ backup = Missing /\ flock = Nil
    /\ at = [p \in Procs |-> "idle"] /\ held = [p \in Procs |-> Nil]
    /\ ino = [p \in Procs |-> 0] /\ floor = [p \in Procs |-> 0]
    /\ saves = 0 /\ acked = 0 /\ faults = 0

Moves(p, here, there) == at[p] = here /\ at' = [at EXCEPT ![p] = there]
Fault == faults < MaxFaults /\ faults' = faults + 1
Restoring(p) == at[p] \in {"readBackup", "restore", "rewrite"}
Remembers(p, v) == held' = [held EXCEPT ![p] = v]

-----------------------------------------------------------------------------
(* load_daemon_state *)

\* Neither file exists: a fresh state.
LoadFirst(p) ==
    /\ at[p] = "idle" /\ checkpoint = Missing /\ backup = Missing
    /\ Remembers(p, Fresh)
    /\ UNCHANGED <<bothFiles, flock, at, ino, floor, saves, acked, faults>>

LoadBegin(p) ==
    /\ Moves(p, "idle", "read")
    /\ ~(checkpoint = Missing /\ backup = Missing)
    /\ floor' = [floor EXCEPT ![p] = acked]
    /\ UNCHANGED <<bothFiles, flock, held, ino, saves, acked, faults>>

\* Mutant: whatever the file holds is taken.
LoadMalformed(p) ==
    /\ at[p] \in {"read", "reread"} /\ checkpoint # Missing
    /\ at' = [at EXCEPT ![p] = "idle"]
    /\ Remembers(p, checkpoint)
    /\ UNCHANGED <<bothFiles, flock, ino, floor, saves, acked, faults>>

\* Mutant: the backup is preferred.
LoadPrefersBackup(p) ==
    /\ at[p] \in {"read", "reread"} /\ Readable(checkpoint)
    /\ at' = [at EXCEPT ![p] = "idle"]
    /\ Remembers(p, IF Readable(backup) THEN backup ELSE checkpoint)
    /\ UNCHANGED <<bothFiles, flock, ino, floor, saves, acked, faults>>

LoadPrimary(p) ==
    /\ at[p] \in {"read", "reread"} /\ Readable(checkpoint)
    /\ at' = [at EXCEPT ![p] = "idle"]
    /\ Remembers(p, checkpoint)
    /\ UNCHANGED <<bothFiles, flock, ino, floor, saves, acked, faults>>

\* _read_daemon_state_payload: an empty or malformed file is read twice.
LoadAgain(p) ==
    /\ Moves(p, "read", "reread") /\ checkpoint = Torn
    /\ UNCHANGED <<bothFiles, flock, held, ino, floor, saves, acked, faults>>

Undisturbed(p) == ~Overlap => flock = Nil

LoadGivesUp(p) ==
    /\ Moves(p, "reread", "readBackup") /\ checkpoint = Torn
    /\ Undisturbed(p)
    /\ UNCHANGED <<bothFiles, flock, held, ino, floor, saves, acked, faults>>

\* An OSError is not tried again.
LoadError(p) ==
    /\ at[p] \in {"read", "reread"} /\ at' = [at EXCEPT ![p] = "readBackup"]
    /\ Undisturbed(p) /\ Fault
    /\ UNCHANGED <<bothFiles, flock, held, ino, floor, saves, acked>>

LoadBackup(p) ==
    /\ Moves(p, "readBackup", "restore") /\ Readable(backup)
    /\ Remembers(p, backup)
    /\ UNCHANGED <<bothFiles, flock, ino, floor, saves, acked, faults>>

\* Both are unreadable: a fresh state.
LoadFresh(p) ==
    /\ Moves(p, "readBackup", "idle") /\ ~Readable(backup)
    /\ Remembers(p, Fresh)
    /\ UNCHANGED <<bothFiles, flock, ino, floor, saves, acked, faults>>

\* shutil.copy2(bak_path, path) truncates the file the path names ...
RestoreOpens(p) ==
    /\ Moves(p, "restore", "rewrite")
    /\ checkpoint' = Torn
    /\ ino' = [ino EXCEPT ![p] = inode]
    /\ UNCHANGED <<inode, backup, flock, held, floor, saves, acked, faults>>

\* ... and writes what the backup holds by then.
RestoreWrites(p) ==
    /\ Moves(p, "rewrite", "idle")
    /\ checkpoint' = IF ino[p] = inode THEN backup ELSE checkpoint
    /\ UNCHANGED <<inode, backup, flock, held, ino, floor, saves, acked, faults>>

\* Its error is suppressed.
RestoreFails(p) ==
    /\ Restoring(p) /\ at[p] # "readBackup" /\ at' = [at EXCEPT ![p] = "idle"]
    /\ Fault
    /\ UNCHANGED <<bothFiles, flock, held, ino, floor, saves, acked>>

-----------------------------------------------------------------------------
(* save_daemon_state *)

SaveBegin(p) ==
    /\ p \in Savers /\ held[p] # Nil
    /\ Moves(p, "idle", "lock")
    /\ UNCHANGED <<bothFiles, flock, held, ino, floor, saves, acked, faults>>

\* cross_process_json_flock blocks.
SaveLocks(p) ==
    /\ Moves(p, "lock", "write") /\ flock = Nil
    /\ saves < MaxSaves
    /\ ~Overlap => \A q \in Procs : ~Restoring(q)
    /\ flock' = p
    /\ UNCHANGED <<bothFiles, held, ino, floor, saves, acked, faults>>

\* The temporary file is written and synced, or removed after an error.
SaveWrites(p) ==
    /\ Moves(p, "write", "commit")
    /\ saves' = saves + 1
    /\ Remembers(p, saves + 1)
    /\ UNCHANGED <<bothFiles, flock, ino, floor, acked, faults>>

SaveFails(p) ==
    /\ at[p] \in {"write", "commit"} /\ at' = [at EXCEPT ![p] = "idle"]
    /\ Fault
    /\ flock' = Nil
    /\ UNCHANGED <<bothFiles, held, ino, floor, saves, acked>>

SaveReplaces(p) ==
    /\ Moves(p, "commit", "copy")
    /\ checkpoint' = held[p] /\ inode' = held[p]
    /\ ino' = [ino EXCEPT ![p] = held[p]]
    /\ UNCHANGED <<backup, flock, held, floor, saves, acked, faults>>

\* Mutant: a backup that exists is kept.
CopyOnce(p) ==
    /\ Moves(p, "copy", IF backup = Missing THEN "recopy" ELSE "idle")
    /\ backup' = IF backup = Missing THEN Torn ELSE backup
    /\ flock' = IF backup = Missing THEN p ELSE Nil
    /\ acked' = IF backup = Missing THEN acked ELSE held[p]
    /\ UNCHANGED <<checkpoint, inode, held, ino, floor, saves, faults>>

\* shutil.copy2(path, bak_path), in place as well.
CopyOpens(p) ==
    /\ Moves(p, "copy", "recopy")
    /\ backup' = Torn
    /\ UNCHANGED <<checkpoint, inode, flock, held, ino, floor, saves, acked, faults>>

\* The save returns; two good files are left.
CopyWrites(p) ==
    /\ Moves(p, "recopy", "idle")
    /\ backup' = checkpoint
    /\ flock' = Nil
    /\ acked' = held[p]
    /\ faults' = IF Readable(checkpoint) THEN 0 ELSE faults
    /\ UNCHANGED <<checkpoint, inode, held, ino, floor, saves>>

\* Its error is suppressed: the save returns all the same.
CopyFails(p) ==
    /\ at[p] \in {"copy", "recopy"} /\ at' = [at EXCEPT ![p] = "idle"]
    /\ Fault
    /\ flock' = Nil
    /\ acked' = held[p]
    /\ UNCHANGED <<bothFiles, held, ino, floor, saves>>

-----------------------------------------------------------------------------
(* Faults *)

\* A process is killed: its flock goes, the files stay as they are.
Kill(p) ==
    /\ at[p] # "idle" /\ Fault
    /\ at' = [at EXCEPT ![p] = "idle"]
    /\ held' = [held EXCEPT ![p] = Nil]
    /\ flock' = IF flock = p THEN Nil ELSE flock
    /\ UNCHANGED <<bothFiles, ino, floor, saves, acked>>

\* What the recovery is for: a file is found malformed.
Damage ==
    /\ flock = Nil /\ Fault
    /\ \/ Readable(checkpoint) /\ checkpoint' = Torn /\ UNCHANGED backup
       \/ Readable(backup) /\ backup' = Torn /\ UNCHANGED checkpoint
    /\ UNCHANGED <<inode, flock, at, held, ino, floor, saves, acked>>

Load(p) ==
    \/ LoadFirst(p) \/ LoadBegin(p) \/ LoadPrimary(p) \/ LoadAgain(p) \/ LoadGivesUp(p)
    \/ LoadBackup(p) \/ LoadFresh(p) \/ RestoreOpens(p) \/ RestoreWrites(p)

Save(p) ==
    \/ SaveLocks(p) \/ SaveWrites(p) \/ SaveReplaces(p) \/ CopyOpens(p) \/ CopyWrites(p)

FileNext ==
    \/ \E p \in Procs : Load(p) \/ SaveBegin(p) \/ Save(p)
    \/ \E p \in Procs : LoadError(p) \/ RestoreFails(p) \/ SaveFails(p) \/ CopyFails(p) \/ Kill(p)
    \/ Damage

FileSpec == FileInit /\ [][FileNext]_fileVars

-----------------------------------------------------------------------------
(* Properties *)

\* save_daemon_state, load_daemon_state: between two whole saves one kill,
\* one damaged file or one failed read, write or copy takes no save back
\* that returned to its caller.
OneFaultLosesNothing == faults <= 1 => Found >= acked

\* load_daemon_state: a load that ends returns at least the newest save that
\* had returned when it began, also when another process restores the
\* checkpoint in the middle of it.
LoadsAreCurrent ==
    [][\A p \in Procs :
        at[p] \in {"read", "reread", "readBackup"} /\ held'[p] # held[p] /\ held'[p] # Nil
        /\ faults <= 1 => held'[p] >= floor[p]]_fileVars

=============================================================================
