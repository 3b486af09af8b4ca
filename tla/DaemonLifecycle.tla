-------------------------- MODULE DaemonLifecycle ---------------------------
(***************************************************************************)
(* src/agent/maintenance_daemon.py: how a daemon is started, found and     *)
(* stopped.  A worker takes a flock on a lock file, publishes its pid,     *)
(* loads the ledger, works and, when it is told to stop, saves the ledger  *)
(* and gives up its files one after the other.  The start and stop         *)
(* commands of the command line and of the web UI read the pid file        *)
(* between these steps; stop also rewrites the ledger.  Workers are killed *)
(* at any moment and their pids pass to other programs.                    *)
(*                                                                         *)
(* What is abstracted: a worker is one process, so its pid is its name;    *)
(* the ledger is the set of pages with a record that is not an error, and  *)
(* a save is one step.                                                     *)
(***************************************************************************)
EXTENDS Naturals

CONSTANTS
    Workers,        \* the pids; bound: the processes ever launched
    Operators,      \* who runs plumber start and plumber stop
    Pages,
    None,
    Patient         \* one command at a time, none while a worker is starting

ASSUME DaemonLifecycleAssumption == 
    Workers \subseteq Nat /\ None \notin Workers /\ Patient \in BOOLEAN

VARIABLES
    lockFile,   \* disk: the worker that created the lock file, or None
    pidFile,    \* disk: the pid in the pid file, or None
    ledger,     \* disk: the pages with such a record
    pc,         \* what each worker is doing
    fd,         \* the lock file a worker has open
    mem,        \* DaemonState of a worker
    unsaved,    \* _state_persist_failed
    stopping,   \* _stop_requested
    cmd,        \* what each operator's command is doing
    seen,       \* the pid it read, or the worker it launched
    copy        \* the ledger it loaded

files == <<lockFile, pidFile, ledger>>
workerVars == <<pc, fd, mem, unsaved, stopping>>
commandVars == <<cmd, seen, copy>>
vars == <<lockFile, pidFile, ledger, pc, fd, mem, unsaved, stopping, cmd, seen, copy>>

\* A daemon serves from the moment it has the lock until it withdraws its pid.
Serving(w) == pc[w] \in {"pid", "load", "clear", "begin", "sleep", "run", "save", "unpid"}
HoldsLock(w) == Serving(w) \/ pc[w] = "unlock"
Alive(w) == pc[w] \notin {"unborn", "dead", "gone"}     \* is_process_alive
Plumber(w) == Alive(w) /\ pc[w] # "reused"      \* is_plumber_process

TypeOK ==
    /\ lockFile \in Workers \cup {None} /\ pidFile \in Workers \cup {None}
    /\ ledger \subseteq Pages
    /\ pc \in [Workers -> {"unborn", "boot", "opened", "pid", "load", "clear", "begin", "sleep", "run",
                           "save", "unpid", "unlock", "unlink", "exit", "dead", "reused", "gone"}]
    /\ fd \in [Workers -> Workers \cup {None}]
    /\ mem \in [Workers -> SUBSET Pages]
    /\ unsaved \subseteq Workers /\ stopping \subseteq Workers
    /\ cmd \in [Operators -> {"idle", "clear", "spawn", "await", "signal", "wait",
                              "unlink", "forget", "load", "save"}]
    /\ seen \in [Operators -> Workers \cup {None}]
    /\ copy \in [Operators -> SUBSET Pages]

Init ==
    /\ lockFile = None /\ pidFile = None /\ ledger = {}
    /\ pc = [w \in Workers |-> "unborn"] /\ fd = [w \in Workers |-> None]
    /\ mem = [w \in Workers |-> {}] /\ unsaved = {} /\ stopping = {}
    /\ cmd = [o \in Operators |-> "idle"] /\ seen = [o \in Operators |-> None]
    /\ copy = [o \in Operators |-> {}]

-----------------------------------------------------------------------------
(* A worker: start_daemon_foreground, run_forever *)

At(w, here, there) == pc[w] = here /\ pc' = [pc EXCEPT ![w] = there]

\* The end of a process: its descriptors and its memory go with it.
Dies(w) ==
    /\ pc' = [pc EXCEPT ![w] = IF @ = "reused" THEN "gone" ELSE "dead"]
    /\ fd' = [fd EXCEPT ![w] = None]
    /\ mem' = [mem EXCEPT ![w] = {}]
    /\ unsaved' = unsaved \ {w}
    /\ stopping' = stopping \ {w}

\* What whoever is patient waits for before giving a command; a worker
\* is launched by hand only when there is none.
Calm ==
    /\ \A o \in Operators : cmd[o] = "idle"
    /\ \A w \in Workers : pc[w] \notin {"boot", "opened", "pid"}

\* plumber start --foreground.  Pids are given in order.
Launch(w) ==
    /\ \A v \in Workers : pc[v] = "unborn" => w <= v
    /\ Patient => Calm /\ \A v \in Workers : ~Plumber(v)
    /\ At(w, "unborn", "boot")
    /\ UNCHANGED <<files, fd, mem, unsaved, stopping, commandVars>>

\* os.open(O_CREAT) of the lock file.
OpenLock(w) ==
    /\ At(w, "boot", "opened")
    /\ lockFile' = IF lockFile = None THEN w ELSE lockFile
    /\ fd' = [fd EXCEPT ![w] = lockFile']
    /\ UNCHANGED <<pidFile, ledger, mem, unsaved, stopping, commandVars>>

Busy(w) == \E v \in Workers : HoldsLock(v) /\ fd[v] = fd[w]

TakeLock(w) ==
    /\ At(w, "opened", "pid")
    /\ ~Busy(w)
    /\ UNCHANGED <<files, fd, mem, unsaved, stopping, commandVars>>

\* flock(LOCK_NB) fails: the worker exits with code 1.
LockHeld(w) ==
    /\ pc[w] = "opened" /\ Busy(w)
    /\ Dies(w)
    /\ UNCHANGED <<files, commandVars>>

write_pid_file(w) ==
    /\ At(w, "pid", "load")
    /\ pidFile' = w
    /\ UNCHANGED <<lockFile, ledger, fd, mem, unsaved, stopping, commandVars>>

\* Mutant: the worker starts from a fresh state.
LoadLedgerFresh(w) ==
    /\ At(w, "load", "clear")
    /\ UNCHANGED <<files, fd, mem, unsaved, stopping, commandVars>>

LoadLedger(w) ==
    /\ At(w, "load", "clear")
    /\ mem' = [mem EXCEPT ![w] = ledger]
    /\ UNCHANGED <<files, fd, unsaved, stopping, commandVars>>

\* clear_phase1_error_backoff: records of errors are deleted, and if there were
\* any the rest is saved.
ClearErrors(w) ==
    /\ At(w, "clear", "begin")
    /\ ledger' \in {mem[w], ledger}
    /\ UNCHANGED <<lockFile, pidFile, fd, mem, unsaved, stopping, commandVars>>

\* status = "running" is saved before the first cycle.
SaveRunning(w) ==
    /\ At(w, "begin", "sleep")
    /\ ledger' = mem[w]
    /\ UNCHANGED <<lockFile, pidFile, fd, mem, unsaved, stopping, commandVars>>

\* Mutant: the loop does not look at the stop request.
WakeAlways(w) ==
    /\ At(w, "sleep", "run")
    /\ UNCHANGED <<files, fd, mem, unsaved, stopping, commandVars>>

\* The loop test, and the wait between two cycles.
Wake(w) ==
    /\ At(w, "sleep", IF w \in stopping THEN "save" ELSE "run")
    /\ UNCHANGED <<files, fd, mem, unsaved, stopping, commandVars>>

\* A page is settled and the checkpoint saved, or the save fails and is noted.
SettlePage(w, p) ==
    /\ pc[w] = "run" /\ p \notin mem[w]
    /\ mem' = [mem EXCEPT ![w] = @ \cup {p}]
    /\ \/ ledger' = mem'[w] /\ unsaved' = unsaved \ {w}
       \/ ledger' = ledger /\ unsaved' = unsaved \cup {w}
    /\ UNCHANGED <<lockFile, pidFile, pc, fd, stopping, commandVars>>

\* The cycle ends; the ledger is read back unless the last save failed.
EndCycle(w) ==
    /\ At(w, "run", "sleep")
    /\ mem' = IF w \in unsaved THEN mem ELSE [mem EXCEPT ![w] = ledger]
    /\ UNCHANGED <<files, fd, unsaved, stopping, commandVars>>

\* An exception leaves the loop by the same finally as a stop.
CycleRaises(w) ==
    /\ At(w, "run", "save")
    /\ UNCHANGED <<files, fd, mem, unsaved, stopping, commandVars>>

\* _finalize_graceful_shutdown, line by line.
SaveStopped(w) ==
    /\ At(w, "save", "unpid")
    /\ ledger' \in {mem[w], ledger}
    /\ UNCHANGED <<lockFile, pidFile, fd, mem, unsaved, stopping, commandVars>>

RemovePid(w) ==
    /\ At(w, "unpid", "unlock")
    /\ pidFile' = None
    /\ UNCHANGED <<lockFile, ledger, fd, mem, unsaved, stopping, commandVars>>

ReleaseLock(w) ==
    /\ At(w, "unlock", "unlink")
    /\ fd' = [fd EXCEPT ![w] = None]
    /\ UNCHANGED <<files, mem, unsaved, stopping, commandVars>>

UnlinkLock(w) ==
    /\ At(w, "unlink", "exit")
    /\ lockFile' = None
    /\ UNCHANGED <<pidFile, ledger, fd, mem, unsaved, stopping, commandVars>>

Exit(w) ==
    /\ pc[w] = "exit"
    /\ Dies(w)
    /\ UNCHANGED <<files, commandVars>>

Proceed(w) ==
    \/ OpenLock(w) \/ TakeLock(w) \/ LockHeld(w) \/ write_pid_file(w) \/ LoadLedger(w)
    \/ ClearErrors(w) \/ SaveRunning(w) \/ Wake(w) \/ EndCycle(w)
    \/ SaveStopped(w) \/ RemovePid(w) \/ ReleaseLock(w) \/ UnlinkLock(w) \/ Exit(w)

WorkerStep(w) == Launch(w) \/ Proceed(w) \/ CycleRaises(w) \/ \E p \in Pages : SettlePage(w, p)

-----------------------------------------------------------------------------
(* What happens to a worker *)

\* The handlers are installed before the pid is published; what comes too
\* early for them is a crash, and what comes after the loop changes nothing.
Handles(w) == pc[w] \in {"pid", "load", "clear", "begin", "sleep", "run"}

\* SIGTERM or SIGINT from a terminal or a service manager.
Interrupt(w) ==
    /\ Handles(w) /\ w \notin stopping
    /\ stopping' = stopping \cup {w}
    /\ UNCHANGED <<files, pc, fd, mem, unsaved, commandVars>>

Crash(w) ==
    /\ Plumber(w)
    /\ Dies(w)
    /\ UNCHANGED <<files, commandVars>>

\* Another program gets the pid, while somebody still has it written down.
\* Bound: once.
PidReused(w) ==
    /\ pidFile = w \/ \E o \in Operators : seen[o] = w
    /\ At(w, "dead", "reused")
    /\ UNCHANGED <<files, fd, mem, unsaved, stopping, commandVars>>

ForeignExits(w) ==
    /\ pc[w] = "reused"
    /\ Dies(w)
    /\ UNCHANGED <<files, commandVars>>

-----------------------------------------------------------------------------
(* plumber start: start_daemon_detached *)

Goes(o, here, there) == cmd[o] = here /\ cmd' = [cmd EXCEPT ![o] = there]

\* Nobody starts a daemon when the bound on processes is reached.
StartReads(o) ==
    /\ Patient => Calm
    /\ \E w \in Workers : pc[w] = "unborn"
    /\ Goes(o, "idle", IF pidFile = None THEN "spawn"
                       ELSE IF Alive(pidFile) THEN "idle"
                       ELSE "clear")
    /\ UNCHANGED <<files, workerVars, seen, copy>>

StartClears(o) ==
    /\ Goes(o, "clear", "spawn")
    /\ pidFile' = None
    /\ UNCHANGED <<lockFile, ledger, workerVars, seen, copy>>

Spawn(o, w) ==
    /\ \A v \in Workers : pc[v] = "unborn" => w <= v
    /\ Goes(o, "spawn", "await")
    /\ At(w, "unborn", "boot")
    /\ seen' = [seen EXCEPT ![o] = w]
    /\ UNCHANGED <<files, fd, mem, unsaved, stopping, copy>>

\* The worker has exited, or the pid file names a live daemon.
StartReturns(o) ==
    /\ Goes(o, "await", "idle")
    /\ \/ ~Plumber(seen[o])
       \/ pidFile # None /\ Plumber(pidFile)
    /\ seen' = [seen EXCEPT ![o] = None]
    /\ UNCHANGED <<files, workerVars, copy>>

\* startup_timeout after 15 s; the worker goes on.
StartGivesUp(o) ==
    /\ Goes(o, "await", "idle")
    /\ seen' = [seen EXCEPT ![o] = None]
    /\ UNCHANGED <<files, workerVars, copy>>

-----------------------------------------------------------------------------
(* plumber stop: stop_daemon *)

StopReads(o) ==
    /\ Patient => Calm
    /\ Goes(o, "idle", IF pidFile = None THEN "idle"
                       ELSE IF Plumber(pidFile) THEN "signal"
                       ELSE IF Alive(pidFile) THEN "forget"
                       ELSE "unlink")
    /\ seen' = [seen EXCEPT ![o] = IF cmd'[o] = "signal" THEN pidFile ELSE None]
    /\ UNCHANGED <<files, workerVars, copy>>

\* Mutant: stop does not wait for the daemon it has signalled.
SignalOnly(o) ==
    LET w == seen[o] IN
    /\ Goes(o, "signal", IF Alive(w) THEN "unlink" ELSE "idle")
    /\ seen' = [seen EXCEPT ![o] = None]
    /\ stopping' = IF Handles(w) THEN stopping \cup {w} ELSE stopping
    /\ UNCHANGED <<files, pc, fd, mem, unsaved, copy>>

\* os.kill fails and ends the command when the worker is gone by now.
Signal(o) ==
    LET w == seen[o] IN
    /\ Goes(o, "signal", IF Alive(w) THEN "wait" ELSE "idle")
    /\ seen' = IF Alive(w) THEN seen ELSE [seen EXCEPT ![o] = None]
    /\ stopping' = IF Handles(w) THEN stopping \cup {w} ELSE stopping
    /\ UNCHANGED <<files, pc, fd, mem, unsaved, copy>>

\* Mutant: stop escalates only to a program it recognises.
StopKillsPlumbers(o) ==
    /\ cmd[o] = "wait" /\ Plumber(seen[o])
    /\ Dies(seen[o])
    /\ UNCHANGED <<files, commandVars>>

\* SIGKILL once 125 s have passed, to whatever program has the pid by then.
StopKills(o) ==
    /\ cmd[o] = "wait" /\ Alive(seen[o])
    /\ Dies(seen[o])
    /\ UNCHANGED <<files, commandVars>>

StopSees(o) ==
    /\ Goes(o, "wait", "unlink")
    /\ ~Alive(seen[o])
    /\ seen' = [seen EXCEPT ![o] = None]
    /\ UNCHANGED <<files, workerVars, copy>>

\* Mutant: the command does not end after it has removed a foreign pid.
StopForgetsOpen(o) ==
    /\ Goes(o, "forget", "foreign_pid")
    /\ pidFile' = None
    /\ UNCHANGED <<lockFile, ledger, workerVars, seen, copy>>

\* foreign_pid: the pid file is removed and the ledger left alone.
StopForgets(o) ==
    /\ Goes(o, "forget", "idle")
    /\ pidFile' = None
    /\ UNCHANGED <<lockFile, ledger, workerVars, seen, copy>>

StopRemovesPid(o) ==
    /\ Goes(o, "unlink", "load")
    /\ pidFile' = None
    /\ UNCHANGED <<lockFile, ledger, workerVars, seen, copy>>

StopLoads(o) ==
    /\ Goes(o, "load", "save")
    /\ copy' = [copy EXCEPT ![o] = ledger]
    /\ UNCHANGED <<files, workerVars, seen>>

StopSaves(o) ==
    /\ Goes(o, "save", "idle")
    /\ ledger' = copy[o]
    /\ copy' = [copy EXCEPT ![o] = {}]
    /\ UNCHANGED <<lockFile, pidFile, workerVars, seen>>

Continue(o) ==
    \/ StartClears(o) \/ StartReturns(o) \/ Signal(o) \/ StopKills(o) \/ StopSees(o)
    \/ StopForgets(o) \/ StopRemovesPid(o) \/ StopLoads(o) \/ StopSaves(o)

CommandStep(o) ==
    \/ StartReads(o) \/ StartGivesUp(o) \/ StopReads(o) \/ Continue(o)
    \/ \E w \in Workers : Spawn(o, w)

Next ==
    \/ \E w \in Workers : WorkerStep(w) \/ Interrupt(w) \/ Crash(w) \/ PidReused(w) \/ ForeignExits(w)
    \/ \E o \in Operators : CommandStep(o)

Spec == Init /\ [][Next]_vars

\* A worker that is alive and a command that has begun get their next step.
\* A daemon is not obliged to settle pages, nor a start to give up; a stop
\* kills when its time has come.
FairSpec ==
    /\ Spec
    /\ \A w \in Workers : WF_vars(Proceed(w))
    /\ \A o \in Operators : WF_vars(Continue(o))

-----------------------------------------------------------------------------
(* Properties *)

\* A daemon at work is the one that the pid file names, so that start finds it
\* and stop reaches it: nobody removes the pid of a live daemon but itself.
DaemonIsNamed == \A w \in Workers : pc[w] \in {"load", "clear", "begin", "sleep", "run", "save"} => pidFile = w

\* One daemon serves at a time, only a serving daemon adds records, and no
\* save -- not the one of stop, which loads and saves without any lock --
\* takes a record back.
Service == INSTANCE DaemonService WITH
    Daemons <- Workers, serving <- {w \in Workers : Serving(w)}, recorded <- ledger
ImplementsService == Service!ServiceSpec

\* A daemon that is told to stop ends by itself, whatever it was doing.
SignalledEnds == stopping # {} ~> stopping = {}

\* A stop that has signalled a pid returns, also when the pid passes to
\* another program before the wait has noticed that the daemon is gone.
StopSettles == \A o \in Operators : cmd[o] = "wait" ~> cmd[o] = "idle"
=============================================================================
