----------------------- MODULE DaemonLifecycleProofs ------------------------
(***************************************************************************)
(* Theorems on DaemonLifecycle, for every number of workers and operators, *)
(* and on LedgerFile, the file the daemon keeps its ledger in, for every   *)
(* number of processes, saves and faults.                                  *)
(***************************************************************************)
EXTENDS DaemonLifecycle, LedgerFile, TLAPS

-----------------------------------------------------------------------------
(* Types *)

\* A command that waits for a worker knows which.
HasSeen == \A o \in Operators : cmd[o] \in {"await", "signal", "wait"} => seen[o] \in Workers

TypeInv == TypeOK /\ HasSeen

LEMMA TypeStep == TypeInv /\ [Next]_vars => TypeInv'
<1> SUFFICES ASSUME TypeInv, [Next]_vars  PROVE TypeInv'
  OBVIOUS
<1> USE DaemonLifecycleAssumption DEF TypeInv, TypeOK, HasSeen, files, workerVars, commandVars
<1>1. ASSUME NEW w \in Workers, Proceed(w) \/ CycleRaises(w) \/ Launch(w)  PROVE TypeInv'
  <2>1. CASE OpenLock(w)        BY <2>1 DEF OpenLock, At
  <2>2. CASE TakeLock(w)        BY <2>2 DEF TakeLock, At
  <2>3. CASE LockHeld(w)        BY <2>3 DEF LockHeld, Dies
  <2>4. CASE write_pid_file(w)  BY <2>4 DEF write_pid_file, At
  <2>5. CASE LoadLedger(w)      BY <2>5 DEF LoadLedger, At
  <2>6. CASE ClearErrors(w) \/ SaveRunning(w)  BY <2>6 DEF ClearErrors, SaveRunning, At
  <2>7. CASE Wake(w)            BY <2>7 DEF Wake, At
  <2>8. CASE EndCycle(w)        BY <2>8 DEF EndCycle, At
  <2>9. CASE SaveStopped(w)     BY <2>9 DEF SaveStopped, At
  <2>10. CASE RemovePid(w)      BY <2>10 DEF RemovePid, At
  <2>11. CASE ReleaseLock(w)    BY <2>11 DEF ReleaseLock, At
  <2>12. CASE UnlinkLock(w)     BY <2>12 DEF UnlinkLock, At
  <2>13. CASE Exit(w)           BY <2>13 DEF Exit, Dies
  <2>14. CASE CycleRaises(w)    BY <2>14 DEF CycleRaises, At
  <2>15. CASE Launch(w)         BY <2>15 DEF Launch, At
  <2> QED  BY <1>1, <2>1, <2>2, <2>3, <2>4, <2>5, <2>6, <2>7, <2>8, <2>9, <2>10, <2>11, <2>12,
              <2>13, <2>14, <2>15 DEF Proceed
<1>2. ASSUME NEW w \in Workers, NEW p \in Pages, SettlePage(w, p)  PROVE TypeInv'
  BY <1>2 DEF SettlePage
<1>3. ASSUME NEW w \in Workers, Interrupt(w)  PROVE TypeInv'
  BY <1>3 DEF Interrupt
<1>4. ASSUME NEW w \in Workers, Crash(w) \/ ForeignExits(w)  PROVE TypeInv'
  <2>1. Dies(w) /\ UNCHANGED <<files, commandVars>>
    BY <1>4 DEF Crash, ForeignExits
  <2> QED  BY <2>1 DEF Dies
<1>5. ASSUME NEW w \in Workers, PidReused(w)  PROVE TypeInv'
  BY <1>5 DEF PidReused, At
<1>6. ASSUME NEW o \in Operators, CommandStep(o)  PROVE TypeInv'
  <2>1. CASE StartReads(o)      BY <2>1 DEF StartReads, Goes
  <2>2. CASE StartClears(o)     BY <2>2 DEF StartClears, Goes
  <2>3. ASSUME NEW w \in Workers, Spawn(o, w)  PROVE TypeInv'
    BY <2>3 DEF Spawn, Goes, At
  <2>4. CASE StartReturns(o)    BY <2>4 DEF StartReturns, Goes
  <2>5. CASE StartGivesUp(o)    BY <2>5 DEF StartGivesUp, Goes
  <2>6. CASE StopReads(o)       BY <2>6 DEF StopReads, Goes
  <2>7. CASE Signal(o)          BY <2>7 DEF Signal, Goes
  <2>8. CASE StopKills(o)       BY <2>8 DEF StopKills, Dies
  <2>9. CASE StopSees(o)        BY <2>9 DEF StopSees, Goes
  <2>10. CASE StopForgets(o)    BY <2>10 DEF StopForgets, Goes
  <2>11. CASE StopRemovesPid(o) BY <2>11 DEF StopRemovesPid, Goes
  <2>12. CASE StopLoads(o)      BY <2>12 DEF StopLoads, Goes
  <2>13. CASE StopSaves(o)      BY <2>13 DEF StopSaves, Goes
  <2> QED  BY <1>6, <2>1, <2>2, <2>3, <2>4, <2>5, <2>6, <2>7, <2>8, <2>9, <2>10, <2>11, <2>12, <2>13
           DEF CommandStep, Continue
<1>7. CASE UNCHANGED vars
  BY <1>7 DEF vars
<1> QED  BY <1>1, <1>2, <1>3, <1>4, <1>5, <1>6, <1>7 DEF Next, WorkerStep

\* Every state of a daemon's life is well typed.
THEOREM LifecycleTypeCorrect == Spec => []TypeOK
<1>1. Init => TypeInv
  BY DEF Init, TypeInv, TypeOK, HasSeen
<1>2. TypeInv => TypeOK
  BY DEF TypeInv
<1> QED  BY <1>1, <1>2, TypeStep, PTL DEF Spec

-----------------------------------------------------------------------------
(* Patient operators *)

\* A worker on its way to serve, or serving.
Engaged(w) == pc[w] = "boot" \/ pc[w] = "opened" \/ Serving(w)

OneEngaged == \A v, w \in Workers : Engaged(v) /\ Engaged(w) => v = w

OneCommand == \A a, b \in Operators : cmd[a] # "idle" /\ cmd[b] # "idle" => a = b

\* While a command clears the ground nobody serves, and a stop that waits
\* waits for the one worker there is.
Quiet == \A o \in Operators, w \in Workers :
    Engaged(w) => /\ cmd[o] \in {"idle", "await", "signal", "wait"}
                  /\ cmd[o] \in {"signal", "wait"} => seen[o] = w

Named == \A w \in Workers : Serving(w) /\ pc[w] # "pid" => pidFile = w

\* A daemon knows at least the records of the ledger, and a stop saves the
\* ledger it has loaded.
Kept ==
    /\ \A w \in Workers : pc[w] \in {"clear", "begin", "sleep", "run", "save"} => ledger \subseteq mem[w]
    /\ \A o \in Operators : cmd[o] = "save" => copy[o] = ledger

PatientInv == OneEngaged /\ OneCommand /\ Quiet /\ Named /\ Kept

LEMMA DiesKeeps ==
  ASSUME TypeInv, PatientInv, NEW w \in Workers, Dies(w), UNCHANGED <<files, commandVars>>
  PROVE  PatientInv'
<1> USE DEF TypeInv, TypeOK, PatientInv, Dies, files, commandVars, Engaged, Serving
<1>1. \A v \in Workers : Engaged(v)' => Engaged(v) /\ v # w /\ pc'[v] = pc[v] /\ mem'[v] = mem[v]
  OBVIOUS
<1>2. OneEngaged'
  BY <1>1 DEF OneEngaged
<1>3. OneCommand'
  BY DEF OneCommand
<1>4. Quiet'
  BY <1>1 DEF Quiet
<1>5. Named'
  BY <1>1 DEF Named
<1>6. Kept'
  BY <1>1 DEF Kept
<1> QED  BY <1>2, <1>3, <1>4, <1>5, <1>6

LEMMA PatientStep ==
  ASSUME Patient, TypeInv, PatientInv, [Next]_vars
  PROVE  PatientInv'
<1> USE DaemonLifecycleAssumption DEF TypeInv, TypeOK, HasSeen, files, workerVars, commandVars,
        PatientInv, OneEngaged, OneCommand, Quiet, Named, Kept, Engaged, Serving
<1>1. ASSUME NEW w \in Workers, Proceed(w) \/ CycleRaises(w) \/ Launch(w)  PROVE PatientInv'
  <2>1. CASE OpenLock(w)        BY <2>1 DEF OpenLock, At
  <2>2. CASE TakeLock(w)        BY <2>2 DEF TakeLock, At
  <2>3. CASE LockHeld(w)        BY <2>3, DiesKeeps DEF LockHeld
  <2>4. CASE write_pid_file(w)  BY <2>4 DEF write_pid_file, At
  <2>5. CASE LoadLedger(w)      BY <2>5 DEF LoadLedger, At
  <2>6. CASE ClearErrors(w) \/ SaveRunning(w)  BY <2>6 DEF ClearErrors, SaveRunning, At
  <2>7. CASE Wake(w)            BY <2>7 DEF Wake, At
  <2>8. CASE EndCycle(w)        BY <2>8 DEF EndCycle, At
  <2>9. CASE SaveStopped(w)     BY <2>9 DEF SaveStopped, At
  <2>10. CASE RemovePid(w)      BY <2>10 DEF RemovePid, At
  <2>11. CASE ReleaseLock(w)    BY <2>11 DEF ReleaseLock, At
  <2>12. CASE UnlinkLock(w)     BY <2>12 DEF UnlinkLock, At
  <2>13. CASE Exit(w)           BY <2>13, DiesKeeps DEF Exit
  <2>14. CASE CycleRaises(w)    BY <2>14 DEF CycleRaises, At
  <2>15. CASE Launch(w)         BY <2>15 DEF Launch, At, Calm, Plumber, Alive
  <2> QED  BY <1>1, <2>1, <2>2, <2>3, <2>4, <2>5, <2>6, <2>7, <2>8, <2>9, <2>10, <2>11, <2>12,
              <2>13, <2>14, <2>15 DEF Proceed
<1>2. ASSUME NEW w \in Workers, NEW p \in Pages, SettlePage(w, p)  PROVE PatientInv'
  BY <1>2 DEF SettlePage
<1>3. ASSUME NEW w \in Workers, Interrupt(w)  PROVE PatientInv'
  BY <1>3 DEF Interrupt
<1>4. ASSUME NEW w \in Workers, Crash(w) \/ ForeignExits(w)  PROVE PatientInv'
  BY <1>4, DiesKeeps DEF Crash, ForeignExits
<1>5. ASSUME NEW w \in Workers, PidReused(w)  PROVE PatientInv'
  BY <1>5 DEF PidReused, At
<1>6. ASSUME NEW o \in Operators, CommandStep(o)  PROVE PatientInv'
  <2>1. CASE StartReads(o)      BY <2>1 DEF StartReads, Goes, Calm, Alive
  <2>2. CASE StartClears(o)     BY <2>2 DEF StartClears, Goes
  <2>3. ASSUME NEW w \in Workers, Spawn(o, w)  PROVE PatientInv'
    BY <2>3 DEF Spawn, Goes, At
  <2>4. CASE StartReturns(o)    BY <2>4 DEF StartReturns, Goes
  <2>5. CASE StartGivesUp(o)    BY <2>5 DEF StartGivesUp, Goes
  <2>6. CASE StopReads(o)       BY <2>6 DEF StopReads, Goes, Calm, Plumber, Alive
  <2>7. CASE Signal(o)          BY <2>7 DEF Signal, Goes, Alive
  <2>8. CASE StopKills(o)       BY <2>8, DiesKeeps DEF StopKills
  <2>9. CASE StopSees(o)        BY <2>9 DEF StopSees, Goes, Alive
  <2>10. CASE StopForgets(o)    BY <2>10 DEF StopForgets, Goes
  <2>11. CASE StopRemovesPid(o) BY <2>11 DEF StopRemovesPid, Goes
  <2>12. CASE StopLoads(o)      BY <2>12 DEF StopLoads, Goes
  <2>13. CASE StopSaves(o)      BY <2>13 DEF StopSaves, Goes
  <2> QED  BY <1>6, <2>1, <2>2, <2>3, <2>4, <2>5, <2>6, <2>7, <2>8, <2>9, <2>10, <2>11, <2>12, <2>13
           DEF CommandStep, Continue
<1>7. CASE UNCHANGED vars
  BY <1>7 DEF vars
<1> QED  BY <1>1, <1>2, <1>3, <1>4, <1>5, <1>6, <1>7 DEF Next, WorkerStep

LEMMA PatientInvariant == Patient => (Spec => [](TypeInv /\ PatientInv))
<1> SUFFICES ASSUME Patient  PROVE Spec => [](TypeInv /\ PatientInv)
  OBVIOUS
<1>1. Init => TypeInv /\ PatientInv
  BY DEF Init, TypeInv, TypeOK, HasSeen, PatientInv, OneEngaged, OneCommand, Quiet, Named, Kept,
         Engaged, Serving
<1>2. TypeInv /\ PatientInv /\ [Next]_vars => (TypeInv /\ PatientInv)'
  BY TypeStep, PatientStep
<1> QED  BY <1>1, <1>2, PTL DEF Spec

\* When commands are given one at a time and none while a worker is starting,
\* a daemon at work is the one the pid file names: no start and no stop ever
\* removes the pid of a live daemon.
THEOREM LiveDaemonIsNamed == Patient => (Spec => []DaemonIsNamed)
<1> SUFFICES ASSUME Patient  PROVE Spec => []DaemonIsNamed
  OBVIOUS
<1>1. PatientInv => DaemonIsNamed
  BY DEF PatientInv, Named, DaemonIsNamed, Serving
<1> QED  BY <1>1, PatientInvariant, PTL

-----------------------------------------------------------------------------
(* The service.  Now starts, stops, kills and reused pids come in any order. *)

\* A worker that has opened the lock file and has not withdrawn its pid.
Open(w) == pc[w] = "opened" \/ Serving(w)

\* The two ways in which commands break the service when they overlap: a
\* worker creates a lock file while another one is left with the file that
\* was unlinked under it (_release_daemon_process_lock unlinks after it has
\* given the lock up), and a stop saves a ledger that a daemon has added to
\* since the stop loaded it.
Race ==
    \/ \E w \in Workers : OpenLock(w) /\ lockFile = None /\ \E v \in Workers : Open(v)
    \/ \E o \in Operators : StopSaves(o) /\ ~(ledger \subseteq copy[o])

\* All who may take the lock have opened the same file, the one there is.
OneLock ==
    \A v \in Workers : Open(v) =>
        /\ fd[v] \in Workers /\ lockFile \in {fd[v], None}
        /\ \A w \in Workers : Open(w) => fd[v] = fd[w]

OneServing == \A v, w \in Workers : Serving(v) /\ Serving(w) => v = w

\* A daemon knows at least the records of the ledger, and a stop saves no more
\* than the ledger has.
Grows ==
    /\ \A w \in Workers : pc[w] \in {"clear", "begin", "sleep", "run", "save"} => ledger \subseteq mem[w]
    /\ \A o \in Operators : cmd[o] = "save" => copy[o] \subseteq ledger

ServiceInv == OneLock /\ OneServing /\ Grows

Serve == {w \in Workers : Serving(w)}

\* What a step must look like to be one of the service.
LEMMA ServiceSteps ==
  ASSUME OneServing,
         \/ Serve' = Serve /\ ledger' = ledger
         \/ \E w \in Workers : Serving(w) /\ Serve' = {} /\ ledger' = ledger
         \/ \E w \in Workers : Serve = {} /\ Serve' = {w} /\ ledger' = ledger
         \/ \E w \in Workers : Serving(w) /\ Serve' = Serve /\ ledger \subseteq ledger'
  PROVE  [Service!ServiceNext]_<<Serve, ledger>>
<1>1. ASSUME NEW w \in Workers, Serving(w)  PROVE Serve = {w}
  BY <1>1 DEF Serve, OneServing
<1> QED
  BY <1>1 DEF Service!ServiceNext, Service!Begin, Service!Cease, Service!Settle, Serve

\* The end of a process takes its lock with it and changes no file.
LEMMA DiesServes ==
  ASSUME TypeInv, ServiceInv, NEW w \in Workers, Dies(w), UNCHANGED <<files, commandVars>>
  PROVE  ServiceInv' /\ [Service!ServiceNext]_<<Serve, ledger>>
<1> USE DEF TypeInv, TypeOK, ServiceInv, Dies, Serving, files, commandVars
<1>1. \A v \in Workers : v # w => pc'[v] = pc[v] /\ fd'[v] = fd[v] /\ mem'[v] = mem[v]
  OBVIOUS
<1>2. pc'[w] \in {"dead", "gone"}
  OBVIOUS
<1>3. ServiceInv'
  <2>1. OneLock'
    BY <1>1, <1>2 DEF OneLock, Open
  <2>2. OneServing'
    BY <1>1, <1>2 DEF OneServing
  <2>3. Grows'
    BY <1>1, <1>2 DEF Grows
  <2> QED  BY <2>1, <2>2, <2>3
<1>4. CASE Serving(w)
  <2>1. Serve' = {}
    BY <1>1, <1>2, <1>4 DEF Serve, OneServing
  <2> QED  BY <1>3, <1>4, <2>1, ServiceSteps
<1>5. CASE ~Serving(w)
  <2>1. Serve' = Serve
    BY <1>1, <1>2, <1>5 DEF Serve
  <2> QED  BY <1>3, <2>1, ServiceSteps
<1> QED  BY <1>4, <1>5

LEMMA ServiceStep ==
  ASSUME TypeInv, ServiceInv, [Next]_vars, [~Race]_vars
  PROVE  ServiceInv' /\ [Service!ServiceNext]_<<Serve, ledger>>
<1> USE DaemonLifecycleAssumption DEF TypeInv, TypeOK, HasSeen, files, workerVars, commandVars, ServiceInv
<1> DEFINE Good == ServiceInv' /\ [Service!ServiceNext]_<<Serve, ledger>>
<1>0. CASE UNCHANGED <<lockFile, ledger, pc, fd, mem>> /\ \A o \in Operators : cmd'[o] = "save" => cmd[o] = "save" /\ copy'[o] = copy[o]
  <2>1. Serve' = Serve /\ ledger' = ledger
    BY <1>0 DEF Serve, Serving
  <2>2. ServiceInv'
    BY <1>0 DEF OneLock, OneServing, Grows, Open, Serving
  <2> QED  BY <2>1, <2>2, ServiceSteps
<1>1. ASSUME NEW w \in Workers, Proceed(w) \/ CycleRaises(w) \/ Launch(w)  PROVE Good
  <2>0. UNCHANGED commandVars
    BY <1>1 DEF Proceed, OpenLock, TakeLock, LockHeld, write_pid_file, LoadLedger, ClearErrors, SaveRunning, Wake,
       EndCycle, SaveStopped, RemovePid, ReleaseLock, UnlinkLock, Exit, CycleRaises, Launch
  <2>1. CASE OpenLock(w)
    <3>1. lockFile = None => \A v \in Workers : ~Open(v)
      BY <2>1 DEF Race, OpenLock, At, vars
    <3>2. /\ Serve' = Serve /\ ledger' = ledger /\ pc[w] = "boot" /\ pc' = [pc EXCEPT ![w] = "opened"] /\ mem' = mem
          /\ lockFile' = (IF lockFile = None THEN w ELSE lockFile) /\ fd' = [fd EXCEPT ![w] = lockFile']
      BY <2>1 DEF OpenLock, At, Serve, Serving
    <3>3. OneLock'
      BY <3>1, <3>2 DEF OneLock, Open, Serving
    <3>4. OneServing' /\ Grows'
      BY <2>0, <3>2 DEF OneServing, Grows, Serving
    <3> QED  BY <3>2, <3>3, <3>4, ServiceSteps
  <2>2. CASE TakeLock(w)
    <3>1. /\ pc[w] = "opened" /\ pc' = [pc EXCEPT ![w] = "pid"] /\ UNCHANGED <<lockFile, ledger, fd, mem>>
          /\ ~Busy(w)
      BY <2>2 DEF TakeLock, At
    <3>2. \A v \in Workers : ~Serving(v)
      BY <3>1 DEF Busy, HoldsLock, OneLock, Open
    <3>3. Serve = {} /\ Serve' = {w}
      BY <3>1, <3>2 DEF Serve, Serving
    <3>4. OneServing'
      BY <3>1, <3>2 DEF OneServing, Serving
    <3>5. OneLock' /\ Grows'
      BY <2>0, <3>1 DEF OneLock, Open, Grows, Serving
    <3> QED  BY <3>1, <3>3, <3>4, <3>5, ServiceSteps
  <2>3. CASE LockHeld(w) \/ Exit(w)
    BY <2>3, DiesServes DEF LockHeld, Exit
  <2>4. CASE ClearErrors(w) \/ SaveRunning(w) \/ SaveStopped(w)
    <3>0. /\ UNCHANGED <<lockFile, fd, mem>> /\ ledger' \in {mem[w], ledger}
          /\ \/ pc[w] = "clear" /\ pc' = [pc EXCEPT ![w] = "begin"]
             \/ pc[w] = "begin" /\ pc' = [pc EXCEPT ![w] = "sleep"]
             \/ pc[w] = "save" /\ pc' = [pc EXCEPT ![w] = "unpid"]
      BY <2>4 DEF ClearErrors, SaveRunning, SaveStopped, At
    <3>1. /\ Serving(w) /\ Serve' = Serve /\ UNCHANGED <<lockFile, fd, mem>>
          /\ pc[w] \in {"clear", "begin", "save"} /\ ledger' \in {mem[w], ledger}
          /\ pc'[w] \in {"begin", "sleep", "unpid"}
          /\ \A v \in Workers : v # w => pc'[v] = pc[v]
      <4>1. pc[w] \in {"clear", "begin", "save"} /\ pc'[w] \in {"begin", "sleep", "unpid"}
        BY <3>0
      <4>2. \A v \in Workers : v # w => pc'[v] = pc[v]
        BY <3>0
      <4>3. Serving(w) /\ Serving(w)' /\ \A v \in Workers : v # w => (Serving(v)' <=> Serving(v))
        BY <4>1, <4>2 DEF Serving
      <4>4. Serve' = Serve
        BY <4>3 DEF Serve
      <4> QED  BY <3>0, <4>1, <4>2, <4>3, <4>4
    <3>2. ledger \subseteq ledger' /\ ledger' \subseteq mem[w]
      BY <3>1 DEF Grows
    <3>3. OneLock' /\ OneServing'
      BY <3>1 DEF OneLock, OneServing, Open, Serving
    <3>4. Grows'
      BY <2>0, <3>1, <3>2 DEF Grows, OneServing, Serving
    <3> QED  BY <3>1, <3>2, <3>3, <3>4, ServiceSteps
  <2>5. CASE RemovePid(w)
    <3>1. /\ Serving(w) /\ pc' = [pc EXCEPT ![w] = "unlock"] /\ UNCHANGED <<lockFile, ledger, fd, mem>>
      BY <2>5 DEF RemovePid, At, Serving
    <3>2. Serve' = {}
      BY <3>1 DEF Serve, Serving, OneServing
    <3>3. OneLock' /\ OneServing' /\ Grows'
      BY <2>0, <3>1 DEF OneLock, OneServing, Grows, Open, Serving
    <3> QED  BY <3>1, <3>2, <3>3, ServiceSteps
  <2>6. CASE LoadLedger(w) \/ EndCycle(w)
    <3>1. /\ Serve' = Serve /\ UNCHANGED <<lockFile, fd, ledger>> /\ Serving(w)
          /\ pc'[w] \in {"clear", "sleep"}
          /\ \/ mem' = mem /\ pc[w] = "run"
             \/ mem' = [mem EXCEPT ![w] = ledger]
          /\ \A v \in Workers : v # w => pc'[v] = pc[v]
      <4>1. /\ UNCHANGED <<lockFile, fd, ledger>> /\ Serving(w)
            /\ \/ mem' = mem /\ pc[w] = "run"
               \/ mem' = [mem EXCEPT ![w] = ledger]
        BY <2>6, Zenon DEF LoadLedger, EndCycle, At, Serving, files
      <4>2. \/ pc' = [pc EXCEPT ![w] = "clear"]
            \/ pc' = [pc EXCEPT ![w] = "sleep"]
        BY <2>6, Zenon DEF LoadLedger, EndCycle, At
      <4>3. pc'[w] \in {"clear", "sleep"} /\ \A v \in Workers : v # w => pc'[v] = pc[v]
        BY <4>2
      <4>4. Serve' = Serve
        BY <4>1, <4>3 DEF Serve, Serving
      <4> QED  BY <4>1, <4>3, <4>4
    <3>2. OneLock' /\ OneServing'
      BY <3>1 DEF OneLock, OneServing, Open, Serving
    <3>3. Grows'
      BY <2>0, <3>1 DEF Grows
    <3> QED  BY <3>1, <3>2, <3>3, ServiceSteps
  <2>7. CASE ReleaseLock(w) \/ UnlinkLock(w)
    <3>1. /\ Serve' = Serve /\ ledger' = ledger /\ mem' = mem /\ lockFile' \in {lockFile, None}
          /\ \A v \in Workers : v # w => pc'[v] = pc[v] /\ fd'[v] = fd[v]
          /\ pc'[w] \in {"unlink", "exit"}
      BY <2>7 DEF ReleaseLock, UnlinkLock, At, Serve, Serving
    <3>2. OneLock' /\ OneServing' /\ Grows'
      BY <2>0, <3>1 DEF OneLock, OneServing, Grows, Open, Serving
    <3> QED  BY <3>1, <3>2, ServiceSteps
  <2>8. CASE write_pid_file(w) \/ Wake(w) \/ CycleRaises(w) \/ Launch(w)
    <3>1. /\ Serve' = Serve /\ UNCHANGED <<lockFile, fd, ledger, mem>>
          /\ \/ pc[w] = "pid" /\ pc'[w] = "load"
             \/ pc[w] = "unborn" /\ pc'[w] = "boot"
             \/ pc[w] \in {"sleep", "run"} /\ pc'[w] \in {"run", "save"}
          /\ \A v \in Workers : v # w => pc'[v] = pc[v]
      BY <2>8 DEF write_pid_file, Wake, CycleRaises, Launch, At, Serve, Serving
    <3>2. OneLock' /\ OneServing' /\ Grows'
      BY <2>0, <3>1 DEF OneLock, OneServing, Grows, Open, Serving
    <3> QED  BY <3>1, <3>2, ServiceSteps
  <2> QED  BY <1>1, <2>1, <2>2, <2>3, <2>4, <2>5, <2>6, <2>7, <2>8 DEF Proceed
<1>2. ASSUME NEW w \in Workers, NEW p \in Pages, SettlePage(w, p)  PROVE Good
  <2>1. /\ Serving(w) /\ Serve' = Serve /\ UNCHANGED <<lockFile, pc, fd, cmd, copy>> /\ pc[w] = "run"
        /\ mem' = [mem EXCEPT ![w] = mem[w] \cup {p}] /\ ledger' \in {mem'[w], ledger}
    BY <1>2 DEF SettlePage, Serve, Serving
  <2>2. ledger \subseteq ledger' /\ ledger' \subseteq mem'[w]
    BY <2>1 DEF Grows
  <2>3. OneLock' /\ OneServing'
    BY <2>1 DEF OneLock, OneServing, Open, Serving
  <2>4. Grows'
    BY <2>1, <2>2 DEF Grows, OneServing, Serving
  <2> QED  BY <2>1, <2>2, <2>3, <2>4, ServiceSteps
<1>3. ASSUME NEW w \in Workers, Interrupt(w)  PROVE Good
  BY <1>0, <1>3 DEF Interrupt
<1>4. ASSUME NEW w \in Workers, Crash(w) \/ ForeignExits(w)  PROVE Good
  BY <1>4, DiesServes DEF Crash, ForeignExits
<1>5. ASSUME NEW w \in Workers, PidReused(w)  PROVE Good
  <2>1. /\ Serve' = Serve /\ UNCHANGED <<lockFile, fd, ledger, mem, cmd, copy>>
        /\ pc[w] = "dead" /\ pc' = [pc EXCEPT ![w] = "reused"]
    BY <1>5 DEF PidReused, At, Serve, Serving
  <2>2. OneLock' /\ OneServing' /\ Grows'
    BY <2>1 DEF OneLock, OneServing, Grows, Open, Serving
  <2> QED  BY <2>1, <2>2, ServiceSteps
<1>6. ASSUME NEW o \in Operators, CommandStep(o)  PROVE Good
  <2>1. CASE StopKills(o)
    BY <2>1, DiesServes DEF StopKills
  <2>2. ASSUME NEW w \in Workers, Spawn(o, w)  PROVE Good
    <3>1. /\ Serve' = Serve /\ UNCHANGED <<lockFile, fd, ledger, mem, copy>>
          /\ pc[w] = "unborn" /\ pc' = [pc EXCEPT ![w] = "boot"]
          /\ cmd' = [cmd EXCEPT ![o] = "await"]
      BY <2>2 DEF Spawn, At, Goes, Serve, Serving
    <3>2. OneLock' /\ OneServing' /\ Grows'
      BY <3>1 DEF OneLock, OneServing, Grows, Open, Serving
    <3> QED  BY <3>1, <3>2, ServiceSteps
  <2>3. CASE StopLoads(o)
    <3>1. /\ Serve' = Serve /\ UNCHANGED <<lockFile, pc, fd, ledger, mem>>
          /\ cmd' = [cmd EXCEPT ![o] = "save"] /\ copy' = [copy EXCEPT ![o] = ledger]
      BY <2>3 DEF StopLoads, Goes, Serve, Serving
    <3>2. OneLock' /\ OneServing' /\ Grows'
      BY <3>1 DEF OneLock, OneServing, Grows, Open, Serving
    <3> QED  BY <3>1, <3>2, ServiceSteps
  <2>4. CASE StopSaves(o)
    <3>1. /\ Serve' = Serve /\ UNCHANGED <<lockFile, pc, fd, mem>> /\ ledger' = copy[o]
          /\ cmd[o] = "save" /\ cmd' = [cmd EXCEPT ![o] = "idle"] /\ copy' = [copy EXCEPT ![o] = {}]
      BY <2>4 DEF StopSaves, Goes, Serve, Serving
    <3>2. ledger \subseteq copy[o]
      <4>1. cmd' # cmd
        BY <3>1
      <4> QED  BY <2>4, <4>1 DEF Race, vars
    <3>3. ledger' = ledger
      BY <3>1, <3>2 DEF Grows
    <3>4. OneLock' /\ OneServing' /\ Grows'
      BY <3>1, <3>3 DEF OneLock, OneServing, Grows, Open, Serving
    <3> QED  BY <3>1, <3>3, <3>4, ServiceSteps
  <2>5. CASE \/ StartReads(o) \/ StartClears(o) \/ StartReturns(o) \/ StartGivesUp(o)
             \/ StopReads(o) \/ Signal(o) \/ StopSees(o) \/ StopForgets(o) \/ StopRemovesPid(o)
    BY <1>0, <2>5 DEF StartReads, StartClears, StartReturns, StartGivesUp, StopReads, Signal, StopSees, StopForgets,
       StopRemovesPid, Goes
  <2> QED  BY <1>6, <2>1, <2>2, <2>3, <2>4, <2>5 DEF CommandStep, Continue
<1>7. CASE UNCHANGED vars
  BY <1>0, <1>7 DEF vars
<1> QED  BY <1>1, <1>2, <1>3, <1>4, <1>5, <1>6, <1>7 DEF Next, WorkerStep

\* start_daemon_foreground, stop_daemon, _release_daemon_process_lock: whatever
\* starts, stops, kills and reused pids come at the same time, the lock and
\* the ledger give the graph its service -- daemons take turns, and no save, of
\* a daemon or of a stop, takes a record back -- unless one of two races
\* happens: a lock file created beside one that was unlinked under its holder,
\* or a stop that saves a ledger it loaded before a daemon added to it.
THEOREM LifecycleImplementsService == Spec /\ [][~Race]_vars => ImplementsService
<1>1. Init => TypeInv /\ ServiceInv /\ Service!ServiceInit
  BY DEF Init, TypeInv, TypeOK, HasSeen, ServiceInv, OneLock, OneServing, Grows, Open, Serving, Service!ServiceInit
<1>2. TypeInv /\ ServiceInv /\ [Next]_vars /\ [~Race]_vars
      => TypeInv' /\ ServiceInv' /\ [Service!ServiceNext]_<<{w \in Workers : Serving(w)}, ledger>>
  BY TypeStep, ServiceStep DEF Serve
<1> QED  BY <1>1, <1>2, PTL DEF Spec, ImplementsService, Service!ServiceSpec

\* One command at a time, and none while a worker is starting, keeps both races
\* away, also when a start comes while a stopping daemon still has to unlink
\* its lock file: what the run checks follows.
THEOREM PatienceAvoidsRaces == Patient => (Spec => [][~Race]_vars /\ ImplementsService)
<1> SUFFICES ASSUME Patient  PROVE Spec => [][~Race]_vars /\ ImplementsService
  OBVIOUS
<1>1. TypeInv /\ PatientInv /\ [Next]_vars => [~Race]_vars
  <2> SUFFICES ASSUME TypeInv, PatientInv, Race  PROVE FALSE
    OBVIOUS
  <2>1. ASSUME NEW w \in Workers, OpenLock(w), NEW v \in Workers, Open(v)  PROVE FALSE
    BY <2>1 DEF OpenLock, At, Open, PatientInv, OneEngaged, Engaged, Serving
  <2>2. ASSUME NEW o \in Operators, StopSaves(o), ~(ledger \subseteq copy[o])  PROVE FALSE
    BY <2>2 DEF StopSaves, Goes, PatientInv, Kept
  <2> QED  BY <2>1, <2>2 DEF Race
<1> QED  BY <1>1, PatientInvariant, LifecycleImplementsService, PTL DEF Spec

-----------------------------------------------------------------------------
(* The file of the ledger.  Above, a save replaces the ledger and a load    *)
(* reads it, each in one step; LedgerFile takes them apart.                 *)

Inside == {"write", "commit", "copy", "recopy"}
Writing(p) == at[p] \in {"commit", "copy", "recopy"}
Copying(p) == at[p] \in {"copy", "recopy"}

\* The flock names the one process inside cross_process_json_flock.
Holder == \A p \in Procs : flock = p <=> at[p] \in Inside

\* Whoever writes has something to write.
Ready ==
    /\ \A p \in Procs : at[p] = "write" => saves < MaxSaves
    /\ \A p \in Procs : Writing(p) => held[p] \in Versions

FileTypeInv == FileTypeOK /\ Holder /\ Ready

LEMMA FileTypeStep == FileTypeInv /\ [FileNext]_fileVars => FileTypeInv'
<1> SUFFICES ASSUME FileTypeInv, [FileNext]_fileVars  PROVE FileTypeInv'
  OBVIOUS
<1> USE LedgerFileAssumption DEF FileTypeInv, FileTypeOK, Holder, Ready, Inside, Writing, Copying, bothFiles, Moves,
        Fault, Remembers, Versions, Contents, Torn, Missing, Readable, Steps, Fresh, Restoring
<1>1. ASSUME NEW p \in Procs, Load(p) \/ Save(p) \/ SaveBegin(p) \/ LoadError(p) \/ RestoreFails(p)
               \/ SaveFails(p) \/ CopyFails(p) \/ Kill(p)
      PROVE  FileTypeInv'
  <2>1. CASE LoadFirst(p)   BY <2>1 DEF LoadFirst
  <2>2. CASE LoadBegin(p)   BY <2>2 DEF LoadBegin
  <2>3. CASE LoadPrimary(p) BY <2>3 DEF LoadPrimary
  <2>4. CASE LoadAgain(p)   BY <2>4 DEF LoadAgain
  <2>5. CASE LoadGivesUp(p) BY <2>5 DEF LoadGivesUp
  <2>6. CASE LoadBackup(p)  BY <2>6 DEF LoadBackup
  <2>7. CASE LoadFresh(p)   BY <2>7 DEF LoadFresh
  <2>8. CASE RestoreOpens(p)BY <2>8 DEF RestoreOpens
  <2>9. CASE RestoreWrites(p)BY <2>9 DEF RestoreWrites
  <2>10. CASE SaveLocks(p)  BY <2>10 DEF SaveLocks
  <2>11. CASE SaveWrites(p) BY <2>11 DEF SaveWrites
  <2>12. CASE SaveReplaces(p)BY <2>12 DEF SaveReplaces
  <2>13. CASE CopyOpens(p)  BY <2>13 DEF CopyOpens
  <2>14. CASE CopyWrites(p) BY <2>14 DEF CopyWrites
  <2>15. CASE SaveBegin(p)  BY <2>15 DEF SaveBegin
  <2>16. CASE LoadError(p)  BY <2>16 DEF LoadError
  <2>17. CASE RestoreFails(p)BY <2>17 DEF RestoreFails
  <2>18. CASE SaveFails(p)  BY <2>18 DEF SaveFails
  <2>19. CASE CopyFails(p)  BY <2>19 DEF CopyFails
  <2>20. CASE Kill(p)       BY <2>20 DEF Kill
  <2> QED  BY <1>1, <2>1, <2>2, <2>3, <2>4, <2>5, <2>6, <2>7, <2>8, <2>9, <2>10, <2>11, <2>12, <2>13, <2>14, <2>15, <2>16, <2>17, <2>18, <2>19, <2>20 DEF Load, Save
<1>2. CASE Damage
  BY <1>2 DEF Damage
<1>3. CASE UNCHANGED fileVars
  BY <1>3 DEF fileVars
<1> QED  BY <1>1, <1>2, <1>3 DEF FileNext

LEMMA TypeInit == FileInit => FileTypeInv
  BY LedgerFileAssumption DEF FileInit, FileTypeInv, FileTypeOK, Holder, Ready, Inside, Writing, Copying, Versions,
     Contents, Torn, Missing, Steps

\* Every state of the checkpoint, its backup and the processes is well typed,
\* with and without overlapping loads.
THEOREM LedgerTypeCorrect == FileSpec => []FileTypeOK
<1>1. FileTypeInv => FileTypeOK
  BY DEF FileTypeInv
<1> QED  BY <1>1, TypeInit, FileTypeStep, PTL DEF FileSpec

-----------------------------------------------------------------------------
(* The inductive invariant.  It is not enough to say that the newest save   *)
(* that returned can be found: a step that writes one file is harmless only *)
(* because of what the other one holds at that moment, and because a save   *)
(* and a restore exclude each other.                                        *)

\* A restore and a save exclude each other.
Apart == flock # Nil => \A q \in Procs : ~Restoring(q)

\* Who writes holds the newest save; no save that returned is newer.
Newest ==
    /\ \A p \in Procs : Writing(p) => held[p] = saves
    /\ \A p \in Procs : Copying(p) => checkpoint = saves
    /\ acked <= saves
    /\ \A p \in Procs : floor[p] <= acked

\* No save has ever reached the disk.
Untouched == checkpoint = Missing /\ backup = Missing /\ acked = 0
GoodLedger == Readable(checkpoint) /\ checkpoint >= acked
GoodBackup == Readable(backup) /\ backup >= acked

NobodyRestores == \A q \in Procs : ~Restoring(q)

\* Nobody reads files that do not exist.
Entered ==
    /\ \A q \in Procs : at[q] \in {"read", "reread", "readBackup"} => ~(checkpoint = Missing /\ backup = Missing)
    /\ \A q \in Procs : at[q] \in {"restore", "rewrite"} => backup # Missing

\* Two good files, or one of them being copied over the other.
NoFault ==
    faults = 0 =>
        /\ NobodyRestores
        /\ Untouched \/ GoodLedger
        /\ (\A q \in Procs : ~Copying(q)) => Untouched \/ GoodBackup

\* One of them is good, and the other is unreadable or no older than the
\* newest save that returned.
OneFault ==
    faults = 1 =>
        \/ Untouched
        \/ GoodLedger /\ NobodyRestores
        \/ GoodBackup /\ (Readable(checkpoint) => checkpoint >= acked)

SafeInv == Apart /\ Newest /\ Entered /\ NoFault /\ OneFault

LEMMA SafeInit == FileInit => SafeInv
  BY LedgerFileAssumption DEF FileInit, SafeInv, Apart, Newest, Entered, NoFault, OneFault, Untouched,
     NobodyRestores, Restoring, Writing, Copying

LEMMA SafeStep ==
  ASSUME ~Overlap, FileTypeInv, SafeInv, [FileNext]_fileVars  PROVE SafeInv'
<1> USE LedgerFileAssumption DEF FileTypeInv, FileTypeOK, Holder, Ready, Inside, Writing, Copying, bothFiles, Moves,
        Fault, Remembers, Versions, Contents, Torn, Missing, Readable, Steps, Fresh, Restoring,
        SafeInv, Apart, Newest, Entered, NoFault, OneFault, Untouched, GoodLedger, GoodBackup, NobodyRestores
<1>1. ASSUME NEW p \in Procs, Load(p) \/ Save(p) \/ SaveBegin(p) \/ LoadError(p) \/ RestoreFails(p)
               \/ SaveFails(p) \/ CopyFails(p) \/ Kill(p)
      PROVE  SafeInv'
  <2>1. CASE LoadFirst(p)   BY <2>1 DEF LoadFirst
  <2>2. CASE LoadBegin(p)   BY <2>2 DEF LoadBegin
  <2>3. CASE LoadPrimary(p) BY <2>3 DEF LoadPrimary
  <2>4. CASE LoadAgain(p)   BY <2>4 DEF LoadAgain
  <2>5. CASE LoadGivesUp(p) BY <2>5 DEF LoadGivesUp, Undisturbed
  <2>6. CASE LoadBackup(p)  BY <2>6 DEF LoadBackup
  <2>7. CASE LoadFresh(p)   BY <2>7 DEF LoadFresh
  <2>8. CASE RestoreOpens(p)BY <2>8 DEF RestoreOpens
  <2>9. CASE RestoreWrites(p)BY <2>9 DEF RestoreWrites
  <2>10. CASE SaveLocks(p)  BY <2>10 DEF SaveLocks
  <2>11. CASE SaveWrites(p) BY <2>11 DEF SaveWrites
  <2>12. CASE SaveReplaces(p)BY <2>12 DEF SaveReplaces
  <2>13. CASE CopyOpens(p)  BY <2>13 DEF CopyOpens
  <2>14. CASE CopyWrites(p) BY <2>14 DEF CopyWrites
  <2>15. CASE SaveBegin(p)  BY <2>15 DEF SaveBegin
  <2>16. CASE LoadError(p)  BY <2>16 DEF LoadError, Undisturbed
  <2>17. CASE RestoreFails(p)BY <2>17 DEF RestoreFails
  <2>18. CASE SaveFails(p)  BY <2>18 DEF SaveFails
  <2>19. CASE CopyFails(p)  BY <2>19 DEF CopyFails
  <2>20. CASE Kill(p)       BY <2>20 DEF Kill
  <2> QED  BY <1>1, <2>1, <2>2, <2>3, <2>4, <2>5, <2>6, <2>7, <2>8, <2>9, <2>10, <2>11, <2>12, <2>13,
              <2>14, <2>15, <2>16, <2>17, <2>18, <2>19, <2>20 DEF Load, Save
<1>2. CASE Damage
  BY <1>2 DEF Damage
<1>3. CASE UNCHANGED fileVars
  BY <1>3 DEF fileVars
<1> QED  BY <1>1, <1>2, <1>3 DEF FileNext

\* What a save that returned wrote is found through one kill, damaged file or
\* failed operation.
LEMMA SafeInvFinds == FileTypeInv /\ SafeInv => OneFaultLosesNothing
  BY LedgerFileAssumption
  DEF FileTypeInv, FileTypeOK, SafeInv, NoFault, OneFault, Untouched, GoodLedger, GoodBackup,
      OneFaultLosesNothing, Found, Readable, Fresh, Missing, Versions, Contents, Torn

\* The action of LoadsAreCurrent.
Current ==
    \A p \in Procs :
        at[p] \in {"read", "reread", "readBackup"} /\ held'[p] # held[p] /\ held'[p] # Nil
        /\ faults <= 1 => held'[p] >= floor[p]

LEMMA CurrentStep ==
  ASSUME ~Overlap, FileTypeInv, SafeInv, [FileNext]_fileVars  PROVE [Current]_fileVars
<1> SUFFICES ASSUME FileNext, NEW p \in Procs, at[p] \in {"read", "reread", "readBackup"},
                    held'[p] # held[p], held'[p] # Nil, faults <= 1
             PROVE  held'[p] >= floor[p]
  BY DEF Current, fileVars
<1> USE LedgerFileAssumption DEF FileTypeInv, FileTypeOK, Moves, Remembers, Versions, Contents, Torn, Missing
<1>1. PICK q \in Procs : LoadPrimary(q) \/ LoadBackup(q) \/ LoadFresh(q)
  <2>1. ~Damage
    BY DEF Damage
  <2>2. ASSUME NEW q \in Procs
        PROVE  ~(SaveBegin(q) \/ SaveWrites(q) \/ LoadFirst(q) \/ Kill(q)) \/ q # p
    BY DEF SaveBegin, SaveWrites, LoadFirst, Kill
  <2> QED
    BY <2>1, <2>2 DEF FileNext, Load, Save, LoadFirst, LoadBegin, LoadAgain, LoadGivesUp, RestoreOpens,
       RestoreWrites, SaveBegin, SaveLocks, SaveWrites, SaveReplaces, CopyOpens, CopyWrites,
       LoadError, RestoreFails, SaveFails, CopyFails, Kill
<1>2. q = p
  BY <1>1 DEF LoadPrimary, LoadBackup, LoadFresh
<1>3. floor[p] <= acked
  BY DEF SafeInv, Newest
<1>4. faults = 0 \/ faults = 1
  OBVIOUS
<1>5. CASE LoadPrimary(p)
  <2>1. checkpoint >= acked
    BY <1>4, <1>5 DEF LoadPrimary, Readable, SafeInv, NoFault, OneFault, Untouched, GoodLedger
  <2> QED  BY <1>3, <1>5, <2>1 DEF LoadPrimary, Readable
<1>6. CASE LoadBackup(p)
  <2>1. backup >= acked
    BY <1>4, <1>6 DEF LoadBackup, Readable, Restoring, SafeInv, NoFault, OneFault, Untouched, NobodyRestores,
       GoodBackup
  <2> QED  BY <1>3, <1>6, <2>1 DEF LoadBackup, Readable
<1>7. ~LoadFresh(p)
  BY <1>4 DEF LoadFresh, Readable, Restoring, SafeInv, Entered, NoFault, OneFault, Untouched, NobodyRestores,
     GoodBackup
<1> QED  BY <1>1, <1>2, <1>5, <1>6, <1>7

\* save_daemon_state and load_daemon_state: where no save overlaps a load that
\* restores the backup, one fault between two whole saves loses no save that
\* returned.
THEOREM LedgerSurvivesOneFault ==
  ASSUME ~Overlap  PROVE FileSpec => []OneFaultLosesNothing
<1>1. FileTypeInv /\ SafeInv /\ [FileNext]_fileVars => (FileTypeInv /\ SafeInv)'
  BY FileTypeStep, SafeStep
<1> QED  BY <1>1, TypeInit, SafeInit, SafeInvFinds, PTL DEF FileSpec

\* load_daemon_state: under the same condition and with one fault at most a
\* load returns at least the newest save that had returned when it began.
THEOREM LedgerLoadsAreCurrent ==
  ASSUME ~Overlap  PROVE FileSpec => LoadsAreCurrent
<1>1. FileTypeInv /\ SafeInv /\ [FileNext]_fileVars => (FileTypeInv /\ SafeInv)'
  BY FileTypeStep, SafeStep
<1>2. FileTypeInv /\ SafeInv /\ [FileNext]_fileVars => [Current]_fileVars
  BY CurrentStep
<1> QED  BY <1>1, <1>2, TypeInit, SafeInit, PTL DEF FileSpec, LoadsAreCurrent, Current
=============================================================================
