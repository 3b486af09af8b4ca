------------------------------ MODULE PageLock ------------------------------
(***************************************************************************)
(* src/graph/page_write_lock.py: the lock around every read-modify-write   *)
(* of a page.  It has two layers.  A registry per process, kept in LRU     *)
(* order and capped, maps a page to a threading.RLock; a sidecar file next *)
(* to the page is flock()ed to exclude the other processes.  RLocks and    *)
(* sidecar inodes are objects with an identity: an entry evicted from the  *)
(* registry, or a sidecar unlinked from its directory, is replaced by a    *)
(* different object while its old users still hold the old one.            *)
(***************************************************************************)
EXTENDS Naturals, Sequences, FiniteSets

CONSTANTS
    Threads, Processes, Pages,
    ProcOf,              \* the process of a thread
    None,
    LockIds, Inodes,     \* identities for RLock objects and sidecar inodes
    RegistryCap,         \* _MAX_PAGE_LOCK_REGISTRY
    Attempts,            \* IO_RETRY_ATTEMPTS
    MaxDepth,            \* bound on nested page_rmw_lock of one thread
    LocksReportState,    \* RLock has locked(): only since Python 3.14
    HasFcntl,            \* fcntl can be imported (not on Windows)
    DegradationAllowed,  \* MATRYCA_ALLOW_FLOCK_DEGRADATION
    Stoppers,            \* the processes that may stop, die and start again
    Sweepers,            \* the processes that sweep sidecars when they stop
    Probers              \* the threads that may call probe_page_rmw_lock

ASSUME PageLockAssumption ==
    /\ ProcOf \in [Threads -> Processes]
    /\ None \notin Threads \cup Pages \cup LockIds \cup Inodes
    /\ RegistryCap \in Nat \ {0} /\ Attempts \in Nat \ {0} /\ MaxDepth \in Nat \ {0}
    /\ LocksReportState \in BOOLEAN /\ HasFcntl \in BOOLEAN /\ DegradationAllowed \in BOOLEAN
    /\ Stoppers \subseteq Processes /\ Sweepers \subseteq Stoppers
    /\ Probers \subseteq Threads

VARIABLES
    registry,   \* _page_locks of each process, least recently used first
    linked,     \* the inode each page's sidecar path names, or None
    up,         \* whether a process runs, is shutting down, or is down
    pc, page,   \* what a thread is doing, and for which page
    probing,    \* the call is probe_page_rmw_lock
    tries,      \* failed attempts of the current retry loop
    cand,       \* the RLock returned by _lock_for_key
    held,       \* the RLocks the thread holds, innermost last
    depth,      \* _flock_depths()[key] of the thread
    fd,         \* the sidecar inode the thread has open, or None
    flk         \* whether that descriptor carries the exclusive flock

procVars   == <<registry, linked, up>>
threadVars == <<pc, page, probing, tries, cand, held, depth, fd, flk>>
vars       == <<registry, linked, up, pc, page, probing, tries, cand, held, depth, fd, flk>>

Entry == [page : Pages, lock : LockIds]
PCs   == {"idle", "thread", "open", "flock", "body", "unflock", "release"}

TypeOK ==
    /\ registry \in [Processes -> Seq(Entry)]
    /\ linked \in [Pages -> Inodes \cup {None}]
    /\ up \in [Processes -> {"up", "closing", "down"}]
    /\ pc \in [Threads -> PCs]
    /\ page \in [Threads -> Pages \cup {None}]
    /\ probing \in [Threads -> BOOLEAN]
    /\ tries \in [Threads -> Nat]
    /\ cand \in [Threads -> LockIds \cup {None}]
    /\ held \in [Threads -> Seq(LockIds)]
    /\ depth \in [Threads -> Nat]
    /\ fd \in [Threads -> Inodes \cup {None}]
    /\ flk \in [Threads -> BOOLEAN]

Inside(t) == depth[t] > 0
ThreadsOf(pr) == {t \in Threads : ProcOf[t] = pr}
HeldBy(t) == {held[t][i] : i \in DOMAIN held[t]}
Locked(l) == \E t \in Threads : l \in HeldBy(t)

-----------------------------------------------------------------------------
(* The registry: _lock_for_key, one critical section of _registry_guard.  *)

Without(s, i) == SubSeq(s, 1, i - 1) \o SubSeq(s, i + 1, Len(s))
RowsOf(s, p)  == {i \in 1..Len(s) : s[i].page = p}

\* The entry eviction takes: the oldest whose lock does not report itself
\* locked.  getattr(lock, "locked", lambda: False) makes a lock without
\* that method look free.
Evictable(s) == {i \in 1..Len(s) : ~(LocksReportState /\ Locked(s[i].lock))}
Oldest(S) == CHOOSE i \in S : \A j \in S : i <= j

InUse == UNION {{registry[pr][i].lock : i \in DOMAIN registry[pr]} : pr \in Processes}
            \cup UNION {HeldBy(t) : t \in Threads} \cup {cand[t] : t \in Threads}
FreshLocks == LockIds \ InUse

\* Mutant: every lookup makes an RLock of its own.
LockForKeyAlwaysFresh(s, p, fresh) ==
    IF Len(s) < RegistryCap
    THEN [reg |-> Append(s, [page |-> p, lock |-> fresh]), lock |-> fresh]
    ELSE [reg |-> s, lock |-> fresh]

\* The registry after a lookup of p and the lock it returns, fresh being the
\* RLock made for a page without one; None when the registry is full of
\* locked entries (PageLockUnavailableError).
LockForKey(s, p, fresh) ==
    IF RowsOf(s, p) # {}
    THEN LET i == Oldest(RowsOf(s, p))
         IN  [reg |-> Append(Without(s, i), s[i]), lock |-> s[i].lock]
    ELSE LET row == [page |-> p, lock |-> fresh]
         IN  IF Len(s) < RegistryCap THEN [reg |-> Append(s, row), lock |-> fresh]
             ELSE IF Evictable(s) = {} THEN [reg |-> s, lock |-> None]
             ELSE [reg |-> Append(Without(s, Oldest(Evictable(s))), row), lock |-> fresh]

-----------------------------------------------------------------------------
Init ==
    /\ registry = [pr \in Processes |-> <<>>]
    /\ linked = [p \in Pages |-> None]
    /\ up = [pr \in Processes |-> "up"]
    /\ pc = [t \in Threads |-> "idle"]
    /\ page = [t \in Threads |-> None]
    /\ probing = [t \in Threads |-> FALSE]
    /\ tries = [t \in Threads |-> 0]
    /\ cand = [t \in Threads |-> None]
    /\ held = [t \in Threads |-> <<>>]
    /\ depth = [t \in Threads |-> 0]
    /\ fd = [t \in Threads |-> None]
    /\ flk = [t \in Threads |-> FALSE]

\* A call looks its lock up.  From inside the body only the same page is
\* taken again: no caller holds two pages at once.
Lookup(t, p, probe) ==
    /\ up[ProcOf[t]] = "up" \/ (up[ProcOf[t]] = "closing" /\ ProcOf[t] \notin Sweepers)
    /\ \/ pc[t] = "idle"
       \/ pc[t] = "body" /\ page[t] = p /\ Len(held[t]) < MaxDepth /\ ~probe
    /\ probe => t \in Probers
    /\ \E fresh \in FreshLocks :
         LET r == LockForKey(registry[ProcOf[t]], p, fresh)
         IN  /\ r.lock # None
             /\ registry' = [registry EXCEPT ![ProcOf[t]] = r.reg]
             /\ cand' = [cand EXCEPT ![t] = r.lock]
    /\ pc' = [pc EXCEPT ![t] = "thread"]
    /\ page' = [page EXCEPT ![t] = p]
    /\ probing' = [probing EXCEPT ![t] = probe]
    /\ tries' = [tries EXCEPT ![t] = 0]
    /\ UNCHANGED <<linked, up, held, depth, fd, flk>>

LastTry(t) == tries[t] + 1 >= IF probing[t] THEN 1 ELSE Attempts

\* thread_lock.acquire(blocking=False) succeeds: the lock is free or ours.
TakeThreadLock(t) ==
    /\ pc[t] = "thread"
    /\ \A u \in Threads \ {t} : cand[t] \notin HeldBy(u)
    /\ held' = [held EXCEPT ![t] = Append(@, cand[t])]
    /\ cand' = [cand EXCEPT ![t] = None]
    /\ tries' = [tries EXCEPT ![t] = 0]
    /\ IF depth[t] > 0 \/ (~HasFcntl /\ ~probing[t])
       THEN /\ depth' = [depth EXCEPT ![t] = @ + 1]
            /\ pc' = [pc EXCEPT ![t] = "body"]
       ELSE /\ depth' = depth
            /\ pc' = [pc EXCEPT ![t] = IF HasFcntl THEN "open" ELSE "release"]
    /\ UNCHANGED <<registry, linked, up, page, probing, fd, flk>>

\* Mutant: the attempts are not counted.
MissThreadLockForever(t) ==
    /\ pc[t] = "thread"
    /\ \E u \in Threads \ {t} : cand[t] \in HeldBy(u)
    /\ UNCHANGED vars

\* It is held by another thread: sleep and retry, or raise after the last try.
MissThreadLock(t) ==
    /\ pc[t] = "thread"
    /\ \E u \in Threads \ {t} : cand[t] \in HeldBy(u)
    /\ IF ~LastTry(t)
       THEN /\ tries' = [tries EXCEPT ![t] = @ + 1]
            /\ UNCHANGED <<pc, page, cand>>
       ELSE /\ tries' = [tries EXCEPT ![t] = 0]
            /\ cand' = [cand EXCEPT ![t] = None]
            /\ pc' = [pc EXCEPT ![t] = IF depth[t] > 0 THEN "body" ELSE "idle"]
            /\ page' = [page EXCEPT ![t] = IF depth[t] > 0 THEN @ ELSE None]
    /\ UNCHANGED <<registry, linked, up, probing, held, depth, fd, flk>>

\* os.open(sidecar, O_CREAT): the inode the path names now, or a new one.
OpenSidecar(t) ==
    /\ pc[t] = "open"
    /\ \E i \in Inodes :
         /\ IF linked[page[t]] # None THEN i = linked[page[t]]
            ELSE i \notin {linked[p] : p \in Pages} \cup {fd[u] : u \in Threads}
         /\ linked' = [linked EXCEPT ![page[t]] = i]
         /\ fd' = [fd EXCEPT ![t] = i]
    /\ pc' = [pc EXCEPT ![t] = "flock"]
    /\ UNCHANGED <<registry, up, page, probing, tries, cand, held, depth, flk>>

Contended(t) == \E u \in Threads \ {t} : flk[u] /\ fd[u] = fd[t]

\* Past the flock: the body starts, a probe goes straight to LOCK_UN.
PastFlock(t) ==
    /\ pc' = [pc EXCEPT ![t] = IF probing[t] THEN "unflock" ELSE "body"]
    /\ depth' = [depth EXCEPT ![t] = IF probing[t] THEN 0 ELSE 1]
    /\ tries' = [tries EXCEPT ![t] = 0]
    /\ UNCHANGED <<registry, linked, up, page, probing, cand, held, fd>>

\* flock(LOCK_EX | LOCK_NB) succeeds.
TakeFlock(t) ==
    /\ pc[t] = "flock" /\ ~Contended(t)
    /\ flk' = [flk EXCEPT ![t] = TRUE]
    /\ PastFlock(t)

\* flock raises OSError and degradation is allowed: go on without it.
DegradeFlock(t) ==
    /\ pc[t] = "flock" /\ DegradationAllowed
    /\ flk' = flk
    /\ PastFlock(t)

\* Mutant: the depth entry is dropped also when the flock was never taken.
MissFlockDropsDepth(t) ==
    /\ pc[t] = "flock" /\ Contended(t)
    /\ pc' = [pc EXCEPT ![t] = "release"]
    /\ fd' = [fd EXCEPT ![t] = None]
    /\ depth' = [depth EXCEPT ![t] = @ - 1]
    /\ UNCHANGED <<registry, linked, up, page, probing, tries, cand, held, flk>>

\* Mutant: after the last attempt the body runs without the flock, as if
\* BlockingIOError were the OSError that degrades.
MissFlockGoesOn(t) ==
    /\ pc[t] = "flock" /\ Contended(t)
    /\ IF ~LastTry(t)
       THEN tries' = [tries EXCEPT ![t] = @ + 1] /\ UNCHANGED <<pc, depth>>
       ELSE /\ tries' = [tries EXCEPT ![t] = 0]
            /\ pc' = [pc EXCEPT ![t] = "body"]
            /\ depth' = [depth EXCEPT ![t] = 1]
    /\ UNCHANGED <<registry, linked, up, page, probing, cand, held, fd, flk>>

\* BlockingIOError: sleep and retry, or close the descriptor and raise.
MissFlock(t) ==
    /\ pc[t] = "flock" /\ Contended(t)
    /\ IF ~LastTry(t)
       THEN /\ tries' = [tries EXCEPT ![t] = @ + 1]
            /\ UNCHANGED <<pc, fd>>
       ELSE /\ tries' = [tries EXCEPT ![t] = 0]
            /\ pc' = [pc EXCEPT ![t] = "release"]
            /\ fd' = [fd EXCEPT ![t] = None]
    /\ UNCHANGED <<registry, linked, up, page, probing, cand, held, depth, flk>>

\* flock raises another OSError and degradation is not allowed: raise at once.
RejectFlock(t) ==
    /\ pc[t] = "flock" /\ ~DegradationAllowed
    /\ tries' = [tries EXCEPT ![t] = 0]
    /\ pc' = [pc EXCEPT ![t] = "release"]
    /\ fd' = [fd EXCEPT ![t] = None]
    /\ UNCHANGED <<registry, linked, up, page, probing, cand, held, depth, flk>>

\* A nested body ends: the depth drops and the inner RLock is released.
LeaveNested(t) ==
    /\ pc[t] = "body" /\ depth[t] > 1
    /\ depth' = [depth EXCEPT ![t] = @ - 1]
    /\ held' = [held EXCEPT ![t] = SubSeq(@, 1, Len(@) - 1)]
    /\ UNCHANGED <<registry, linked, up, pc, page, probing, tries, cand, fd, flk>>

\* Mutant: the sidecar is removed with the lock.
ReleaseFlockUnlinks(t) ==
    /\ pc[t] = "body" /\ depth[t] = 1
    /\ depth' = [depth EXCEPT ![t] = 0]
    /\ fd' = [fd EXCEPT ![t] = None]
    /\ flk' = [flk EXCEPT ![t] = FALSE]
    /\ pc' = [pc EXCEPT ![t] = "release"]
    /\ linked' = [linked EXCEPT ![page[t]] = None]
    /\ UNCHANGED <<registry, up, page, probing, tries, cand, held>>

\* The outermost body ends: the depth entry goes, then LOCK_UN and close.
ReleaseFlock(t) ==
    /\ \/ pc[t] = "body" /\ depth[t] = 1
       \/ pc[t] = "unflock"
    /\ depth' = [depth EXCEPT ![t] = 0]
    /\ fd' = [fd EXCEPT ![t] = None]
    /\ flk' = [flk EXCEPT ![t] = FALSE]
    /\ pc' = [pc EXCEPT ![t] = "release"]
    /\ UNCHANGED <<registry, linked, up, page, probing, tries, cand, held>>

\* The finally of page_rmw_lock and of probe_page_rmw_lock.
ReleaseThreadLock(t) ==
    /\ pc[t] = "release"
    /\ held' = [held EXCEPT ![t] = <<>>]
    /\ pc' = [pc EXCEPT ![t] = "idle"]
    /\ page' = [page EXCEPT ![t] = None]
    /\ probing' = [probing EXCEPT ![t] = FALSE]
    /\ UNCHANGED <<registry, linked, up, tries, cand, depth, fd, flk>>

-----------------------------------------------------------------------------
(* The processes around the lock. *)

\* The end of the MCP lifespan, or of the daemon's main thread, drops the
\* registry.  Worker threads of an MCP server may still be inside a body.
ClearPageWriteLocks(pr) ==
    /\ pr \in Stoppers /\ up[pr] = "up"
    /\ pr \in Sweepers => \A t \in ThreadsOf(pr) : pc[t] = "idle"
    /\ registry' = [registry EXCEPT ![pr] = <<>>]
    /\ up' = [up EXCEPT ![pr] = "closing"]
    /\ UNCHANGED <<linked, threadVars>>

\* The stopping daemon unlinks the sidecar of one more page.
SweepSidecar(pr, p) ==
    /\ pr \in Sweepers /\ up[pr] = "closing"
    /\ linked[p] # None
    /\ linked' = [linked EXCEPT ![p] = None]
    /\ UNCHANGED <<registry, up, threadVars>>

Exit(pr) ==
    /\ up[pr] = "closing" /\ \A t \in ThreadsOf(pr) : pc[t] = "idle"
    /\ up' = [up EXCEPT ![pr] = "down"]
    /\ registry' = [registry EXCEPT ![pr] = <<>>]
    /\ UNCHANGED <<linked, threadVars>>

\* The kernel closes the descriptors of a killed process; sidecars stay.
Crash(pr) ==
    LET T == ThreadsOf(pr)
        Reset(f, v) == [t \in Threads |-> IF t \in T THEN v ELSE f[t]]
    IN  /\ pr \in Stoppers /\ up[pr] # "down"
        /\ up' = [up EXCEPT ![pr] = "down"]
        /\ registry' = [registry EXCEPT ![pr] = <<>>]
        /\ pc' = Reset(pc, "idle") /\ page' = Reset(page, None)
        /\ probing' = Reset(probing, FALSE) /\ tries' = Reset(tries, 0)
        /\ cand' = Reset(cand, None) /\ held' = Reset(held, <<>>)
        /\ depth' = Reset(depth, 0) /\ fd' = Reset(fd, None) /\ flk' = Reset(flk, FALSE)
        /\ UNCHANGED linked

Start(pr) ==
    /\ up[pr] = "down"
    /\ up' = [up EXCEPT ![pr] = "up"]
    /\ UNCHANGED <<registry, linked, threadVars>>

ThreadStep(t) ==
    \/ TakeThreadLock(t) \/ MissThreadLock(t) \/ OpenSidecar(t)
    \/ TakeFlock(t) \/ DegradeFlock(t) \/ MissFlock(t) \/ RejectFlock(t)
    \/ LeaveNested(t) \/ ReleaseFlock(t) \/ ReleaseThreadLock(t)

Next ==
    \/ \E t \in Threads, p \in Pages, probe \in BOOLEAN : Lookup(t, p, probe)
    \/ \E t \in Threads : ThreadStep(t)
    \/ \E pr \in Processes : ClearPageWriteLocks(pr) \/ Exit(pr) \/ Crash(pr) \/ Start(pr)
    \/ \E pr \in Processes, p \in Pages : SweepSidecar(pr, p)

Spec == Init /\ [][Next]_vars

\* A thread in the lock's own code gets to run its next line.  Nothing is
\* assumed of those inside: they may never leave.
FairSpec == Spec /\ \A t \in Threads : WF_vars(pc[t] # "body" /\ ThreadStep(t))

-----------------------------------------------------------------------------
(* Properties *)

\* page_rmw_lock holds "an exclusive lock for one file's full RMW lifecycle
\* (thread- and process-safe)": two threads are never inside the body of the
\* same page.
MutualExclusion ==
    \A t, u \in Threads : Inside(t) /\ Inside(u) /\ page[t] = page[u] => t = u

\* Whatever is swept or evicted, one inode never carries two flocks, and a
\* flock belongs to a live call (a crash or a raise never leaves one behind).
FlockExclusive ==
    /\ \A t, u \in Threads : flk[t] /\ flk[u] /\ fd[t] = fd[u] => t = u
    /\ \A t \in Threads : flk[t] => pc[t] # "idle" /\ fd[t] # None /\ up[ProcOf[t]] # "down"

\* Threads of one process are kept apart by the RLock alone when the
\* filesystem has no flock (MATRYCA_ALLOW_FLOCK_DEGRADATION).
ThreadExclusion ==
    \A t, u \in Threads :
        ProcOf[t] = ProcOf[u] /\ Inside(t) /\ Inside(u) /\ page[t] = page[u] => t = u

\* Bounded retries: every call ends inside the body or with an error, so
\* contended page locks can never deadlock.
CallsSettle ==
    \A t \in Threads : pc[t] \in {"thread", "open", "flock"} ~> pc[t] \in {"idle", "body"}

\* The lock promised to the callers.
Mutex == INSTANCE RmwMutex WITH
    holder <- [p \in Pages |-> {t \in Threads : Inside(t) /\ page[t] = p}]

ImplementsMutex == Mutex!MutexSpec
=============================================================================
