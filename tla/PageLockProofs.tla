--------------------------- MODULE PageLockProofs ---------------------------
(***************************************************************************)
(* Proofs about PageLock.  Type correctness and the exclusivity of the     *)
(* sidecar flock hold for every instance.  Mutual exclusion, and with it   *)
(* the refinement of RmwMutex, holds for every instance in which a flock   *)
(* is taken or the call raises (fcntl exists and degradation is not        *)
(* allowed) and no process sweeps sidecars: neither the registry, nor its  *)
(* eviction, nor the clearing of it plays a part in the argument.  The     *)
(* threads of one process are kept apart, whatever happens to the flock,   *)
(* in every instance whose registry has room for every page and is cleared *)
(* only by processes with no thread at work.                               *)
(***************************************************************************)
EXTENDS PageLock, SequenceTheorems, FiniteSetTheorems, WellFoundedInduction, TLAPS

\* Taking one element out of a sequence leaves a sequence of the same set.
LEMMA WithoutType ==
    ASSUME NEW S, NEW s \in Seq(S), NEW i \in 1..Len(s)
    PROVE  Without(s, i) \in Seq(S)
<1>1. SubSeq(s, 1, i - 1) \in Seq(S)
  <2>1. \A k \in 1..(i - 1) : s[k] \in S  BY ElementOfSeq
  <2> QED  BY <2>1, SubSeqProperties
<1>2. SubSeq(s, i + 1, Len(s)) \in Seq(S)
  <2>1. \A k \in (i + 1)..Len(s) : s[k] \in S  BY ElementOfSeq
  <2> QED  BY <2>1, SubSeqProperties
<1> QED  BY <1>1, <1>2, ConcatProperties DEF Without

\* A set of positions that is not empty has an oldest one.
LEMMA OldestIsLeast ==
    ASSUME NEW S \in SUBSET Nat, S # {}
    PROVE  Oldest(S) \in S /\ \A j \in S : Oldest(S) <= j
<1>1. \E i \in S : \A j \in S : ~(<<j, i>> \in OpToRel(<, Nat))
  BY WFMin, NatLessThanWellFounded
<1>2. \A i, j \in Nat : j < i => <<j, i>> \in OpToRel(<, Nat)
  BY DEF OpToRel
<1>3. PICK i \in S : \A j \in S : i <= j
  <2>1. PICK i \in S : \A j \in S : ~(<<j, i>> \in OpToRel(<, Nat))  BY <1>1
  <2>2. ASSUME NEW j \in S  PROVE i <= j
    <3>1. ~(j < i)  BY <1>2, <2>1
    <3> QED  BY <3>1
  <2> QED  BY <2>2
<1> QED  BY <1>3 DEF Oldest

\* The lookup of a page keeps the registry a sequence of entries and returns
\* a lock, or None when the registry is full.
LEMMA LockForKeyType ==
    ASSUME NEW s \in Seq(Entry), NEW p \in Pages, NEW fresh \in LockIds
    PROVE  /\ LockForKey(s, p, fresh).reg \in Seq(Entry)
           /\ LockForKey(s, p, fresh).lock \in LockIds \cup {None}
<1> DEFINE row == [page |-> p, lock |-> fresh]
<1>1. row \in Entry  BY DEF Entry
<1>2. CASE RowsOf(s, p) # {}
  <2> DEFINE i == Oldest(RowsOf(s, p))
  <2>1. i \in 1..Len(s)
    <3>1. RowsOf(s, p) \in SUBSET Nat /\ RowsOf(s, p) \subseteq 1..Len(s)
      BY LenProperties DEF RowsOf
    <3> QED  BY <1>2, <3>1, OldestIsLeast
  <2>2. s[i] \in Entry  BY <2>1, ElementOfSeq
  <2>3. Append(Without(s, i), s[i]) \in Seq(Entry)
    BY <2>1, <2>2, WithoutType, AppendProperties
  <2> QED  BY <1>2, <2>2, <2>3 DEF LockForKey, Entry
<1>3. CASE RowsOf(s, p) = {} /\ Len(s) < RegistryCap
  <2>1. Append(s, row) \in Seq(Entry)  BY <1>1, AppendProperties
  <2> QED  BY <1>3, <2>1 DEF LockForKey
<1>4. CASE RowsOf(s, p) = {} /\ ~(Len(s) < RegistryCap) /\ Evictable(s) = {}
  BY <1>4 DEF LockForKey
<1>5. CASE RowsOf(s, p) = {} /\ ~(Len(s) < RegistryCap) /\ Evictable(s) # {}
  <2> DEFINE i == Oldest(Evictable(s))
  <2>1. i \in 1..Len(s)
    <3>1. Evictable(s) \in SUBSET Nat /\ Evictable(s) \subseteq 1..Len(s)
      BY LenProperties DEF Evictable
    <3> QED  BY <1>5, <3>1, OldestIsLeast
  <2>2. Append(Without(s, i), row) \in Seq(Entry)
    BY <1>1, <2>1, WithoutType, AppendProperties
  <2> QED  BY <1>5, <2>2 DEF LockForKey
<1> QED  BY <1>2, <1>3, <1>4, <1>5

\* A thread that is about to acquire an RLock has one: _lock_for_key returned
\* it.  Without this the types are not inductive.
HasCandidate == \A t \in Threads : pc[t] = "thread" => cand[t] # None

\* Every step keeps the variables within their types.
LEMMA TypeStep == TypeOK /\ HasCandidate /\ [Next]_vars => TypeOK'
<1> SUFFICES ASSUME TypeOK, HasCandidate, [Next]_vars  PROVE TypeOK'
  OBVIOUS
<1> USE PageLockAssumption
<1>1. ASSUME NEW t \in Threads, NEW p \in Pages, NEW probe \in BOOLEAN, Lookup(t, p, probe)
      PROVE  TypeOK'
  <2>1. PICK fresh \in FreshLocks :
           LET r == LockForKey(registry[ProcOf[t]], p, fresh)
           IN  /\ r.lock # None
               /\ registry' = [registry EXCEPT ![ProcOf[t]] = r.reg]
               /\ cand' = [cand EXCEPT ![t] = r.lock]
    BY <1>1 DEF Lookup
  <2> DEFINE r == LockForKey(registry[ProcOf[t]], p, fresh)
  <2>2. r.reg \in Seq(Entry) /\ r.lock \in LockIds \cup {None}
    BY LockForKeyType DEF FreshLocks, TypeOK
  <2> HIDE DEF r
  <2>3. registry' \in [Processes -> Seq(Entry)] /\ cand' \in [Threads -> LockIds \cup {None}]
    BY <2>1, <2>2 DEF TypeOK, r
  <2> QED  BY <1>1, <2>3 DEF TypeOK, Lookup, PCs
<1>2. ASSUME NEW t \in Threads, TakeThreadLock(t)  PROVE TypeOK'
  <2>1. Append(held[t], cand[t]) \in Seq(LockIds)
    BY <1>2, AppendProperties DEF TypeOK, HasCandidate, TakeThreadLock
  <2>2. pc' \in [Threads -> PCs] /\ depth' \in [Threads -> Nat]
    <3>1. CASE depth[t] > 0 \/ (~HasFcntl /\ ~probing[t])
      <4>1. depth \in [Threads -> Nat] /\ pc \in [Threads -> PCs]  BY DEF TypeOK
      <4>2. depth' = [depth EXCEPT ![t] = @ + 1] /\ pc' = [pc EXCEPT ![t] = "body"]
        BY <1>2, <3>1 DEF TakeThreadLock
      <4> QED  BY <4>1, <4>2 DEF PCs
    <3>2. CASE ~(depth[t] > 0 \/ (~HasFcntl /\ ~probing[t]))
      BY <1>2, <3>2 DEF TypeOK, TakeThreadLock, PCs
    <3> QED  BY <3>1, <3>2
  <2>3. held' \in [Threads -> Seq(LockIds)]
    BY <1>2, <2>1 DEF TypeOK, TakeThreadLock
  <2> QED  BY <1>2, <2>2, <2>3 DEF TypeOK, TakeThreadLock
<1>3. ASSUME NEW t \in Threads, MissThreadLock(t)  PROVE TypeOK'
  <2>1. CASE LastTry(t)
    <3>1. pc' \in [Threads -> PCs] /\ page' \in [Threads -> Pages \cup {None}]
      BY <1>3, <2>1 DEF TypeOK, MissThreadLock, PCs
    <3>2. tries' \in [Threads -> Nat] /\ cand' \in [Threads -> LockIds \cup {None}]
      <4>1. tries \in [Threads -> Nat] /\ cand \in [Threads -> LockIds \cup {None}]
        BY DEF TypeOK
      <4>2. tries' = [tries EXCEPT ![t] = 0] /\ cand' = [cand EXCEPT ![t] = None]
        BY <1>3, <2>1 DEF MissThreadLock
      <4> QED  BY <4>1, <4>2
    <3> QED  BY <1>3, <3>1, <3>2 DEF TypeOK, MissThreadLock
  <2>2. CASE ~LastTry(t)
    <3>1. tries' \in [Threads -> Nat] /\ UNCHANGED <<pc, page, cand>>
      <4>1. tries \in [Threads -> Nat]  BY DEF TypeOK
      <4>2. tries' = [tries EXCEPT ![t] = @ + 1] /\ UNCHANGED <<pc, page, cand>>
        BY <1>3, <2>2 DEF MissThreadLock
      <4> QED  BY <4>1, <4>2
    <3> QED  BY <1>3, <3>1 DEF TypeOK, MissThreadLock
  <2> QED  BY <2>1, <2>2
<1>4. ASSUME NEW t \in Threads, OpenSidecar(t)  PROVE TypeOK'
  <2>1. PICK i \in Inodes : /\ linked' = [linked EXCEPT ![page[t]] = i]
                            /\ fd' = [fd EXCEPT ![t] = i]
    BY <1>4 DEF OpenSidecar
  <2>2. pc' \in [Threads -> PCs]
    BY <1>4 DEF TypeOK, OpenSidecar, PCs
  <2> QED  BY <1>4, <2>1, <2>2 DEF TypeOK, OpenSidecar
<1>5. ASSUME NEW t \in Threads, TakeFlock(t)  PROVE TypeOK'
  BY <1>5 DEF TypeOK, TakeFlock, PastFlock, PCs
<1>6. ASSUME NEW t \in Threads, DegradeFlock(t)  PROVE TypeOK'
  BY <1>6 DEF TypeOK, DegradeFlock, PastFlock, PCs
<1>7. ASSUME NEW t \in Threads, MissFlock(t)  PROVE TypeOK'
  <2>1. pc' \in [Threads -> PCs] /\ tries' \in [Threads -> Nat]
    <3>1. CASE ~LastTry(t)
      <4>1. tries \in [Threads -> Nat] /\ pc \in [Threads -> PCs]  BY DEF TypeOK
      <4>2. tries' = [tries EXCEPT ![t] = @ + 1] /\ UNCHANGED pc
        BY <1>7, <3>1 DEF MissFlock
      <4> QED  BY <4>1, <4>2
    <3>2. CASE LastTry(t)
      <4>1. tries \in [Threads -> Nat] /\ pc \in [Threads -> PCs]  BY DEF TypeOK
      <4>2. tries' = [tries EXCEPT ![t] = 0] /\ pc' = [pc EXCEPT ![t] = "release"]
        BY <1>7, <3>2 DEF MissFlock
      <4> QED  BY <4>1, <4>2 DEF PCs
    <3> QED  BY <3>1, <3>2
  <2>2. fd' \in [Threads -> Inodes \cup {None}]
    BY <1>7 DEF TypeOK, MissFlock
  <2> QED  BY <1>7, <2>1, <2>2 DEF TypeOK, MissFlock
<1>17. ASSUME NEW t \in Threads, RejectFlock(t)  PROVE TypeOK'
  BY <1>17 DEF TypeOK, RejectFlock, PCs
<1>8. ASSUME NEW t \in Threads, LeaveNested(t)  PROVE TypeOK'
  BY <1>8 DEF TypeOK, LeaveNested, PCs
<1>9. ASSUME NEW t \in Threads, ReleaseFlock(t)  PROVE TypeOK'
  BY <1>9 DEF TypeOK, ReleaseFlock, PCs
<1>10. ASSUME NEW t \in Threads, ReleaseThreadLock(t)  PROVE TypeOK'
  BY <1>10 DEF TypeOK, ReleaseThreadLock, PCs
<1>11. ASSUME NEW pr \in Processes, ClearPageWriteLocks(pr)  PROVE TypeOK'
  BY <1>11 DEF TypeOK, ClearPageWriteLocks, threadVars
<1>12. ASSUME NEW pr \in Processes, Exit(pr)  PROVE TypeOK'
  BY <1>12 DEF TypeOK, Exit, threadVars
<1>13. ASSUME NEW pr \in Processes, Crash(pr)  PROVE TypeOK'
  <2>1. registry' \in [Processes -> Seq(Entry)] /\ up' \in [Processes -> {"up", "closing", "down"}]
    BY <1>13 DEF TypeOK, Crash
  <2>2. pc' \in [Threads -> PCs] /\ page' \in [Threads -> Pages \cup {None}]
    BY <1>13 DEF TypeOK, Crash, PCs
  <2>3. probing' \in [Threads -> BOOLEAN] /\ flk' \in [Threads -> BOOLEAN]
    BY <1>13 DEF TypeOK, Crash
  <2>4. tries' \in [Threads -> Nat] /\ depth' \in [Threads -> Nat]
    BY <1>13 DEF TypeOK, Crash
  <2>5. cand' \in [Threads -> LockIds \cup {None}] /\ fd' \in [Threads -> Inodes \cup {None}]
    BY <1>13 DEF TypeOK, Crash
  <2>6. held' \in [Threads -> Seq(LockIds)]
    BY <1>13 DEF TypeOK, Crash
  <2>7. UNCHANGED linked
    BY <1>13 DEF Crash
  <2> QED  BY <2>1, <2>2, <2>3, <2>4, <2>5, <2>6, <2>7 DEF TypeOK
<1>14. ASSUME NEW pr \in Processes, Start(pr)  PROVE TypeOK'
  BY <1>14 DEF TypeOK, Start, threadVars
<1>15. ASSUME NEW pr \in Processes, NEW p \in Pages, SweepSidecar(pr, p)  PROVE TypeOK'
  BY <1>15 DEF TypeOK, SweepSidecar, threadVars
<1>16. CASE UNCHANGED vars
  BY <1>16 DEF TypeOK, vars
<1> QED
  BY <1>1, <1>2, <1>3, <1>4, <1>5, <1>6, <1>7, <1>8, <1>9, <1>10, <1>11,
     <1>12, <1>13, <1>14, <1>15, <1>16, <1>17 DEF Next, ThreadStep

\* Every step leaves a thread that acquires an RLock with one.
LEMMA CandidateStep == TypeOK /\ HasCandidate /\ [Next]_vars => HasCandidate'
<1> SUFFICES ASSUME TypeOK, HasCandidate, [Next]_vars  PROVE HasCandidate'
  OBVIOUS
<1>1. ASSUME NEW t \in Threads, NEW p \in Pages, NEW probe \in BOOLEAN, Lookup(t, p, probe)
      PROVE  HasCandidate'
  BY <1>1 DEF TypeOK, HasCandidate, Lookup
<1>2. ASSUME NEW t \in Threads, ThreadStep(t)  PROVE HasCandidate'
  BY <1>2 DEF TypeOK, HasCandidate, ThreadStep, TakeThreadLock, MissThreadLock, OpenSidecar,
     TakeFlock, DegradeFlock, PastFlock, MissFlock, RejectFlock, LeaveNested, ReleaseFlock,
     ReleaseThreadLock
<1>3. ASSUME NEW pr \in Processes, ClearPageWriteLocks(pr) \/ Exit(pr) \/ Crash(pr) \/ Start(pr)
      PROVE  HasCandidate'
  <2>1. CASE Crash(pr)
    <3>1. \A u \in Threads : \/ pc'[u] = "idle"
                             \/ pc'[u] = pc[u] /\ cand'[u] = cand[u]
      BY <2>1 DEF Crash
    <3> QED  BY <3>1 DEF HasCandidate
  <2> QED
    BY <1>3, <2>1 DEF HasCandidate, ClearPageWriteLocks, Exit, Start, threadVars
<1>4. ASSUME NEW pr \in Processes, NEW p \in Pages, SweepSidecar(pr, p)  PROVE HasCandidate'
  BY <1>4 DEF HasCandidate, SweepSidecar, threadVars
<1>5. CASE UNCHANGED vars
  BY <1>5 DEF HasCandidate, vars
<1> QED  BY <1>1, <1>2, <1>3, <1>4, <1>5 DEF Next

\* The variables always have their types.
THEOREM TypeCorrect == Spec => []TypeOK
<1>1. Init => TypeOK /\ HasCandidate
  BY PageLockAssumption DEF Init, TypeOK, HasCandidate, PCs
<1> QED  BY <1>1, TypeStep, CandidateStep, PTL DEF Spec

-----------------------------------------------------------------------------
(* The flock of a sidecar inode. *)

\* What a thread has open and how deep it is inside, at each line of its call.
Phase(t) ==
    /\ pc[t] \in {"idle", "open", "release"} => depth[t] = 0 /\ fd[t] = None
    /\ pc[t] = "thread" /\ depth[t] = 0 => fd[t] = None
    /\ pc[t] \in {"flock", "unflock"} => depth[t] = 0
    /\ pc[t] = "flock" => fd[t] # None /\ ~flk[t]
    /\ pc[t] = "body" => depth[t] > 0
    /\ flk[t] => fd[t] # None
    /\ pc[t] # "idle" => page[t] \in Pages /\ up[ProcOf[t]] # "down"

Phases == \A t \in Threads : Phase(t)

\* One inode carries one flock.
OneFlockPerInode ==
    \A t, u \in Threads : flk[t] /\ flk[u] /\ fd[t] = fd[u] => t = u

FlockInv == TypeOK /\ HasCandidate /\ Phases /\ OneFlockPerInode

\* Every step keeps each thread in its phase.
LEMMA PhaseStep == TypeOK /\ Phases /\ [Next]_vars => Phases'
<1> SUFFICES ASSUME TypeOK, Phases, [Next]_vars  PROVE Phases'
  OBVIOUS
<1> USE PageLockAssumption
<1>1. ASSUME NEW t \in Threads, NEW p \in Pages, NEW probe \in BOOLEAN, Lookup(t, p, probe)
      PROVE  Phases'
  BY <1>1 DEF TypeOK, Phases, Phase, Lookup
<1>2. ASSUME NEW t \in Threads, TakeThreadLock(t)  PROVE Phases'
  BY <1>2 DEF TypeOK, Phases, Phase, TakeThreadLock
<1>3. ASSUME NEW t \in Threads, MissThreadLock(t)  PROVE Phases'
  BY <1>3 DEF TypeOK, Phases, Phase, MissThreadLock
<1>4. ASSUME NEW t \in Threads, OpenSidecar(t)  PROVE Phases'
  BY <1>4 DEF TypeOK, Phases, Phase, OpenSidecar
<1>5. ASSUME NEW t \in Threads, TakeFlock(t)  PROVE Phases'
  BY <1>5 DEF TypeOK, Phases, Phase, TakeFlock, PastFlock
<1>6. ASSUME NEW t \in Threads, DegradeFlock(t)  PROVE Phases'
  BY <1>6 DEF TypeOK, Phases, Phase, DegradeFlock, PastFlock
<1>7. ASSUME NEW t \in Threads, MissFlock(t) \/ RejectFlock(t)  PROVE Phases'
  BY <1>7 DEF TypeOK, Phases, Phase, MissFlock, RejectFlock
<1>8. ASSUME NEW t \in Threads, LeaveNested(t)  PROVE Phases'
  BY <1>8 DEF TypeOK, Phases, Phase, LeaveNested
<1>9. ASSUME NEW t \in Threads, ReleaseFlock(t)  PROVE Phases'
  BY <1>9 DEF TypeOK, Phases, Phase, ReleaseFlock
<1>10. ASSUME NEW t \in Threads, ReleaseThreadLock(t)  PROVE Phases'
  BY <1>10 DEF TypeOK, Phases, Phase, ReleaseThreadLock
<1>11. ASSUME NEW pr \in Processes, ClearPageWriteLocks(pr)  PROVE Phases'
  BY <1>11 DEF TypeOK, Phases, Phase, ClearPageWriteLocks, ThreadsOf, threadVars
<1>12. ASSUME NEW pr \in Processes, Exit(pr)  PROVE Phases'
  BY <1>12 DEF TypeOK, Phases, Phase, Exit, ThreadsOf, threadVars
<1>13. ASSUME NEW pr \in Processes, Start(pr)  PROVE Phases'
  BY <1>13 DEF TypeOK, Phases, Phase, Start, ThreadsOf, threadVars
<1>14. ASSUME NEW pr \in Processes, Crash(pr)  PROVE Phases'
  BY <1>14 DEF TypeOK, Phases, Phase, Crash, ThreadsOf
<1>15. ASSUME NEW pr \in Processes, NEW p \in Pages, SweepSidecar(pr, p)  PROVE Phases'
  BY <1>15 DEF TypeOK, Phases, Phase, SweepSidecar, threadVars
<1>16. CASE UNCHANGED vars
  BY <1>16 DEF Phases, Phase, vars
<1> QED
  BY <1>1, <1>2, <1>3, <1>4, <1>5, <1>6, <1>7, <1>8, <1>9, <1>10, <1>11, <1>12, <1>13, <1>14, <1>15, <1>16 DEF Next, ThreadStep

\* Every step leaves at most one flock on an inode: it is granted only while
\* no other descriptor of the inode has it.
LEMMA OneFlockStep == TypeOK /\ Phases /\ OneFlockPerInode /\ [Next]_vars => OneFlockPerInode'
<1> SUFFICES ASSUME TypeOK, Phases, OneFlockPerInode, [Next]_vars  PROVE OneFlockPerInode'
  OBVIOUS
<1>1. ASSUME NEW t \in Threads, NEW p \in Pages, NEW probe \in BOOLEAN, Lookup(t, p, probe)
      PROVE  OneFlockPerInode'
  BY <1>1 DEF OneFlockPerInode, Lookup
<1>2. ASSUME NEW t \in Threads, TakeFlock(t)  PROVE OneFlockPerInode'
  BY <1>2 DEF TypeOK, OneFlockPerInode, TakeFlock, PastFlock, Contended
<1>3. ASSUME NEW t \in Threads, OpenSidecar(t)  PROVE OneFlockPerInode'
  BY <1>3 DEF TypeOK, Phases, Phase, OneFlockPerInode, OpenSidecar
<1>4. ASSUME NEW t \in Threads, MissFlock(t) \/ RejectFlock(t)  PROVE OneFlockPerInode'
  <2>1. \A u \in Threads : fd'[u] = fd[u] \/ u = t
    BY <1>4 DEF MissFlock, RejectFlock, TypeOK
  <2>2. ~flk[t] /\ flk' = flk
    BY <1>4 DEF Phases, Phase, MissFlock, RejectFlock
  <2> QED  BY <2>1, <2>2 DEF OneFlockPerInode
<1>5. ASSUME NEW t \in Threads, ReleaseFlock(t)  PROVE OneFlockPerInode'
  BY <1>5 DEF TypeOK, OneFlockPerInode, ReleaseFlock
<1>6. ASSUME NEW t \in Threads,
             TakeThreadLock(t) \/ MissThreadLock(t) \/ DegradeFlock(t) \/ LeaveNested(t) \/ ReleaseThreadLock(t)
      PROVE  OneFlockPerInode'
  BY <1>6 DEF OneFlockPerInode, TakeThreadLock, MissThreadLock, DegradeFlock, PastFlock,
     LeaveNested, ReleaseThreadLock
<1>7. ASSUME NEW pr \in Processes, ClearPageWriteLocks(pr) \/ Exit(pr) \/ Start(pr)
      PROVE  OneFlockPerInode'
  BY <1>7 DEF OneFlockPerInode, ClearPageWriteLocks, Exit, Start, threadVars
<1>8. ASSUME NEW pr \in Processes, Crash(pr)  PROVE OneFlockPerInode'
  BY <1>8 DEF OneFlockPerInode, Crash
<1>9. ASSUME NEW pr \in Processes, NEW p \in Pages, SweepSidecar(pr, p)  PROVE OneFlockPerInode'
  BY <1>9 DEF OneFlockPerInode, SweepSidecar, threadVars
<1>10. CASE UNCHANGED vars
  BY <1>10 DEF OneFlockPerInode, vars
<1> QED
  BY <1>1, <1>2, <1>3, <1>4, <1>5, <1>6, <1>7, <1>8, <1>9, <1>10 DEF Next, ThreadStep

\* In every instance, whatever is swept or evicted, an inode carries at most
\* one flock, and only of a live call.
THEOREM FlocksAreExclusive == Spec => []FlockExclusive
<1>1. Init => FlockInv
  BY PageLockAssumption DEF Init, FlockInv, TypeOK, HasCandidate, Phases, Phase, OneFlockPerInode, PCs
<1>2. FlockInv /\ [Next]_vars => FlockInv'
  BY TypeStep, CandidateStep, PhaseStep, OneFlockStep DEF FlockInv
<1>3. FlockInv => FlockExclusive
  BY DEF FlockInv, Phases, Phase, OneFlockPerInode, FlockExclusive
<1> QED  BY <1>1, <1>2, <1>3, PTL DEF Spec

-----------------------------------------------------------------------------
(* Mutual exclusion, where flock excludes and nobody sweeps sidecars. *)

FlockIsSound == HasFcntl /\ ~DegradationAllowed /\ Sweepers = {}

\* The open sidecar is the one the path of the page names: no unlink put
\* another inode in its place.
SidecarIsLinked == \A t \in Threads : fd[t] # None => linked[page[t]] = fd[t]

\* Nobody is inside without the flock.
InsideHasFlock == \A t \in Threads : Inside(t) => flk[t]

LockInv == FlockInv /\ SidecarIsLinked /\ InsideHasFlock

\* Every step keeps open sidecars linked.
LEMMA LinkedStep ==
    FlockIsSound /\ FlockInv /\ SidecarIsLinked /\ [Next]_vars => SidecarIsLinked'
<1> SUFFICES ASSUME FlockIsSound, FlockInv, SidecarIsLinked, [Next]_vars  PROVE SidecarIsLinked'
  OBVIOUS
<1> USE PageLockAssumption
<1>0. TypeOK /\ Phases  BY DEF FlockInv
<1>1. ASSUME NEW t \in Threads, NEW p \in Pages, NEW probe \in BOOLEAN, Lookup(t, p, probe)
      PROVE  SidecarIsLinked'
  BY <1>0, <1>1 DEF TypeOK, Phases, Phase, SidecarIsLinked, Lookup
<1>2. ASSUME NEW t \in Threads, OpenSidecar(t)  PROVE SidecarIsLinked'
  <2>1. PICK i \in Inodes :
          /\ IF linked[page[t]] # None THEN i = linked[page[t]]
             ELSE i \notin {linked[p] : p \in Pages} \cup {fd[u] : u \in Threads}
          /\ linked' = [linked EXCEPT ![page[t]] = i]
          /\ fd' = [fd EXCEPT ![t] = i]
    BY <1>2 DEF OpenSidecar
  <2>2. page[t] \in Pages /\ UNCHANGED page
    BY <1>0, <1>2 DEF Phases, Phase, OpenSidecar
  <2>3. linked'[page[t]] = i /\ fd'[t] = i
    BY <1>0, <2>1, <2>2 DEF TypeOK
  <2>4. ASSUME NEW u \in Threads, u # t, fd'[u] # None  PROVE linked'[page'[u]] = fd'[u]
    <3>1. fd[u] = fd'[u] /\ linked[page[u]] = fd[u]
      BY <1>0, <2>1, <2>4 DEF TypeOK, SidecarIsLinked
    <3>2. page[u] = page[t] => i = fd[u]
      BY <2>1, <2>4, <3>1
    <3>3. page[u] \in Pages
      BY <1>0, <2>4, <3>1 DEF Phases, Phase, TypeOK
    <3> QED  BY <1>0, <2>1, <2>2, <3>1, <3>2, <3>3 DEF TypeOK
  <2> QED  BY <2>2, <2>3, <2>4 DEF SidecarIsLinked
<1>3. ASSUME NEW t \in Threads,
             \/ TakeThreadLock(t) \/ TakeFlock(t) \/ DegradeFlock(t) \/ LeaveNested(t)
      PROVE  SidecarIsLinked'
  BY <1>3 DEF SidecarIsLinked, TakeThreadLock, TakeFlock, DegradeFlock, PastFlock, LeaveNested
<1>4. ASSUME NEW t \in Threads,
             \/ MissThreadLock(t) \/ MissFlock(t) \/ RejectFlock(t)
             \/ ReleaseFlock(t) \/ ReleaseThreadLock(t)
      PROVE  SidecarIsLinked'
  BY <1>0, <1>4 DEF TypeOK, Phases, Phase, SidecarIsLinked,
     MissThreadLock, MissFlock, RejectFlock, ReleaseFlock, ReleaseThreadLock
<1>5. ASSUME NEW pr \in Processes, ClearPageWriteLocks(pr) \/ Exit(pr) \/ Start(pr)
      PROVE  SidecarIsLinked'
  BY <1>5 DEF SidecarIsLinked, ClearPageWriteLocks, Exit, Start, threadVars
<1>6. ASSUME NEW pr \in Processes, Crash(pr)  PROVE SidecarIsLinked'
  BY <1>6 DEF SidecarIsLinked, Crash
<1>7. ASSUME NEW pr \in Processes, NEW p \in Pages, SweepSidecar(pr, p)  PROVE SidecarIsLinked'
  BY <1>7 DEF FlockIsSound, SweepSidecar
<1>8. CASE UNCHANGED vars
  BY <1>8 DEF SidecarIsLinked, vars
<1> QED
  BY <1>1, <1>2, <1>3, <1>4, <1>5, <1>6, <1>7, <1>8 DEF Next, ThreadStep

\* Every step keeps the flock of those inside.
LEMMA InsideStep ==
    FlockIsSound /\ FlockInv /\ InsideHasFlock /\ [Next]_vars => InsideHasFlock'
<1> SUFFICES ASSUME FlockIsSound, FlockInv, InsideHasFlock, [Next]_vars  PROVE InsideHasFlock'
  OBVIOUS
<1>0. TypeOK /\ Phases  BY DEF FlockInv
<1>1. ASSUME NEW t \in Threads, NEW p \in Pages, NEW probe \in BOOLEAN, Lookup(t, p, probe)
      PROVE  InsideHasFlock'
  BY <1>1 DEF InsideHasFlock, Inside, Lookup
<1>2. ASSUME NEW t \in Threads, TakeThreadLock(t)  PROVE InsideHasFlock'
  BY <1>0, <1>2 DEF TypeOK, FlockIsSound, InsideHasFlock, Inside, TakeThreadLock
<1>3. ASSUME NEW t \in Threads, TakeFlock(t) \/ DegradeFlock(t)  PROVE InsideHasFlock'
  BY <1>0, <1>3 DEF TypeOK, FlockIsSound, InsideHasFlock, Inside, TakeFlock, DegradeFlock, PastFlock
<1>4. ASSUME NEW t \in Threads, LeaveNested(t) \/ ReleaseFlock(t)  PROVE InsideHasFlock'
  <2>1. depth \in [Threads -> Nat] /\ flk \in [Threads -> BOOLEAN]  BY <1>0 DEF TypeOK
  <2>2. CASE LeaveNested(t)
    <3>1. depth' = [depth EXCEPT ![t] = @ - 1] /\ depth[t] > 1 /\ flk' = flk
      BY <2>2 DEF LeaveNested
    <3> QED  BY <2>1, <3>1 DEF InsideHasFlock, Inside
  <2>3. CASE ReleaseFlock(t)
    <3>1. depth' = [depth EXCEPT ![t] = 0] /\ flk' = [flk EXCEPT ![t] = FALSE]
      BY <2>3 DEF ReleaseFlock
    <3> QED  BY <2>1, <3>1 DEF InsideHasFlock, Inside
  <2> QED  BY <1>4, <2>2, <2>3
<1>5. ASSUME NEW t \in Threads,
             \/ MissThreadLock(t) \/ OpenSidecar(t) \/ MissFlock(t) \/ RejectFlock(t)
             \/ ReleaseThreadLock(t)
      PROVE  InsideHasFlock'
  BY <1>5 DEF InsideHasFlock, Inside, MissThreadLock, OpenSidecar, MissFlock, RejectFlock,
     ReleaseThreadLock
<1>6. ASSUME NEW pr \in Processes, ClearPageWriteLocks(pr) \/ Exit(pr) \/ Start(pr)
      PROVE  InsideHasFlock'
  BY <1>6 DEF InsideHasFlock, Inside, ClearPageWriteLocks, Exit, Start, threadVars
<1>7. ASSUME NEW pr \in Processes, Crash(pr)  PROVE InsideHasFlock'
  BY <1>7 DEF InsideHasFlock, Inside, Crash
<1>8. ASSUME NEW pr \in Processes, NEW p \in Pages, SweepSidecar(pr, p)  PROVE InsideHasFlock'
  BY <1>8 DEF InsideHasFlock, Inside, SweepSidecar, threadVars
<1>9. CASE UNCHANGED vars
  BY <1>9 DEF InsideHasFlock, Inside, vars
<1> QED
  BY <1>1, <1>2, <1>3, <1>4, <1>5, <1>6, <1>7, <1>8, <1>9 DEF Next, ThreadStep

\* Two threads inside the body of one page both have the flock of the inode
\* its path names, so they are one thread.
LEMMA LockInvExcludes == LockInv => MutualExclusion
<1> SUFFICES ASSUME LockInv, NEW t \in Threads, NEW u \in Threads,
                    Inside(t), Inside(u), page[t] = page[u]
             PROVE  t = u
  BY DEF MutualExclusion
<1>1. flk[t] /\ flk[u]  BY DEF LockInv, InsideHasFlock
<1>2. fd[t] # None /\ fd[u] # None  BY <1>1 DEF LockInv, FlockInv, Phases, Phase
<1>3. fd[t] = fd[u]  BY <1>2 DEF LockInv, SidecarIsLinked
<1> QED  BY <1>1, <1>3 DEF LockInv, FlockInv, OneFlockPerInode

\* LockInv is inductive.
LEMMA LockInvHolds == FlockIsSound => (Spec => []LockInv)
<1> SUFFICES ASSUME FlockIsSound  PROVE Spec => []LockInv
  OBVIOUS
<1>1. Init => LockInv
  BY PageLockAssumption DEF Init, LockInv, FlockInv, TypeOK, HasCandidate, Phases, Phase, OneFlockPerInode,
     PCs, SidecarIsLinked, InsideHasFlock, Inside
<1>2. LockInv /\ [Next]_vars => LockInv'
  BY TypeStep, CandidateStep, PhaseStep, OneFlockStep, LinkedStep, InsideStep DEF LockInv, FlockInv
<1> QED  BY <1>1, <1>2, PTL DEF Spec

\* page_rmw_lock is thread- and process-safe wherever flock excludes and no
\* sidecar is swept, whatever the eviction and the clearing of the registry do.
THEOREM LockExcludes == FlockIsSound => (Spec => []MutualExclusion)
<1> SUFFICES ASSUME FlockIsSound  PROVE Spec => []MutualExclusion
  OBVIOUS
<1> QED  BY LockInvHolds, LockInvExcludes, PTL

-----------------------------------------------------------------------------
(* The refinement of RmwMutex. *)

Holder == [p \in Pages |-> {t \in Threads : Inside(t) /\ page[t] = p}]

\* A step that changes nobody's place in or out of a body is a stutter.
LEMMA SameInsideSameHolder ==
    ASSUME \A t \in Threads : \/ ~Inside(t) /\ ~Inside(t)'
                              \/ Inside(t) /\ Inside(t)' /\ page'[t] = page[t]
    PROVE  Holder' = Holder
BY DEF Holder

\* Every step of the lock enters a body, leaves bodies or stutters.
LEMMA LockStepRefines ==
    FlockIsSound /\ LockInv /\ LockInv' /\ [Next]_vars => [Mutex!MutexNext]_Holder
<1> SUFFICES ASSUME FlockIsSound, LockInv, LockInv', [Next]_vars  PROVE [Mutex!MutexNext]_Holder
  OBVIOUS
<1> USE PageLockAssumption
<1>0. /\ TypeOK /\ Phases
      /\ depth \in [Threads -> Nat] /\ page \in [Threads -> Pages \cup {None}]
      /\ MutualExclusion'
  BY LockInvExcludes, PTL DEF LockInv, FlockInv, TypeOK
<1>1. ASSUME NEW t \in Threads, NEW p \in Pages, NEW probe \in BOOLEAN, Lookup(t, p, probe)
      PROVE  Holder' = Holder
  BY <1>0, <1>1, SameInsideSameHolder DEF Phases, Phase, Lookup, Inside
<1>2. ASSUME NEW t \in Threads, TakeThreadLock(t)  PROVE Holder' = Holder
  <2>1. CASE depth[t] > 0
    <3>1. depth' = [depth EXCEPT ![t] = @ + 1] /\ page' = page
      BY <1>2, <2>1 DEF TakeThreadLock
    <3> QED  BY <1>0, <2>1, <3>1, SameInsideSameHolder DEF Inside
  <2>2. CASE ~(depth[t] > 0)
    <3>1. HasFcntl  BY DEF FlockIsSound
    <3>2. UNCHANGED <<depth, page>>
      BY <1>2, <2>2, <3>1 DEF TakeThreadLock
    <3> QED  BY <3>2 DEF Holder, Inside
  <2> QED  BY <2>1, <2>2
<1>3. ASSUME NEW t \in Threads, MissThreadLock(t)  PROVE Holder' = Holder
  BY <1>0, <1>3, SameInsideSameHolder DEF MissThreadLock, Inside
<1>4. ASSUME NEW t \in Threads, OpenSidecar(t) \/ MissFlock(t) \/ RejectFlock(t)
      PROVE  Holder' = Holder
  BY <1>4 DEF Holder, Inside, OpenSidecar, MissFlock, RejectFlock
<1>5. ASSUME NEW t \in Threads, TakeFlock(t) \/ DegradeFlock(t)
      PROVE  Holder' = Holder \/ Mutex!MutexNext
  <2>1. page' = page /\ pc[t] = "flock" /\ depth' = [depth EXCEPT ![t] = IF probing[t] THEN 0 ELSE 1]
    BY <1>5 DEF TakeFlock, DegradeFlock, PastFlock
  <2>2. depth[t] = 0 /\ page[t] \in Pages
    BY <1>0, <2>1 DEF Phases, Phase
  <2>3. CASE probing[t]
    BY <1>0, <2>1, <2>2, <2>3 DEF Holder, Inside
  <2>4. CASE ~probing[t]
    <3>1. \A u \in Threads : Inside(u)' <=> Inside(u) \/ u = t
      BY <1>0, <2>1, <2>2, <2>4 DEF Inside
    <3>2. Holder[page[t]] = {}
      BY <1>0, <2>1, <2>2, <3>1 DEF Holder, MutualExclusion, Inside
    <3>3. Holder' = [Holder EXCEPT ![page[t]] = {t}]
      BY <2>1, <2>2, <3>1, <3>2 DEF Holder
    <3> QED  BY <2>2, <3>2, <3>3 DEF Mutex!MutexNext, Mutex!Enter, Holder
  <2> QED  BY <2>3, <2>4
<1>6. ASSUME NEW t \in Threads, LeaveNested(t)  PROVE Holder' = Holder
  <2>1. depth' = [depth EXCEPT ![t] = @ - 1] /\ depth[t] > 1 /\ page' = page
    BY <1>6 DEF LeaveNested
  <2> QED  BY <1>0, <2>1, SameInsideSameHolder DEF Inside
<1>7. ASSUME NEW t \in Threads, ReleaseFlock(t)  PROVE Mutex!MutexNext
  <2>1. depth' = [depth EXCEPT ![t] = 0] /\ page' = page
    BY <1>7 DEF ReleaseFlock
  <2>2. \A u \in Threads : Inside(u)' <=> Inside(u) /\ u # t
    BY <1>0, <2>1 DEF Inside
  <2>3. Holder' = [p \in Pages |-> Holder[p] \ {t}]
    BY <2>1, <2>2 DEF Holder
  <2>4. Mutex!Leave({t})
    BY <2>3 DEF Mutex!Leave, Holder
  <2> QED  BY <2>4 DEF Mutex!MutexNext
<1>8. ASSUME NEW t \in Threads, ReleaseThreadLock(t)  PROVE Holder' = Holder
  BY <1>0, <1>8, SameInsideSameHolder DEF Phases, Phase, ReleaseThreadLock, Inside
<1>9. ASSUME NEW pr \in Processes, ClearPageWriteLocks(pr) \/ Exit(pr) \/ Start(pr)
      PROVE  Holder' = Holder
  BY <1>9 DEF ClearPageWriteLocks, Exit, Start, threadVars, Holder, Inside
<1>10. ASSUME NEW pr \in Processes, Crash(pr)
       PROVE  Holder' = Holder \/ Mutex!MutexNext
  <2>1. \A u \in Threads : IF u \in ThreadsOf(pr) THEN depth'[u] = 0
                           ELSE depth'[u] = depth[u] /\ page'[u] = page[u]
    BY <1>10 DEF Crash
  <2>2. Holder' = [p \in Pages |-> Holder[p] \ ThreadsOf(pr)]
    BY <2>1 DEF Holder, Inside
  <2>3. CASE ThreadsOf(pr) = {}
    BY <2>2, <2>3 DEF Holder
  <2>4. CASE ThreadsOf(pr) # {}
    <3>1. Mutex!Leave(ThreadsOf(pr))
      BY <2>2, <2>4 DEF Mutex!Leave, Holder
    <3> QED  BY <3>1 DEF Mutex!MutexNext, ThreadsOf
  <2> QED  BY <2>3, <2>4
<1>11. ASSUME NEW pr \in Processes, NEW p \in Pages, SweepSidecar(pr, p)  PROVE Holder' = Holder
  BY <1>11 DEF SweepSidecar, threadVars, Holder, Inside
<1>12. CASE UNCHANGED vars
  BY <1>12 DEF vars, Holder, Inside
<1>13. Holder' = Holder \/ Mutex!MutexNext
  BY <1>1, <1>2, <1>3, <1>4, <1>5, <1>6, <1>7, <1>8, <1>9, <1>10, <1>11, <1>12
     DEF Next, ThreadStep
<1> QED  BY <1>13

\* Where flock excludes and no sidecar is swept, the two-layer lock implements
\* the mutex its callers rely on.
THEOREM LockImplementsMutex == FlockIsSound => (Spec => ImplementsMutex)
<1> SUFFICES ASSUME FlockIsSound  PROVE Spec => ImplementsMutex
  OBVIOUS
<1>1. Init => Mutex!MutexInit
  BY DEF Init, Mutex!MutexInit, Inside
<1>2. LockInv /\ LockInv' /\ [Next]_vars => [Mutex!MutexNext]_Holder
  BY LockStepRefines
<1> QED  BY <1>1, <1>2, LockInvHolds, PTL DEF Spec, ImplementsMutex, Mutex!MutexSpec, Holder

-----------------------------------------------------------------------------
(* The threads of one process, where no RLock in use is forgotten: every   *)
(* page has room in the registry, and who clears it has no thread at work. *)

RLocksAreKept ==
    /\ IsFiniteSet(Pages) /\ Cardinality(Pages) <= RegistryCap
    /\ Stoppers = Sweepers

\* A registry has one row per page.
OneRowPerPage(s) == \A i, j \in 1..Len(s) : s[i].page = s[j].page => i = j
HasRow(s, p, l) == \E i \in 1..Len(s) : s[i] = [page |-> p, lock |-> l]

RegistryRows == \A pr \in Processes : OneRowPerPage(registry[pr])

\* A thread has taken its RLock as often as it is inside.
HeldOften ==
    \A t \in Threads :
        /\ pc[t] = "idle" => held[t] = <<>>
        /\ pc[t] \in {"thread", "body"} => Len(held[t]) = depth[t]
        /\ pc[t] \in {"open", "flock"} => Len(held[t]) = 1

\* The RLock a thread is about to take, and those it has, are the one the
\* registry has for its page.
LockOfPage ==
    \A t \in Threads :
        /\ pc[t] = "thread" => HasRow(registry[ProcOf[t]], page[t], cand[t])
        /\ \A l \in HeldBy(t) : HasRow(registry[ProcOf[t]], page[t], l)

\* An RLock has one owner.
OneOwner == \A t, u \in Threads : t # u => HeldBy(t) \cap HeldBy(u) = {}

ThreadInv == FlockInv /\ RegistryRows /\ HeldOften /\ LockOfPage /\ OneOwner

\* There is room for a page without a row.
LEMMA RoomForEveryPage ==
    ASSUME RLocksAreKept, NEW s \in Seq(Entry), OneRowPerPage(s),
           NEW p \in Pages, RowsOf(s, p) = {}
    PROVE  Len(s) < RegistryCap
<1> DEFINE f == [i \in 1..Len(s) |-> s[i].page]
           others == Pages \ {p}
<1>1. Len(s) \in Nat /\ Cardinality(Pages) \in Nat
  BY LenProperties, FS_CardinalityType DEF RLocksAreKept
<1>2. IsFiniteSet(others) /\ Cardinality(others) = Cardinality(Pages) - 1
  BY FS_RemoveElement DEF RLocksAreKept
<1>3. IsFiniteSet(1..Len(s)) /\ Cardinality(1..Len(s)) = Len(s)
  <2>1. 1 \in Int /\ Len(s) \in Int  BY <1>1
  <2>2. /\ IsFiniteSet(1..Len(s))
        /\ Cardinality(1..Len(s)) = IF 1 > Len(s) THEN 0 ELSE Len(s) - 1 + 1
    BY <2>1, FS_Interval, Zenon
  <2> QED  BY <1>1, <2>2
<1>4. f \in [1..Len(s) -> others]
  <2>1. ASSUME NEW i \in 1..Len(s)  PROVE s[i].page \in others
    <3>1. s[i] \in Entry  BY ElementOfSeq
    <3> QED  BY <3>1 DEF Entry, RowsOf
  <2> QED  BY <2>1
<1>5. \A x, y \in 1..Len(s) : f[x] = f[y] => x = y
  BY DEF OneRowPerPage
<1> HIDE DEF f, others
<1>6. ~(Cardinality(others) < Cardinality(1..Len(s)))
  BY <1>2, <1>3, <1>4, <1>5, FS_PigeonHole
<1> QED  BY <1>1, <1>2, <1>3, <1>6, PageLockAssumption DEF RLocksAreKept

\* Taking the row of an element out and putting it back last keeps the rows.
LEMMA MoveToEnd ==
    ASSUME NEW s \in Seq(Entry), NEW i \in 1..Len(s)
    PROVE  LET r == Append(Without(s, i), s[i])
           IN  /\ Len(r) = Len(s)
               /\ \A j \in 1..Len(s) :
                     r[j] = IF j < i THEN s[j] ELSE IF j = Len(s) THEN s[i] ELSE s[j + 1]
<1> DEFINE a == SubSeq(s, 1, i - 1)
           b == SubSeq(s, i + 1, Len(s))
<1>1. Len(s) \in Nat  BY LenProperties
<1>2. a \in Seq(Entry) /\ Len(a) = i - 1 /\ \A k \in 1..(i - 1) : a[k] = s[k]
  <2>1. \A k \in 1..(i - 1) : s[k] \in Entry  BY ElementOfSeq
  <2> QED  BY <1>1, <2>1, SubSeqProperties
<1>3. b \in Seq(Entry) /\ Len(b) = Len(s) - i /\ \A k \in 1..(Len(s) - i) : b[k] = s[k + i]
  <2>1. \A k \in (i + 1)..Len(s) : s[k] \in Entry  BY ElementOfSeq
  <2>2. /\ b \in Seq(Entry)
        /\ Len(b) = IF i + 1 <= Len(s) THEN Len(s) - (i + 1) + 1 ELSE 0
        /\ \A k \in 1..(Len(s) - (i + 1) + 1) : b[k] = s[(i + 1) + k - 1]
    BY <1>1, <2>1, SubSeqProperties
  <2> QED  BY <1>1, <2>2
<1> HIDE DEF a, b
<1>4. /\ a \o b \in Seq(Entry) /\ Len(a \o b) = Len(s) - 1
      /\ \A k \in 1..(Len(s) - 1) : (a \o b)[k] = IF k < i THEN s[k] ELSE s[k + 1]
  <2>1. /\ a \o b \in Seq(Entry) /\ Len(a \o b) = Len(a) + Len(b)
        /\ \A k \in 1..(Len(a) + Len(b)) :
              (a \o b)[k] = IF k <= Len(a) THEN a[k] ELSE b[k - Len(a)]
    BY <1>2, <1>3, ConcatProperties
  <2>2. ASSUME NEW k \in 1..(Len(s) - 1), ~(k < i)
        PROVE  b[k - (i - 1)] = s[k + 1]
    <3>1. k - (i - 1) \in 1..(Len(s) - i)  BY <1>1, <2>2
    <3> QED  BY <1>1, <1>3, <2>2, <3>1
  <2> QED  BY <1>1, <1>2, <1>3, <2>1, <2>2
<1>5. s[i] \in Entry  BY ElementOfSeq
<1>6. Without(s, i) = a \o b  BY DEF Without, a, b
<1> QED  BY <1>1, <1>4, <1>5, <1>6, AppendProperties

\* A lookup keeps one row per page and every RLock the registry has, and
\* returns the RLock of the page.
LEMMA LookupKeepsRows ==
    ASSUME NEW s \in Seq(Entry), OneRowPerPage(s), NEW p \in Pages, NEW fresh \in LockIds,
           RowsOf(s, p) # {} \/ Len(s) < RegistryCap
    PROVE  LET r == LockForKey(s, p, fresh)
           IN  /\ OneRowPerPage(r.reg) /\ HasRow(r.reg, p, r.lock)
               /\ \A q, l : HasRow(s, q, l) => HasRow(r.reg, q, l)
<1>1. Len(s) \in Nat  BY LenProperties
<1>2. CASE RowsOf(s, p) # {}
  <2> DEFINE i == Oldest(RowsOf(s, p))
             r == Append(Without(s, i), s[i])
  <2>1. i \in 1..Len(s) /\ s[i].page = p
    <3>1. RowsOf(s, p) \in SUBSET Nat  BY DEF RowsOf
    <3> QED  BY <1>2, <3>1, OldestIsLeast DEF RowsOf
  <2> HIDE DEF i
  <2>2. /\ Len(r) = Len(s)
        /\ \A j \in 1..Len(s) :
              r[j] = IF j < i THEN s[j] ELSE IF j = Len(s) THEN s[i] ELSE s[j + 1]
    BY <2>1, MoveToEnd
  <2> HIDE DEF r
  <2>3. OneRowPerPage(r)
    <3> SUFFICES ASSUME NEW j \in 1..Len(s), NEW k \in 1..Len(s), r[j].page = r[k].page
                 PROVE  j = k
      BY <2>2 DEF OneRowPerPage
    <3> DEFINE from(x) == IF x < i THEN x ELSE IF x = Len(s) THEN i ELSE x + 1
    <3>1. /\ from(j) \in 1..Len(s) /\ r[j] = s[from(j)]
          /\ from(k) \in 1..Len(s) /\ r[k] = s[from(k)]
      BY <1>1, <2>1, <2>2
    <3>2. from(j) = from(k)  BY <3>1 DEF OneRowPerPage
    <3> QED  BY <1>1, <2>1, <3>2
  <2>4. ASSUME NEW k \in 1..Len(s)  PROVE \E j \in 1..Len(r) : r[j] = s[k]
    <3>1. CASE k < i  BY <1>1, <2>1, <2>2, <3>1
    <3>2. CASE k = i
      <4>1. r[Len(s)] = s[k] /\ Len(s) \in 1..Len(r)  BY <1>1, <2>1, <2>2, <3>2
      <4> QED  BY <4>1
    <3>3. CASE k > i
      <4>1. k - 1 \in 1..Len(r) /\ r[k - 1] = s[k]  BY <1>1, <2>1, <2>2, <3>3
      <4> QED  BY <4>1
    <3> QED  BY <2>1, <3>1, <3>2, <3>3
  <2>5. LockForKey(s, p, fresh) = [reg |-> r, lock |-> s[i].lock]
    BY <1>2 DEF LockForKey, i, r
  <2>6. \A q, l : HasRow(s, q, l) => HasRow(r, q, l)  BY <2>4 DEF HasRow
  <2>7. s[i] = [page |-> p, lock |-> s[i].lock]
    <3>1. s[i] \in Entry  BY <2>1, ElementOfSeq
    <3> QED  BY <2>1, <3>1 DEF Entry
  <2>8. HasRow(s, p, s[i].lock)  BY <2>1, <2>7 DEF HasRow
  <2> QED  BY <2>3, <2>5, <2>6, <2>8
<1>3. CASE RowsOf(s, p) = {} /\ Len(s) < RegistryCap
  <2> DEFINE row == [page |-> p, lock |-> fresh]
             r == Append(s, row)
  <2>1. row \in Entry  BY DEF Entry
  <2>2. Len(r) = Len(s) + 1 /\ r[Len(s) + 1] = row /\ \A j \in 1..Len(s) : r[j] = s[j]
    BY <2>1, AppendProperties
  <2>3. LockForKey(s, p, fresh) = [reg |-> r, lock |-> fresh]
    BY <1>3 DEF LockForKey
  <2> HIDE DEF r
  <2>4. \A j \in 1..Len(s) : s[j].page # p  BY <1>3 DEF RowsOf
  <2>5. OneRowPerPage(r)  BY <1>1, <2>2, <2>4 DEF OneRowPerPage
  <2>6. HasRow(r, p, fresh)  BY <1>1, <2>2 DEF HasRow
  <2>7. \A q, l : HasRow(s, q, l) => HasRow(r, q, l)  BY <1>1, <2>2 DEF HasRow
  <2> QED  BY <2>3, <2>5, <2>6, <2>7
<1> QED  BY <1>2, <1>3

\* What a thread holds after it has taken one more RLock, or given one back.
LEMMA HeldByMore ==
    ASSUME NEW s \in Seq(LockIds), NEW l \in LockIds
    PROVE  /\ Len(Append(s, l)) = Len(s) + 1
           /\ {Append(s, l)[i] : i \in DOMAIN Append(s, l)} = {s[i] : i \in DOMAIN s} \cup {l}
<1>1. Len(s) \in Nat /\ DOMAIN s = 1..Len(s)  BY LenProperties
<1>2. /\ Append(s, l) \in Seq(LockIds) /\ Len(Append(s, l)) = Len(s) + 1
      /\ \A i \in 1..Len(s) : Append(s, l)[i] = s[i]
      /\ Append(s, l)[Len(s) + 1] = l
  BY AppendProperties
<1>3. DOMAIN Append(s, l) = 1..(Len(s) + 1)  BY <1>2, LenProperties
<1> QED  BY <1>1, <1>2, <1>3

\* Giving back takes from the end.
LEMMA HeldByLess ==
    ASSUME NEW s \in Seq(LockIds), Len(s) > 0
    PROVE  LET r == SubSeq(s, 1, Len(s) - 1)
           IN  Len(r) = Len(s) - 1 /\ {r[i] : i \in DOMAIN r} \subseteq {s[i] : i \in DOMAIN s}
<1> DEFINE r == SubSeq(s, 1, Len(s) - 1)
<1>1. Len(s) \in Nat /\ DOMAIN s = 1..Len(s)  BY LenProperties
<1>2. /\ r \in Seq(LockIds) /\ Len(r) = Len(s) - 1
      /\ \A i \in 1..(Len(s) - 1) : r[i] = s[i]
  <2>1. \A i \in 1..(Len(s) - 1) : s[i] \in LockIds  BY <1>1, ElementOfSeq
  <2> QED  BY <1>1, <2>1, SubSeqProperties
<1>3. DOMAIN r = 1..(Len(s) - 1)  BY <1>2, LenProperties
<1> QED  BY <1>1, <1>2, <1>3

\* Who has taken nothing holds nothing.
LEMMA HeldByNone == \A t \in Threads : held[t] = <<>> => HeldBy(t) = {}
BY DEF HeldBy

\* Every step keeps the count of the RLocks a thread has taken.
LEMMA HeldOftenStep == FlockInv /\ HeldOften /\ [Next]_vars => HeldOften'
<1> SUFFICES ASSUME FlockInv, HeldOften, [Next]_vars  PROVE HeldOften'
  OBVIOUS
<1> USE PageLockAssumption
<1>0. TypeOK /\ HasCandidate /\ Phases  BY DEF FlockInv
<1> DEFINE Counts(t) == /\ pc[t] = "idle" => held[t] = <<>>
                        /\ pc[t] \in {"thread", "body"} => Len(held[t]) = depth[t]
                        /\ pc[t] \in {"open", "flock"} => Len(held[t]) = 1
<1>1. ASSUME NEW t \in Threads, Counts(t)',
             \A u \in Threads \ {t} : UNCHANGED <<pc[u], held[u], depth[u]>>
      PROVE  HeldOften'
  BY <1>1 DEF HeldOften
<1>2. ASSUME NEW t \in Threads, NEW p \in Pages, NEW probe \in BOOLEAN, Lookup(t, p, probe)
      PROVE  HeldOften'
  <2>1. Len(held[t]) = depth[t]
    BY <1>0, <1>2 DEF HeldOften, Lookup, Phases, Phase
  <2> QED  BY <1>0, <1>1, <1>2, <2>1 DEF Lookup, TypeOK
<1>3. ASSUME NEW t \in Threads, TakeThreadLock(t)  PROVE HeldOften'
  <2>1. cand[t] \in LockIds /\ held[t] \in Seq(LockIds) /\ depth[t] \in Nat
    BY <1>0, <1>3 DEF TypeOK, HasCandidate, TakeThreadLock
  <2>2. held'[t] = Append(held[t], cand[t])  BY <1>0, <1>3 DEF TakeThreadLock, TypeOK
  <2>3. Len(held'[t]) = depth[t] + 1
    BY <1>3, <2>1, <2>2, HeldByMore DEF HeldOften, TakeThreadLock
  <2>4. \A u \in Threads \ {t} : UNCHANGED <<pc[u], held[u], depth[u]>>
    BY <1>0, <1>3 DEF TakeThreadLock, TypeOK
  <2>5. CASE depth[t] > 0 \/ (~HasFcntl /\ ~probing[t])
    <3>1. pc'[t] = "body" /\ depth'[t] = depth[t] + 1
      BY <1>0, <1>3, <2>5 DEF TakeThreadLock, TypeOK
    <3> QED  BY <1>1, <2>3, <2>4, <3>1
  <2>6. CASE ~(depth[t] > 0 \/ (~HasFcntl /\ ~probing[t]))
    <3>1. pc'[t] \in {"open", "release"} /\ depth[t] = 0
      BY <1>0, <1>3, <2>1, <2>6 DEF TakeThreadLock, TypeOK
    <3> QED  BY <1>1, <2>3, <2>4, <3>1
  <2> QED  BY <2>5, <2>6
<1>4. ASSUME NEW t \in Threads, MissThreadLock(t)  PROVE HeldOften'
  <2>1. held[t] \in Seq(LockIds) /\ Len(held[t]) = depth[t] /\ depth[t] \in Nat
    BY <1>0, <1>4 DEF MissThreadLock, HeldOften, TypeOK
  <2>2. depth[t] = 0 => held[t] = <<>>  BY <2>1, EmptySeq
  <2>3. /\ UNCHANGED <<held, depth>>
        /\ pc'[t] = "thread" \/ pc'[t] = IF depth[t] > 0 THEN "body" ELSE "idle"
        /\ \A u \in Threads \ {t} : pc'[u] = pc[u]
    BY <1>0, <1>4 DEF MissThreadLock, TypeOK
  <2> QED  BY <1>1, <2>1, <2>2, <2>3
<1>5. ASSUME NEW t \in Threads, TakeFlock(t) \/ DegradeFlock(t)  PROVE HeldOften'
  <2>1. Len(held[t]) = 1 /\ held' = held /\ pc'[t] \in {"unflock", "body"}
        /\ (pc'[t] = "body" => depth'[t] = 1)
    BY <1>0, <1>5 DEF TakeFlock, DegradeFlock, PastFlock, HeldOften, TypeOK
  <2>2. \A u \in Threads \ {t} : UNCHANGED <<pc[u], held[u], depth[u]>>
    BY <1>0, <1>5 DEF TakeFlock, DegradeFlock, PastFlock, TypeOK
  <2> QED  BY <1>1, <2>1, <2>2
<1>6. ASSUME NEW t \in Threads, OpenSidecar(t) \/ MissFlock(t) \/ RejectFlock(t)  PROVE HeldOften'
  BY <1>0, <1>6 DEF OpenSidecar, MissFlock, RejectFlock, HeldOften, TypeOK
<1>7. ASSUME NEW t \in Threads, LeaveNested(t)  PROVE HeldOften'
  <2>1. held[t] \in Seq(LockIds) /\ Len(held[t]) = depth[t] /\ depth[t] \in Nat /\ depth[t] > 1
    BY <1>0, <1>7 DEF LeaveNested, HeldOften, TypeOK
  <2>2. /\ held'[t] = SubSeq(held[t], 1, Len(held[t]) - 1) /\ depth'[t] = depth[t] - 1
        /\ pc' = pc /\ pc[t] = "body"
        /\ \A u \in Threads \ {t} : UNCHANGED <<held[u], depth[u]>>
    BY <1>0, <1>7 DEF LeaveNested, TypeOK
  <2>3. Len(held'[t]) = depth'[t]  BY <2>1, <2>2, HeldByLess
  <2> QED  BY <1>1, <2>2, <2>3
<1>8. ASSUME NEW t \in Threads, ReleaseFlock(t) \/ ReleaseThreadLock(t)  PROVE HeldOften'
  BY <1>0, <1>8 DEF ReleaseFlock, ReleaseThreadLock, HeldOften, TypeOK
<1>9. ASSUME NEW pr \in Processes, ClearPageWriteLocks(pr) \/ Exit(pr) \/ Start(pr)
      PROVE  HeldOften'
  BY <1>9 DEF HeldOften, ClearPageWriteLocks, Exit, Start, threadVars
<1>10. ASSUME NEW pr \in Processes, Crash(pr)  PROVE HeldOften'
  <2>1. \A u \in Threads : \/ pc'[u] = "idle" /\ held'[u] = <<>>
                           \/ UNCHANGED <<pc[u], held[u], depth[u]>>
    BY <1>10 DEF Crash
  <2> QED  BY <2>1 DEF HeldOften
<1>11. ASSUME NEW pr \in Processes, NEW p \in Pages, SweepSidecar(pr, p)  PROVE HeldOften'
  BY <1>11 DEF HeldOften, SweepSidecar, threadVars
<1>12. CASE UNCHANGED vars
  BY <1>12 DEF HeldOften, vars
<1> QED
  BY <1>2, <1>3, <1>4, <1>5, <1>6, <1>7, <1>8, <1>9, <1>10, <1>11, <1>12 DEF Next, ThreadStep

\* Every step keeps the registry of a process in agreement with its threads.
LEMMA LockOfPageStep ==
    RLocksAreKept /\ FlockInv /\ RegistryRows /\ HeldOften /\ LockOfPage /\ [Next]_vars =>
        RegistryRows' /\ LockOfPage'
<1> SUFFICES ASSUME RLocksAreKept, FlockInv, RegistryRows, HeldOften, LockOfPage, [Next]_vars
             PROVE  RegistryRows' /\ LockOfPage'
  OBVIOUS
<1> USE PageLockAssumption
<1>0. TypeOK /\ HasCandidate /\ Phases  BY DEF FlockInv
<1> DEFINE Agrees(t) == /\ pc[t] = "thread" => HasRow(registry[ProcOf[t]], page[t], cand[t])
                        /\ \A l \in HeldBy(t) : HasRow(registry[ProcOf[t]], page[t], l)
<1>1. ASSUME NEW t \in Threads, registry' = registry, Agrees(t)',
             \A u \in Threads \ {t} : UNCHANGED <<pc[u], page[u], cand[u], held[u]>>
      PROVE  RegistryRows' /\ LockOfPage'
  BY <1>1 DEF RegistryRows, LockOfPage, HeldBy
<1>2. ASSUME registry' = registry, UNCHANGED <<pc, page, cand, held>>
      PROVE  RegistryRows' /\ LockOfPage'
  BY <1>2 DEF RegistryRows, LockOfPage, HeldBy
<1>3. ASSUME NEW t \in Threads, NEW p \in Pages, NEW probe \in BOOLEAN, Lookup(t, p, probe)
      PROVE  RegistryRows' /\ LockOfPage'
  <2> DEFINE pr == ProcOf[t]
             s == registry[pr]
  <2>1. PICK fresh \in FreshLocks :
           LET r == LockForKey(s, p, fresh)
           IN  /\ registry' = [registry EXCEPT ![pr] = r.reg]
               /\ cand' = [cand EXCEPT ![t] = r.lock]
    BY <1>3 DEF Lookup
  <2> DEFINE r == LockForKey(s, p, fresh)
  <2>2. s \in Seq(Entry) /\ OneRowPerPage(s) /\ pr \in Processes
    BY <1>0 DEF TypeOK, RegistryRows
  <2>3. RowsOf(s, p) # {} \/ Len(s) < RegistryCap  BY <2>2, RoomForEveryPage
  <2>4. /\ OneRowPerPage(r.reg) /\ HasRow(r.reg, p, r.lock)
        /\ \A q, l : HasRow(s, q, l) => HasRow(r.reg, q, l)
    BY <2>2, <2>3, LookupKeepsRows DEF FreshLocks
  <2> HIDE DEF r
  <2>5. registry'[pr] = r.reg /\ cand'[t] = r.lock
        /\ \A q \in Processes \ {pr} : registry'[q] = registry[q]
    BY <1>0, <2>1, <2>2 DEF r, TypeOK
  <2>6. RegistryRows'  BY <2>4, <2>5 DEF RegistryRows
  <2>7. \A u \in Threads : \A q, l : HasRow(registry[ProcOf[u]], q, l)
                                 => HasRow(registry'[ProcOf[u]], q, l)
    BY <2>4, <2>5
  <2>8. held' = held /\ page'[t] = p /\ \A u \in Threads \ {t} : UNCHANGED <<pc[u], page[u], cand[u]>>
    BY <1>0, <1>3, <2>1 DEF Lookup, TypeOK
  <2>9. ASSUME NEW l \in HeldBy(t)'  PROVE HasRow(registry'[pr], p, l)
    <3>1. CASE pc[t] = "idle"
      BY <2>8, <2>9, <3>1, HeldByNone DEF HeldOften, HeldBy
    <3>2. CASE pc[t] = "body" /\ page[t] = p
      <4>1. HasRow(registry[pr], p, l)  BY <2>8, <2>9, <3>2 DEF LockOfPage, HeldBy
      <4> QED  BY <2>7, <4>1
    <3> QED  BY <1>3, <3>1, <3>2 DEF Lookup
  <2>10. Agrees(t)'  BY <2>4, <2>5, <2>8, <2>9
  <2>11. ASSUME NEW u \in Threads, u # t  PROVE Agrees(u)'
    BY <2>7, <2>8, <2>11 DEF LockOfPage, HeldBy
  <2>12. LockOfPage'  BY <2>10, <2>11 DEF LockOfPage
  <2> QED  BY <2>6, <2>12
<1>4. ASSUME NEW t \in Threads, TakeThreadLock(t)  PROVE RegistryRows' /\ LockOfPage'
  <2>1. cand[t] \in LockIds /\ held[t] \in Seq(LockIds)
    BY <1>0, <1>4 DEF TypeOK, HasCandidate, TakeThreadLock
  <2>2. held'[t] = Append(held[t], cand[t]) /\ pc'[t] # "thread" /\ pc[t] = "thread"
        /\ UNCHANGED <<registry, page>>
        /\ \A u \in Threads \ {t} : UNCHANGED <<pc[u], page[u], cand[u], held[u]>>
    <3>1. pc'[t] # "thread" /\ \A u \in Threads \ {t} : pc'[u] = pc[u]
      BY <1>0, <1>4 DEF TakeThreadLock, TypeOK
    <3> QED  BY <1>0, <1>4, <3>1 DEF TakeThreadLock, TypeOK
  <2>3. HeldBy(t)' = HeldBy(t) \cup {cand[t]}
    <3>1. held'[t] = Append(held[t], cand[t])  BY <2>2
    <3> DEFINE more == Append(held[t], cand[t])
    <3>2. {more[i] : i \in DOMAIN more} = {held[t][i] : i \in DOMAIN held[t]} \cup {cand[t]}
      BY <2>1, HeldByMore
    <3> HIDE DEF more
    <3>3. held'[t] = more  BY <3>1 DEF more
    <3> QED  BY <3>2, <3>3 DEF HeldBy
  <2>4. Agrees(t)'  BY <2>2, <2>3 DEF LockOfPage
  <2> QED  BY <1>1, <2>2, <2>4
<1>5. ASSUME NEW t \in Threads, MissThreadLock(t)  PROVE RegistryRows' /\ LockOfPage'
  <2>1. held[t] \in Seq(LockIds) /\ Len(held[t]) = depth[t] /\ depth[t] \in Nat
    BY <1>0, <1>5 DEF MissThreadLock, HeldOften, TypeOK
  <2>2. depth[t] = 0 => held[t] = <<>>  BY <2>1, EmptySeq
  <2>3. UNCHANGED <<held, registry>>
        /\ \A u \in Threads \ {t} : UNCHANGED <<pc[u], page[u], cand[u]>>
    BY <1>0, <1>5 DEF MissThreadLock, TypeOK
  <2>4. CASE ~LastTry(t)
    BY <1>2, <1>5, <2>3, <2>4 DEF MissThreadLock
  <2>5. CASE LastTry(t)
    <3>1. pc'[t] # "thread" /\ (depth[t] > 0 => page'[t] = page[t])
      BY <1>0, <1>5, <2>5 DEF MissThreadLock, TypeOK
    <3>2. HeldBy(t)' = HeldBy(t)  BY <2>3 DEF HeldBy
    <3>3. CASE depth[t] = 0
      <4>1. HeldBy(t) = {}  BY <2>2, <3>3, HeldByNone
      <4> QED  BY <1>1, <2>3, <3>1, <3>2, <4>1
    <3>4. CASE depth[t] > 0
      <4>1. Agrees(t)'  BY <2>3, <3>1, <3>2, <3>4 DEF LockOfPage
      <4> QED  BY <1>1, <2>3, <4>1
    <3> QED  BY <2>1, <3>3, <3>4
  <2> QED  BY <2>4, <2>5
<1>6. ASSUME NEW t \in Threads,
             \/ OpenSidecar(t) \/ TakeFlock(t) \/ DegradeFlock(t) \/ MissFlock(t)
             \/ RejectFlock(t) \/ ReleaseFlock(t)
      PROVE  RegistryRows' /\ LockOfPage'
  <2>1. /\ UNCHANGED <<registry, page, cand, held>>
        /\ \A u \in Threads \ {t} : pc'[u] = pc[u]
        /\ pc'[t] # "thread"
    BY <1>0, <1>6 DEF OpenSidecar, TakeFlock, DegradeFlock, PastFlock, MissFlock, RejectFlock,
       ReleaseFlock, TypeOK
  <2> QED  BY <1>1, <2>1 DEF LockOfPage, HeldBy
<1>7. ASSUME NEW t \in Threads, LeaveNested(t)  PROVE RegistryRows' /\ LockOfPage'
  <2>1. held[t] \in Seq(LockIds) /\ Len(held[t]) = depth[t] /\ depth[t] \in Nat /\ depth[t] > 1
    BY <1>0, <1>7 DEF LeaveNested, HeldOften, TypeOK
  <2>2. /\ held'[t] = SubSeq(held[t], 1, Len(held[t]) - 1)
        /\ UNCHANGED <<registry, pc, page, cand>> /\ pc[t] = "body"
        /\ \A u \in Threads \ {t} : held'[u] = held[u]
    BY <1>0, <1>7 DEF LeaveNested, TypeOK
  <2>3. HeldBy(t)' \subseteq HeldBy(t)  BY <2>1, <2>2, HeldByLess DEF HeldBy
  <2>4. Agrees(t)'  BY <2>2, <2>3 DEF LockOfPage
  <2> QED  BY <1>1, <2>2, <2>4
<1>8. ASSUME NEW t \in Threads, ReleaseThreadLock(t)  PROVE RegistryRows' /\ LockOfPage'
  <2>1. /\ held'[t] = <<>> /\ pc'[t] = "idle" /\ UNCHANGED <<registry, cand>>
        /\ \A u \in Threads \ {t} : UNCHANGED <<pc[u], page[u], held[u]>>
    BY <1>0, <1>8 DEF ReleaseThreadLock, TypeOK
  <2>2. HeldBy(t)' = {}  BY <2>1 DEF HeldBy
  <2> QED  BY <1>1, <2>1, <2>2
<1>9. ASSUME NEW pr \in Processes, registry' = [registry EXCEPT ![pr] = <<>>],
             \A t \in ThreadsOf(pr) : pc'[t] = "idle" /\ held'[t] = <<>>,
             \A t \in Threads \ ThreadsOf(pr) : UNCHANGED <<pc[t], page[t], cand[t], held[t]>>
      PROVE  RegistryRows' /\ LockOfPage'
  <2>1. registry'[pr] = <<>> /\ \A q \in Processes \ {pr} : registry'[q] = registry[q]
    BY <1>0, <1>9 DEF TypeOK
  <2>2. RegistryRows'  BY <2>1 DEF RegistryRows, OneRowPerPage
  <2>3. ASSUME NEW t \in Threads  PROVE Agrees(t)'
    <3>1. CASE t \in ThreadsOf(pr)  BY <1>9, <3>1 DEF HeldBy
    <3>2. CASE t \notin ThreadsOf(pr)
      <4>1. registry'[ProcOf[t]] = registry[ProcOf[t]]  BY <2>1, <3>2 DEF ThreadsOf
      <4>2. UNCHANGED <<pc[t], page[t], cand[t], held[t]>>  BY <1>9, <3>2
      <4> QED  BY <4>1, <4>2 DEF LockOfPage, HeldBy
    <3> QED  BY <3>1, <3>2
  <2> QED  BY <2>2, <2>3 DEF LockOfPage
<1>10. ASSUME NEW pr \in Processes, ClearPageWriteLocks(pr) \/ Exit(pr)
       PROVE  RegistryRows' /\ LockOfPage'
  <2>1. \A t \in ThreadsOf(pr) : pc[t] = "idle"
    BY <1>10 DEF ClearPageWriteLocks, Exit, RLocksAreKept
  <2>2. UNCHANGED <<pc, page, cand, held>> /\ registry' = [registry EXCEPT ![pr] = <<>>]
    BY <1>10 DEF ClearPageWriteLocks, Exit, threadVars
  <2>3. \A t \in ThreadsOf(pr) : held[t] = <<>>  BY <2>1 DEF HeldOften, ThreadsOf
  <2> QED  BY <1>9, <2>1, <2>2, <2>3
<1>11. ASSUME NEW pr \in Processes, Crash(pr)  PROVE RegistryRows' /\ LockOfPage'
  <2>1. /\ registry' = [registry EXCEPT ![pr] = <<>>]
        /\ \A t \in ThreadsOf(pr) : pc'[t] = "idle" /\ held'[t] = <<>>
        /\ \A t \in Threads \ ThreadsOf(pr) : UNCHANGED <<pc[t], page[t], cand[t], held[t]>>
    BY <1>11 DEF Crash, ThreadsOf
  <2> QED  BY <1>9, <2>1
<1>12. ASSUME NEW pr \in Processes, Start(pr)  PROVE RegistryRows' /\ LockOfPage'
  BY <1>2, <1>12 DEF Start, threadVars
<1>13. ASSUME NEW pr \in Processes, NEW p \in Pages, SweepSidecar(pr, p)
       PROVE  RegistryRows' /\ LockOfPage'
  BY <1>2, <1>13 DEF SweepSidecar, threadVars
<1>14. CASE UNCHANGED vars
  BY <1>2, <1>14 DEF vars
<1> QED
  BY <1>3, <1>4, <1>5, <1>6, <1>7, <1>8, <1>10, <1>11, <1>12, <1>13, <1>14 DEF Next, ThreadStep

\* Every step leaves an RLock with one owner.
LEMMA OneOwnerStep == FlockInv /\ HeldOften /\ OneOwner /\ [Next]_vars => OneOwner'
<1> SUFFICES ASSUME FlockInv, HeldOften, OneOwner, [Next]_vars  PROVE OneOwner'
  OBVIOUS
<1>0. TypeOK /\ HasCandidate  BY DEF FlockInv
<1>1. ASSUME \A t \in Threads : HeldBy(t)' \subseteq HeldBy(t)  PROVE OneOwner'
  BY <1>1 DEF OneOwner
<1>2. ASSUME held' = held  PROVE OneOwner'
  BY <1>1, <1>2 DEF HeldBy
<1>3. ASSUME NEW t \in Threads, TakeThreadLock(t)  PROVE OneOwner'
  <2>1. cand[t] \in LockIds /\ held[t] \in Seq(LockIds)
    BY <1>0, <1>3 DEF TypeOK, HasCandidate, TakeThreadLock
  <2>2. held'[t] = Append(held[t], cand[t]) /\ \A u \in Threads \ {t} : held'[u] = held[u]
    BY <1>0, <1>3 DEF TakeThreadLock, TypeOK
  <2>3. HeldBy(t)' = HeldBy(t) \cup {cand[t]}  BY <2>1, <2>2, HeldByMore DEF HeldBy
  <2>4. \A u \in Threads \ {t} : HeldBy(u)' = HeldBy(u) /\ cand[t] \notin HeldBy(u)
    BY <1>3, <2>2 DEF TakeThreadLock, HeldBy
  <2> QED  BY <2>3, <2>4 DEF OneOwner
<1>4. ASSUME NEW t \in Threads, LeaveNested(t)  PROVE OneOwner'
  <2>1. held[t] \in Seq(LockIds) /\ Len(held[t]) = depth[t] /\ depth[t] \in Nat /\ depth[t] > 1
    BY <1>0, <1>4 DEF LeaveNested, HeldOften, TypeOK
  <2>2. /\ held'[t] = SubSeq(held[t], 1, Len(held[t]) - 1)
        /\ \A u \in Threads \ {t} : held'[u] = held[u]
    BY <1>0, <1>4 DEF LeaveNested, TypeOK
  <2>3. HeldBy(t)' \subseteq HeldBy(t)  BY <2>1, <2>2, HeldByLess DEF HeldBy
  <2> QED  BY <1>1, <2>2, <2>3 DEF HeldBy
<1>5. ASSUME NEW t \in Threads, ReleaseThreadLock(t)  PROVE OneOwner'
  <2>1. held'[t] = <<>> /\ \A u \in Threads \ {t} : held'[u] = held[u]
    BY <1>0, <1>5 DEF ReleaseThreadLock, TypeOK
  <2> QED  BY <1>1, <2>1 DEF HeldBy
<1>6. ASSUME NEW pr \in Processes, Crash(pr)  PROVE OneOwner'
  <2>1. \A u \in Threads : held'[u] = <<>> \/ held'[u] = held[u]
    BY <1>6 DEF Crash
  <2> QED  BY <1>1, <2>1 DEF HeldBy
<1>7. ASSUME NEW t \in Threads, NEW p \in Pages, NEW probe \in BOOLEAN, Lookup(t, p, probe)
      PROVE  OneOwner'
  BY <1>2, <1>7 DEF Lookup
<1>8. ASSUME NEW t \in Threads,
             \/ MissThreadLock(t) \/ OpenSidecar(t) \/ TakeFlock(t) \/ DegradeFlock(t)
             \/ MissFlock(t) \/ RejectFlock(t) \/ ReleaseFlock(t)
      PROVE  OneOwner'
  BY <1>2, <1>8 DEF MissThreadLock, OpenSidecar, TakeFlock, DegradeFlock, PastFlock, MissFlock,
     RejectFlock, ReleaseFlock
<1>9. ASSUME NEW pr \in Processes, ClearPageWriteLocks(pr) \/ Exit(pr) \/ Start(pr)
      PROVE  OneOwner'
  BY <1>2, <1>9 DEF ClearPageWriteLocks, Exit, Start, threadVars
<1>10. ASSUME NEW pr \in Processes, NEW p \in Pages, SweepSidecar(pr, p)  PROVE OneOwner'
  BY <1>2, <1>10 DEF SweepSidecar, threadVars
<1>11. CASE UNCHANGED vars
  BY <1>2, <1>11 DEF vars
<1> QED
  BY <1>3, <1>4, <1>5, <1>6, <1>7, <1>8, <1>9, <1>10, <1>11 DEF Next, ThreadStep

\* Whatever becomes of the flock (degraded, missing, its sidecar swept), the
\* RLock keeps the threads of one process apart, as long as its registry does
\* not forget an RLock in use.
THEOREM ThreadsExclude == RLocksAreKept => (Spec => []ThreadExclusion)
<1> SUFFICES ASSUME RLocksAreKept  PROVE Spec => []ThreadExclusion
  OBVIOUS
<1>1. Init => ThreadInv
  <2> SUFFICES ASSUME Init  PROVE ThreadInv
    OBVIOUS
  <2> USE PageLockAssumption DEF Init
  <2>1. FlockInv
    BY DEF FlockInv, TypeOK, HasCandidate, Phases, Phase, OneFlockPerInode, PCs
  <2>2. HeldOften /\ RegistryRows  BY DEF HeldOften, RegistryRows, OneRowPerPage
  <2>3. LockOfPage /\ OneOwner  BY HeldByNone DEF LockOfPage, OneOwner
  <2> QED  BY <2>1, <2>2, <2>3 DEF ThreadInv
<1>2. ThreadInv /\ [Next]_vars => ThreadInv'
  BY TypeStep, CandidateStep, PhaseStep, OneFlockStep, HeldOftenStep, LockOfPageStep, OneOwnerStep
     DEF ThreadInv, FlockInv
<1>3. ThreadInv => ThreadExclusion
  <2> SUFFICES ASSUME ThreadInv, NEW t \in Threads, NEW u \in Threads, ProcOf[t] = ProcOf[u],
                      Inside(t), Inside(u), page[t] = page[u]
               PROVE  t = u
    BY DEF ThreadExclusion
  <2>1. ASSUME NEW v \in Threads, Inside(v)  PROVE \E l \in HeldBy(v) : TRUE
    <3>1. held[v] \in Seq(LockIds) /\ depth[v] \in Nat /\ depth[v] > 0 /\ pc[v] \in PCs
      BY <2>1 DEF ThreadInv, FlockInv, TypeOK, Inside
    <3>2. pc[v] \in {"thread", "body"}
      BY <3>1 DEF ThreadInv, FlockInv, Phases, Phase, PCs
    <3>3. Len(held[v]) > 0  BY <3>1, <3>2 DEF ThreadInv, HeldOften
    <3>4. 1 \in DOMAIN held[v]  BY <3>1, <3>3, LenProperties
    <3> QED  BY <3>4 DEF HeldBy
  <2>2. PICK l \in HeldBy(t), m \in HeldBy(u) : TRUE  BY <2>1
  <2> DEFINE s == registry[ProcOf[t]]
  <2>3. HasRow(s, page[t], l) /\ HasRow(s, page[t], m)
    BY <2>2 DEF ThreadInv, LockOfPage
  <2>4. OneRowPerPage(s)  BY PageLockAssumption DEF ThreadInv, RegistryRows
  <2>5. l = m  BY <2>3, <2>4 DEF HasRow, OneRowPerPage
  <2> QED  BY <2>2, <2>5 DEF ThreadInv, OneOwner
<1> QED  BY <1>1, <1>2, <1>3, PTL DEF Spec
=============================================================================
