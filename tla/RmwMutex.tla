------------------------------ MODULE RmwMutex ------------------------------
(***************************************************************************)
(* What page_rmw_lock promises its callers: at any moment at most one      *)
(* thread, of whatever process, is inside the read-modify-write body of a  *)
(* page.  PageLock is the lock as the code builds it and is shown to       *)
(* implement this specification; PageWrite uses this specification for the *)
(* lock of its writers.                                                    *)
(***************************************************************************)
CONSTANTS Threads, Pages

VARIABLE holder     \* holder[p]: the threads inside the body for page p

MutexTypeOK == holder \in [Pages -> SUBSET Threads]

MutexInit == holder = [p \in Pages |-> {}]

\* A thread enters the body of a page nobody is inside of.
Enter(t, p) ==
    /\ holder[p] = {}
    /\ holder' = [holder EXCEPT ![p] = {t}]

\* The body ends, or the thread dies with its process.
Leave(S) ==
    /\ S # {}
    /\ holder' = [p \in Pages |-> holder[p] \ S]

MutexNext ==
    \/ \E t \in Threads, p \in Pages : Enter(t, p)
    \/ \E S \in SUBSET Threads : Leave(S)

MutexSpec == MutexInit /\ [][MutexNext]_holder

\* At most one thread is inside the body of a page.
AtMostOneHolder ==
    \A p \in Pages : \A t, u \in holder[p] : t = u
=============================================================================
