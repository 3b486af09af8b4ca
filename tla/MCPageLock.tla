----------------------------- MODULE MCPageLock -----------------------------
(* Instances of PageLock: a daemon with one thread and an MCP server with  *)
(* worker threads.  RLocks and inodes are interchangeable.                 *)
EXTENDS PageLock, TLC

CONSTANTS d1, m1, m2, Daemon, Mcp

MCProcOf == [t \in Threads |-> IF t = d1 THEN Daemon ELSE Mcp]

Identities == Permutations(LockIds) \cup Permutations(Inodes)
=============================================================================
