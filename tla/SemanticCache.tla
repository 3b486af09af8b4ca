---------------------------- MODULE SemanticCache ----------------------------
(***************************************************************************)
(* src/agent/plumber_modules/semantic_cache_router.py: what an inference   *)
(* cache entry is and how the in-process table treats it.  An entry is     *)
(* filed under an operation and the mtime of the page at that moment; the  *)
(* table drops its oldest entry when it is full, and a hit does not make   *)
(* an entry younger.                                                       *)
(*                                                                         *)
(* What is abstracted: an answer is the operation it answers, the text it  *)
(* is about (a version of the page), whether it validates against today's  *)
(* schema, and its size; the age of an entry is fresh or expired; a digest *)
(* is the key it is made from.                                             *)
(***************************************************************************)
EXTENDS Naturals, SequencesExt

CONSTANTS
    MaxVersions,    \* bound: changes of the page
    MemoryEntries,  \* entries in the in-process table (at least 16 in the code)
    None

ASSUME SemanticCacheAssumption == MaxVersions \in Nat \ {0} /\ MemoryEntries \in Nat \ {0}

Gone == 0           \* the mtime of a page that is not there
Mtimes == 0..MaxVersions
CachedOps == {"index", "marpa"}
\* Seeds, overlaps, tag properties and summaries are asked for and logged in
\* one way, without the cache; one operation stands for the four.
UncachedOps == {"harvest"}
Keys == CachedOps \X Mtimes

\* Sizes against the byte limit: 1 is within the usual limit, 2 is over it.
Answers == [op : CachedOps \cup UncachedOps, about : 1..MaxVersions, valid : BOOLEAN, size : 1..2]
\* raced is history: the page changed under the call that filed the entry.
Entries == [answer : Answers, expired : BOOLEAN, raced : BOOLEAN]

\* Mutant: a key that leaves the mtime out.
key_by_name(op, mtime) == <<op, Gone>>

semantic_cache_key(op, mtime) == <<op, mtime>>

_payload_within_limit(answer, limit) == answer.size <= limit

CacheNode(answer, raced) == [answer |-> answer, expired |-> FALSE, raced |-> raced]

Expire(e) == IF e = None THEN None ELSE [e EXCEPT !.expired = TRUE]

\* _memory: an OrderedDict, oldest first; Slot(memory, k) is where k is in it.
Holds(memory, k) == \E i \in DOMAIN memory : memory[i].key = k
Slot(memory, k) == CHOOSE i \in DOMAIN memory : memory[i].key = k

MemoryGet(memory, k) == IF Holds(memory, k) THEN memory[Slot(memory, k)].entry ELSE None

MemoryPop(memory, k) == IF Holds(memory, k) THEN RemoveAt(memory, Slot(memory, k)) ELSE memory

\* Mutant: the table is trimmed one entry late.
_memory_put_late(memory, k, e) ==
    LET all == Append(MemoryPop(memory, k), [key |-> k, entry |-> e])
    IN  IF Len(all) > MemoryEntries + 1 THEN Tail(all) ELSE all

_memory_put(memory, k, e) ==
    LET all == Append(MemoryPop(memory, k), [key |-> k, entry |-> e])
    IN  IF Len(all) > MemoryEntries THEN Tail(all) ELSE all

ExpireAll(memory) ==
    [i \in DOMAIN memory |-> [memory[i] EXCEPT !.entry = Expire(@)]]
=============================================================================
