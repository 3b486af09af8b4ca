------------------------------ MODULE Inference ------------------------------
(***************************************************************************)
(* src/agent/llm_client.py, semantic_cache_router.py, index_page of        *)
(* src/agent/maintenance_daemon.py: a question about a page to the local   *)
(* model.  The caller has read the text; the call looks for an answer in   *)
(* the cache under the mtime the page has then, and otherwise asks the     *)
(* backend, logs the turn, and files the answer under the mtime the page   *)
(* has by that time.  The daemon and an audit do so in processes of their  *)
(* own, over the same page and the same cache directory; the page is saved *)
(* and removed meanwhile, by an editor or by a commit of one of the two.   *)
(*                                                                         *)
(* A completion probes the backend first (refresh_config has dropped the   *)
(* profile of the call before) and then either asks once with a schema, or *)
(* makes MAX_SELF_CORRECTION_RETRIES attempts: a request through           *)
(* instructor, and when that fails for another reason than validation, a   *)
(* request for raw JSON and then one for plain text.                       *)
(*                                                                         *)
(* What is abstracted: prompts, messages and sampling; the backend answers *)
(* what the code tells apart; thermal pauses and backoffs are the time     *)
(* between two steps.  A read, a replace or an unlink of an entry's file   *)
(* is one step, as its flock makes it.                                     *)
(***************************************************************************)
EXTENDS SemanticCache

CONSTANTS
    Procs,
    Ops,            \* Ops[x]: the operations process x calls
    Thorough,       \* processes whose completions are taken request by request
    Retries,        \* requests for one answer (MATRYCA_LLM_TRANSPORT_RETRIES, 1 to 8)
    MaxCalls,       \* bound: calls
    MaxEvents,      \* bound: writes that fail, and times the cache's TTL passes
    Left,           \* operations an earlier run may have left an answer to
    MayShrink       \* may the byte limit be lowered while the daemon runs

ASSUME InferenceAssumption ==
    /\ Left \subseteq CachedOps /\ Thorough \subseteq Procs /\ Retries \in 1..8
    /\ MaxCalls \in Nat /\ MaxEvents \in Nat /\ MayShrink \in BOOLEAN
    /\ \A x \in Procs : Ops[x] \subseteq CachedOps \cup UncachedOps

MAX_SELF_CORRECTION_RETRIES == 3

VARIABLES
    page,       \* the mtime of the page, a new one for every save; Gone when removed
    saves,      \* the changes of the page so far, and the newest mtime
    disk,       \* disk[k]: the file of entry k
    memory,     \* memory[x]: the table of process x
    limit,      \* the byte limit entries are held to
    pc,         \* what each process is doing
    job,        \* its call: the operation, the text, the key while the cache is looked at,
                \* whether the page changed since, and whether it did under the call that
                \* filed the answer
    answer,     \* the answer in hand
    engine,     \* the completion: the attempt, the request, what produced the answer
    turns,      \* the turns this call has logged
    calls,      \* calls begun
    events      \* failed writes and expiries so far

caches == <<disk, memory>>
locals == <<pc, job, answer, engine, turns>>
world == <<page, saves, limit, calls>>
vars == <<page, saves, disk, memory, limit, pc, job, answer, engine, turns, calls, events>>

Idle == [op |-> "none", text |-> Gone, key |-> None, changed |-> FALSE, raced |-> FALSE]
AtRest == [attempt |-> 0, tries |-> 1, via |-> "none"]

\* What an earlier run may have left in the cache: an answer that is as it
\* should be, from an older schema, or larger than the limit is now.
Leftovers == [op : Left, about : {1}, valid : {TRUE}, size : 1..2]
                \cup [op : Left, about : {1}, valid : {FALSE}, size : {1}]

Init ==
    /\ page = 1 /\ saves = 1 /\ limit = 1
    /\ disk \in { [[k \in Keys |-> None] EXCEPT ![<<a.op, 1>>] = CacheNode(a, FALSE)] :
                    a \in Leftovers } \cup {[k \in Keys |-> None]}
    /\ memory = [x \in Procs |-> <<>>]
    /\ pc = [x \in Procs |-> "idle"]
    /\ job = [x \in Procs |-> Idle]
    /\ answer = [x \in Procs |-> None]
    /\ engine = [x \in Procs |-> AtRest]
    /\ turns = [x \in Procs |-> <<>>]
    /\ calls = 0 /\ events = 0

Steps == {"idle", "lookup", "disk", "expired", "check", "evict", "evictLocked",
          "probe", "schema", "instructor", "raw", "plain",
          "finalize", "log", "put", "except", "done", "failed"}

TypeOK ==
    /\ page \in Mtimes /\ saves \in 1..MaxVersions /\ limit \in 0..1
    /\ disk \in [Keys -> Entries \cup {None}]
    /\ \A x \in Procs :
        /\ Len(memory[x]) <= MemoryEntries
        /\ \A i \in DOMAIN memory[x] : /\ memory[x][i].key \in Keys
                                       /\ memory[x][i].entry \in Entries
        /\ \A i, j \in DOMAIN memory[x] : memory[x][i].key = memory[x][j].key => i = j
        /\ pc[x] \in Steps
        /\ job[x].op \in Ops[x] \cup {"none", "purge"}
        /\ job[x].text \in Mtimes /\ job[x].key \in Keys \cup {None}
        /\ answer[x] \in Answers \cup {None}
        /\ engine[x].attempt < MAX_SELF_CORRECTION_RETRIES /\ engine[x].tries \in 1..Retries
    /\ calls \in 0..MaxCalls /\ events \in 0..MaxEvents

\* A transition of x from one pc to another.
Goes(x, from, to) == pc[x] = from /\ pc' = [pc EXCEPT ![x] = to]

-----------------------------------------------------------------------------
(* The page, and time *)

\* An editor, or a commit of either process, saves the page or removes it.
Edit ==
    /\ saves < MaxVersions /\ saves' = saves + 1
    /\ page' \in {Gone, saves'} /\ page' # page
    /\ job' = [x \in Procs |-> [job[x] EXCEPT !.changed = job[x].op # "none"]]
    /\ UNCHANGED <<caches, limit, calls, pc, answer, engine, turns, events>>

\* The TTL of every entry passes.
Age ==
    /\ events < MaxEvents /\ events' = events + 1
    /\ disk' = [k \in Keys |-> Expire(disk[k])]
    /\ memory' = [x \in Procs |-> ExpireAll(memory[x])]
    /\ UNCHANGED <<world, locals>>

-----------------------------------------------------------------------------
(* A call *)

\* A cycle reloads .env before its calls, so the limit may be lower by then.
Begin(x, op) ==
    /\ page # Gone
    /\ calls < MaxCalls /\ calls' = calls + 1
    /\ Goes(x, "idle", IF op \in CachedOps THEN "lookup" ELSE "probe")
    /\ job' = [job EXCEPT ![x] = [Idle EXCEPT !.op = op, !.text = page]]
    /\ limit' \in {limit} \cup (IF MayShrink THEN {0} ELSE {})
    /\ UNCHANGED <<caches, page, saves, answer, engine, turns, events>>

\* cache_get, the in-process table.  An entry over the limit is evicted by a
\* call that takes the lock this one holds.
LookUp(x) ==
    LET k == semantic_cache_key(job[x].op, page)
        e == MemoryGet(memory[x], k)
        hit == e # None /\ ~e.expired IN
    /\ Goes(x, "lookup", IF ~hit THEN "disk"
                         ELSE IF _payload_within_limit(e.answer, limit) THEN "check"
                         ELSE "evictLocked")
    /\ job' = [job EXCEPT ![x].key = k, ![x].raced = hit /\ e.raced]
    /\ answer' = [answer EXCEPT ![x] = IF hit THEN e.answer ELSE None]
    /\ memory' = [memory EXCEPT ![x] = IF hit THEN @ ELSE MemoryPop(@, k)]
    /\ UNCHANGED <<disk, world, engine, turns, events>>

\* Mutant: an entry over the limit is evicted before the lock is released.
ReadDiskLocked(x) ==
    LET e == disk[job[x].key] IN
    /\ Goes(x, "disk", IF e = None THEN "probe"
                       ELSE IF e.expired THEN "expired"
                       ELSE IF _payload_within_limit(e.answer, limit) THEN "check"
                       ELSE "evictLocked")
    /\ answer' = [answer EXCEPT ![x] = IF pc'[x] = "check" THEN e.answer ELSE None]
    /\ memory' = [memory EXCEPT ![x] = IF pc'[x] = "check"
                                       THEN _memory_put(@, job[x].key, e) ELSE @]
    /\ job' = [job EXCEPT ![x].key = IF pc'[x] = "probe" THEN None ELSE @,
                          ![x].raced = pc'[x] = "check" /\ e.raced]
    /\ UNCHANGED <<disk, world, engine, turns, events>>

\* cache_get, the file.
ReadDisk(x) ==
    LET e == disk[job[x].key] IN
    /\ Goes(x, "disk", IF e = None THEN "probe"
                       ELSE IF e.expired THEN "expired"
                       ELSE IF _payload_within_limit(e.answer, limit) THEN "check"
                       ELSE "evict")
    /\ answer' = [answer EXCEPT ![x] = IF pc'[x] = "check" THEN e.answer ELSE None]
    /\ memory' = [memory EXCEPT ![x] = IF pc'[x] = "check"
                                       THEN _memory_put(@, job[x].key, e) ELSE @]
    /\ job' = [job EXCEPT ![x].key = IF pc'[x] = "probe" THEN None ELSE @,
                          ![x].raced = pc'[x] = "check" /\ e.raced]
    /\ UNCHANGED <<disk, world, engine, turns, events>>

\* The call goes on without the cache.
Forgets(x) == job' = [job EXCEPT ![x].key = None, ![x].raced = FALSE]

Return(x) ==
    /\ pc' = [pc EXCEPT ![x] = "idle"] /\ job' = [job EXCEPT ![x] = Idle]
    /\ answer' = [answer EXCEPT ![x] = None] /\ engine' = [engine EXCEPT ![x] = AtRest]
    /\ turns' = [turns EXCEPT ![x] = <<>>]

\* The file is removed by name, whatever it holds by now.
Unlink(x) ==
    /\ pc[x] = "expired"
    /\ disk' = [disk EXCEPT ![job[x].key] = None]
    /\ IF job[x].op = "purge" THEN Return(x)
       ELSE Goes(x, "expired", "probe") /\ Forgets(x) /\ UNCHANGED <<answer, engine, turns>>
    /\ UNCHANGED <<memory, world, events>>

validate_cached_model(x) ==
    /\ Goes(x, "check", IF answer[x].valid /\ answer[x].op = job[x].op THEN "done" ELSE "evict")
    /\ UNCHANGED <<caches, world, job, answer, engine, turns, calls, events>>

cache_evict(x) ==
    /\ Goes(x, "evict", "probe") /\ Forgets(x)
    /\ memory' = [memory EXCEPT ![x] = MemoryPop(@, job[x].key)]
    /\ disk' = [disk EXCEPT ![job[x].key] = None]
    /\ answer' = [answer EXCEPT ![x] = None]
    /\ UNCHANGED <<world, engine, turns, events>>

-----------------------------------------------------------------------------
(* The completion *)

Replies == {"good", "malformed", "transient", "refused"}

\* Where a call ends that raises: index_page logs it first.
Raises(x) == IF job[x].op = "index" THEN "except" ELSE "failed"

\* A turn of the path-B loop is over without an answer.
Corrects(x) ==
    IF engine[x].attempt + 1 < MAX_SELF_CORRECTION_RETRIES
    THEN [pc |-> "instructor", engine |-> [AtRest EXCEPT !.attempt = engine[x].attempt + 1]]
    ELSE [pc |-> Raises(x), engine |-> AtRest]

Tries(x, at) == [pc |-> at, engine |-> [engine[x] EXCEPT !.tries = 1]]

Answered(x, via) == [pc |-> "finalize", engine |-> [engine[x] EXCEPT !.tries = 1, !.via = via]]

\* call_openai_with_transport_retries: a transient fault is tried again while
\* there are tries left; then it is raised like any other.
Retried(x, reply, raised) ==
    IF reply = "transient" /\ engine[x].tries < Retries
    THEN [pc |-> pc[x], engine |-> [engine[x] EXCEPT !.tries = @ + 1]]
    ELSE raised

\* _path_a_completion, _path_b_completion, _raw_json_completion: what follows
\* a reply.  A malformed one is raised by path A, corrected by path B, and
\* does not make the raw request fall back to plain text.
After(x, reply) ==
    CASE pc[x] = "schema" ->
            IF reply = "good" THEN Answered(x, "pathA")
            ELSE Retried(x, reply, Tries(x, Raises(x)))
      [] pc[x] = "instructor" ->
            IF reply = "good" THEN Answered(x, "instructor")
            ELSE IF reply = "malformed" THEN Corrects(x)
            ELSE Tries(x, "raw")
      [] pc[x] = "raw" ->
            IF reply = "good" THEN Answered(x, "salvage")
            ELSE IF reply = "malformed" THEN Corrects(x)
            ELSE Retried(x, reply, Tries(x, "plain"))
      [] pc[x] = "plain" ->
            IF reply = "good" THEN Answered(x, "salvage")
            ELSE Retried(x, reply, Corrects(x))

Follows(x, next) == pc' = [pc EXCEPT ![x] = next.pc] /\ engine' = [engine EXCEPT ![x] = next.engine]

\* An answer to the prompt that was built from the caller's text.
Says(x, reply) ==
    IF reply = "good"
    THEN \E s \in 1..2 : answer' = [answer EXCEPT ![x] =
            [op |-> job[x].op, about |-> job[x].text, valid |-> TRUE, size |-> s]]
    ELSE UNCHANGED answer

\* probe_backend: a backend that takes a schema is asked path A's way.
Probe(x) ==
    /\ x \in Thorough
    /\ \E next \in {"schema", "instructor"} : Goes(x, "probe", next)
    /\ UNCHANGED <<caches, world, job, answer, engine, turns, events>>

Request(x) ==
    /\ pc[x] \in {"schema", "instructor", "raw", "plain"}
    /\ \E reply \in Replies : Follows(x, After(x, reply)) /\ Says(x, reply)
    /\ UNCHANGED <<caches, world, job, turns, events>>

\* The completion of a process that is not taken request by request.
Complete(x) ==
    /\ x \notin Thorough /\ pc[x] = "probe"
    /\ \E reply \in {"good", "refused"} :
        /\ Says(x, reply)
        /\ Follows(x, IF reply = "good" THEN Answered(x, "pathA") ELSE Tries(x, Raises(x)))
    /\ UNCHANGED <<caches, world, job, turns, events>>

\* log_turn: the turn is appended to the log, or the append fails.
Logs(x, turn) == turns' = [turns EXCEPT ![x] = Append(@, turn)] /\ UNCHANGED events
LogFails(x) ==
    /\ events < MaxEvents /\ events' = events + 1
    /\ turns' = [turns EXCEPT ![x] = Append(@, "lost")]

\* _finalize_structured_completion logs the turn of any operation but
\* index_page's.  Inside path B's loop a log that fails is one more failure
\* of the request, and the answer in hand is asked for again.
Finalize(x) ==
    /\ pc[x] = "finalize"
    /\ IF job[x].op = "index" THEN Goes(x, "finalize", "log") /\ UNCHANGED <<engine, turns, events>>
       ELSE \/ /\ Logs(x, "ok")
               /\ Goes(x, "finalize", IF job[x].op \in CachedOps THEN "put" ELSE "done")
               /\ UNCHANGED engine
            \/ /\ LogFails(x)
               /\ Follows(x, CASE engine[x].via = "pathA" -> Tries(x, Raises(x))
                               [] engine[x].via = "instructor" -> Tries(x, "raw")
                               [] engine[x].via = "salvage" -> Corrects(x))
    /\ UNCHANGED <<caches, world, job, answer>>

-----------------------------------------------------------------------------
(* The end of a call *)

LogIndex(x) ==
    /\ \/ Logs(x, "ok") /\ Goes(x, "log", "put")
       \/ LogFails(x) /\ Goes(x, "log", "except")
    /\ UNCHANGED <<caches, world, job, answer, engine>>

\* cache_put under the mtime the page has now; too large an answer is not kept.
Put(x) ==
    LET k == semantic_cache_key(job[x].op, page)
        e == CacheNode(answer[x], job[x].changed) IN
    /\ Goes(x, "put", "done")
    /\ IF _payload_within_limit(answer[x], limit)
       THEN /\ disk' = [disk EXCEPT ![k] = e]
            /\ memory' = [memory EXCEPT ![x] = _memory_put(@, k, e)]
       ELSE UNCHANGED caches
    /\ UNCHANGED <<world, job, answer, engine, turns, events>>

\* Mutant: a failed write of the cache reaches the caller without a turn.
PutFailsSilently(x) ==
    /\ events < MaxEvents /\ events' = events + 1
    /\ Goes(x, "put", "failed")
    /\ UNCHANGED <<caches, world, job, answer, engine, turns>>

\* The entry cannot be written: the answer is lost with it.
PutFails(x) ==
    /\ events < MaxEvents /\ events' = events + 1
    /\ Goes(x, "put", Raises(x))
    /\ UNCHANGED <<caches, world, job, answer, engine, turns>>

\* index_page's handler: the failure is logged, and raised again.
LogFailure(x) ==
    /\ Goes(x, "except", "failed")
    /\ \/ Logs(x, "failed")
       \/ LogFails(x)
    /\ UNCHANGED <<caches, world, job, answer, engine>>

Ends(x) == pc[x] \in {"done", "failed"} /\ Return(x) /\ UNCHANGED <<caches, world, events>>

-----------------------------------------------------------------------------
(* Between calls *)

\* purge_expired_semantic_cache has read an entry that is expired.
Purge(x) ==
    /\ \E k \in Keys :
        /\ disk[k] # None /\ disk[k].expired
        /\ job' = [job EXCEPT ![x] = [Idle EXCEPT !.op = "purge", !.key = k]]
    /\ Goes(x, "idle", "expired")
    /\ UNCHANGED <<caches, world, answer, engine, turns, events>>

clear_semantic_cache_memory(x) ==
    /\ pc[x] = "idle" /\ memory[x] # <<>>
    /\ memory' = [memory EXCEPT ![x] = <<>>]
    /\ UNCHANGED <<disk, world, locals, events>>

Kill(x) ==
    /\ pc[x] # "idle" /\ Return(x)
    /\ memory' = [memory EXCEPT ![x] = <<>>]
    /\ UNCHANGED <<disk, world, events>>

\* The steps the program takes by itself once it has begun.
Step(x) ==
    \/ LookUp(x) \/ ReadDisk(x) \/ Unlink(x) \/ validate_cached_model(x) \/ cache_evict(x)
    \/ Probe(x) \/ Request(x) \/ Complete(x) \/ Finalize(x)
    \/ LogIndex(x) \/ Put(x) \/ PutFails(x) \/ LogFailure(x) \/ Ends(x)

Next ==
    \/ Edit \/ Age
    \/ \E x \in Procs :
        \/ \E op \in Ops[x] : Begin(x, op)
        \/ Step(x)
        \/ Purge(x) \/ clear_semantic_cache_memory(x) \/ Kill(x)

Spec == Init /\ [][Next]_vars

\* Requests time out (connect 5 s, read 120 s), file locks are held for one
\* write, and backoffs and thermal pauses end.
FairSpec == Spec /\ \A x \in Procs : WF_vars(Step(x))

-----------------------------------------------------------------------------
(* Properties *)

\* semantic_cache_key, cache_get, cache_put, index_page, classify_marpa_page:
\* whatever the two processes file, expire, evict and purge, an answer is about
\* the text the caller read and the question it asked.  (Excepted are calls
\* the page changes under, and answers filed by such a call: the key is
\* computed again when the answer is filed.)
AnswersFit ==
    \A x \in Procs : pc[x] = "done" =>
        /\ answer[x].op = job[x].op /\ answer[x].valid
        /\ \/ answer[x].about = job[x].text
           \/ job[x].changed
           \/ job[x].raced

\* index_page, _finalize_structured_completion: through retries, corrections
\* and failing writes, an answer that reaches its caller has been logged once,
\* last and as a success, or came from the cache and was not logged; and
\* the last turn of an index that fails is its failure.
TurnsTell ==
    \A x \in Procs :
        LET logged == turns[x] IN
        /\ pc[x] = "done" => \/ logged = <<>> /\ engine[x].via = "none"
                             \/ /\ engine[x].via # "none" /\ logged # <<>>
                                /\ \A i \in DOMAIN logged : logged[i] = "ok" <=> i = Len(logged)
        /\ pc[x] = "failed" /\ job[x].op = "index" =>
                logged # <<>> /\ logged[Len(logged)] \in {"failed", "lost"}

\* call_openai_with_transport_retries, _path_b_completion, cache_get: every
\* call ends, with an answer or an error, whatever the backend replies.
CallsSettle == \A x \in Procs : pc[x] # "idle" ~> pc[x] = "idle"
=============================================================================
