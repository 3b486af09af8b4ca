--------------------------- MODULE InferenceProofs ---------------------------
(***************************************************************************)
(* Theorems about Inference, for every set of processes and operations,    *)
(* number of versions of the page, size of the in-process table, number of *)
(* tries, and all bounds.                                                  *)
(***************************************************************************)
EXTENDS Inference, SequenceTheorems, TLAPS

-----------------------------------------------------------------------------
(* The inductive invariant.  What is filed under a key answers the key's    *)
(* operation about the key's version, or is marked as filed by a call the   *)
(* page changed under.  A call the page did not change under reads the text *)
(* the page still has, so the key it looks for is that of its text, and so  *)
(* is what it finds.  A call logs its success once, right before it files   *)
(* the answer.                                                              *)

Filed(k, e) == e.answer.op = k[1] /\ (e.answer.about = k[2] \/ e.raced)

Places == {s \in [key : Keys, entry : Entries] : Filed(s.key, s.entry)}

Table(m) ==
    /\ m \in Seq(Places) /\ Len(m) <= MemoryEntries
    /\ \A i, j \in DOMAIN m : m[i].key = m[j].key => i = j

Caches ==
    /\ disk \in [Keys -> Entries \cup {None}]
    /\ \A k \in Keys : disk[k] # None => Filed(k, disk[k])
    /\ DOMAIN memory = Procs /\ \A x \in Procs : Table(memory[x])

World ==
    /\ page \in Mtimes /\ page <= saves /\ saves \in 1..MaxVersions /\ limit \in 0..1
    /\ calls \in 0..MaxCalls /\ events \in 0..MaxEvents

Operations == CachedOps \cup UncachedOps
Jobs == [op : Operations \cup {"none", "purge"}, text : Mtimes, key : Keys \cup {None},
         changed : BOOLEAN, raced : BOOLEAN]
Engines == [attempt : 0..2, tries : 1..Retries, via : {"none", "pathA", "instructor", "salvage"}]
Turns == {"ok", "failed", "lost"}

Locals ==
    /\ pc \in [Procs -> Steps] /\ job \in [Procs -> Jobs]
    /\ answer \in [Procs -> Answers \cup {None}]
    /\ engine \in [Procs -> Engines] /\ turns \in [Procs -> Seq(Turns)]

Finds == {"disk", "expired", "check", "evict", "evictLocked"}
Asks == {"probe", "schema", "instructor", "raw", "plain"}

\* What a call is for, at each of its steps.
Asked(x) ==
    /\ pc[x] = "idle" => job[x].op = "none"
    /\ job[x].op = "purge" => pc[x] = "expired"
    /\ pc[x] # "idle" /\ job[x].op # "purge" =>
            /\ job[x].op \in Ops[x] /\ job[x].op \in Operations
            /\ job[x].text # Gone /\ (job[x].changed \/ job[x].text = page)
    /\ pc[x] \in Finds \cup {"lookup", "put"} /\ job[x].op # "purge" => job[x].op \in CachedOps
    /\ pc[x] \in {"log", "except"} => job[x].op = "index"
    /\ pc[x] = "failed" => job[x].op # "purge"

\* The entry it has looked up.
Keyed(x) ==
    pc[x] \in Finds =>
        /\ job[x].key \in Keys
        /\ job[x].op # "purge" => /\ job[x].key[1] = job[x].op
                                  /\ job[x].changed \/ job[x].key[2] = job[x].text

\* The answer it has in hand.
InHand(x) ==
    /\ pc[x] \in {"check", "done"} =>
            /\ answer[x] \in Answers /\ answer[x].op = job[x].op
            /\ answer[x].about = job[x].text \/ job[x].changed \/ job[x].raced
    /\ pc[x] \in {"finalize", "log", "put"} =>
            /\ answer[x] \in Answers /\ answer[x].op = job[x].op
            /\ answer[x].about = job[x].text
    /\ pc[x] \in {"finalize", "log", "put", "done"} => answer[x].valid

NoSuccess(s) == \A i \in DOMAIN s : s[i] # "ok"
EndsInSuccess(s) == s # <<>> /\ \A i \in DOMAIN s : s[i] = "ok" <=> i = Len(s)

\* The turns it has logged.
Logged(x) ==
    /\ pc[x] \in Finds \cup {"idle", "lookup"} => turns[x] = <<>> /\ engine[x].via = "none"
    /\ pc[x] \in Asks \cup {"finalize", "log"} => NoSuccess(turns[x])
    /\ pc[x] \in {"finalize", "log", "put"} => engine[x].via # "none"
    /\ pc[x] = "put" => EndsInSuccess(turns[x])
    /\ pc[x] = "done" => \/ turns[x] = <<>> /\ engine[x].via = "none"
                         \/ engine[x].via # "none" /\ EndsInSuccess(turns[x])
    /\ pc[x] = "failed" /\ job[x].op = "index" =>
            turns[x] # <<>> /\ turns[x][Len(turns[x])] \in {"failed", "lost"}

Call(x) == Asked(x) /\ Keyed(x) /\ InHand(x) /\ Logged(x)

Inductive == World /\ Caches /\ Locals /\ \A x \in Procs : Call(x)

-----------------------------------------------------------------------------
(* The in-process table *)

LEMMA RemoveAtIsShorter ==
    ASSUME NEW S, NEW s \in Seq(S), NEW i \in DOMAIN s
    PROVE  /\ RemoveAt(s, i) \in Seq(S) /\ Len(RemoveAt(s, i)) = Len(s) - 1
           /\ \A j \in 1..Len(s) - 1 : RemoveAt(s, i)[j] = IF j < i THEN s[j] ELSE s[j + 1]
<1>. DEFINE l == SubSeq(s, 1, i - 1)
            r == SubSeq(s, i + 1, Len(s))
<1>0. Len(s) \in Nat /\ i \in 1..Len(s)
  OBVIOUS
<1>1. l \in Seq(S) /\ Len(l) = i - 1 /\ \A j \in 1..i - 1 : l[j] = s[j]
  BY <1>0
<1>2. r \in Seq(S) /\ Len(r) = Len(s) - i /\ \A j \in 1..Len(s) - i : r[j] = s[i + j]
  BY <1>0
<1>3. RemoveAt(s, i) = l \o r
  BY DEF RemoveAt
<1>. HIDE DEF l, r
<1>4. l \o r \in Seq(S) /\ Len(l \o r) = Len(s) - 1
  BY <1>0, <1>1, <1>2
<1>5. ASSUME NEW j \in 1..Len(s) - 1
      PROVE  (l \o r)[j] = IF j < i THEN s[j] ELSE s[j + 1]
  <2>1. CASE j < i
    BY <1>0, <1>1, <1>2, <2>1
  <2>2. CASE ~(j < i)
    <3>1. (l \o r)[j] = r[j - Len(l)]
      <4>1. j \in 1..Len(l) + Len(r) /\ ~(j <= Len(l))
        BY <1>0, <1>1, <1>2, <2>2
      <4>. QED
        BY <1>1, <1>2, <4>1, ConcatProperties
    <3>2. j - Len(l) \in 1..Len(s) - i /\ i + (j - Len(l)) = j + 1
      BY <1>0, <1>1, <2>2
    <3>. QED
      BY <1>2, <2>2, <3>1, <3>2
  <2>. QED
    BY <2>1, <2>2
<1>. QED
  BY <1>3, <1>4, <1>5

\* A table without an entry is a table, and does not hold it.
LEMMA PopKeepsTable ==
    ASSUME NEW m, Table(m), NEW k
    PROVE  Table(MemoryPop(m, k)) /\ ~Holds(MemoryPop(m, k), k)
<1>. DEFINE i == Slot(m, k)
            p == RemoveAt(m, i)
<1>1. CASE ~Holds(m, k)
  BY <1>1 DEF MemoryPop
<1>2. CASE Holds(m, k)
  <2>1. i \in DOMAIN m /\ m[i].key = k
    BY <1>2 DEF Holds, Slot
  <2>2. MemoryPop(m, k) = p
    BY <1>2 DEF MemoryPop
  <2>. HIDE DEF i
  <2>3. m \in Seq(Places) /\ Len(m) \in Nat /\ DOMAIN m = 1..Len(m) /\ Len(m) <= MemoryEntries
    BY DEF Table
  <2>4. /\ p \in Seq(Places) /\ Len(p) = Len(m) - 1
        /\ \A j \in 1..Len(m) - 1 : p[j] = IF j < i THEN m[j] ELSE m[j + 1]
    BY <2>1, <2>3, RemoveAtIsShorter
  <2>. HIDE DEF p
  <2>5. DOMAIN p = 1..Len(m) - 1
    BY <2>3, <2>4
  <2>. DEFINE from(j) == IF j < i THEN j ELSE j + 1
  <2>6. ASSUME NEW j \in DOMAIN p
        PROVE  from(j) \in DOMAIN m /\ from(j) # i /\ p[j] = m[from(j)]
    BY <2>1, <2>3, <2>4, <2>5
  <2>7. ASSUME NEW j \in DOMAIN p, NEW h \in DOMAIN p, from(j) = from(h)
        PROVE  j = h
    BY <2>1, <2>3, <2>5, <2>7
  <2>. HIDE DEF from
  <2>8. \A j, h \in DOMAIN p : p[j].key = p[h].key => j = h
    BY <2>6, <2>7 DEF Table
  <2>9. Len(p) <= MemoryEntries
    BY <2>3, <2>4, SemanticCacheAssumption DEF SemanticCacheAssumption
  <2>10. \A j \in DOMAIN p : p[j].key # k
    BY <2>1, <2>6 DEF Table
  <2>. QED
    BY <2>2, <2>4, <2>8, <2>9, <2>10 DEF Table, Holds
<1>. QED
  BY <1>1, <1>2

\* The table never exceeds its limit: what is appended pushes the oldest out.
LEMMA PutKeepsTable ==
    ASSUME NEW m, Table(m), NEW k \in Keys, NEW e \in Entries, Filed(k, e)
    PROVE  Table(_memory_put(m, k, e))
<1>. DEFINE p == MemoryPop(m, k)
            s == [key |-> k, entry |-> e]
            all == Append(p, s)
<1>1. Table(p) /\ ~Holds(p, k)
  BY PopKeepsTable
<1>2. s \in Places /\ s.key = k
  BY DEF Places
<1>3. _memory_put(m, k, e) = IF Len(all) > MemoryEntries THEN Tail(all) ELSE all
  BY DEF _memory_put
<1>. HIDE DEF p, s
<1>4. p \in Seq(Places) /\ Len(p) \in Nat /\ Len(p) <= MemoryEntries
  BY <1>1 DEF Table
<1>5. /\ all \in Seq(Places) /\ Len(all) = Len(p) + 1 /\ all[Len(p) + 1] = s
      /\ \A i \in 1..Len(p) : all[i] = p[i]
  BY <1>2, <1>4
<1>. HIDE DEF all
<1>6. DOMAIN p = 1..Len(p) /\ DOMAIN all = 1..Len(p) + 1
  BY <1>4, <1>5
<1>7. ASSUME NEW i \in DOMAIN all, NEW j \in DOMAIN all, all[i].key = all[j].key
      PROVE  i = j
  <2>1. CASE i \in DOMAIN p /\ j \in DOMAIN p
    BY <1>1, <1>5, <1>6, <1>7, <2>1 DEF Table
  <2>2. CASE i = Len(p) + 1 \/ j = Len(p) + 1
    <3>1. \A h \in DOMAIN p : all[h].key # k
      BY <1>1, <1>5, <1>6 DEF Holds
    <3>2. all[Len(p) + 1].key = k
      BY <1>2, <1>5
    <3>. QED
      BY <1>4, <1>6, <1>7, <2>2, <3>1, <3>2
  <2>. QED
    BY <1>4, <1>6, <2>1, <2>2
<1>8. CASE Len(all) > MemoryEntries
  <2>1. all # <<>>
    BY <1>4, <1>5
  <2>2. /\ Tail(all) \in Seq(Places) /\ Len(Tail(all)) = Len(p)
        /\ \A i \in 1..Len(p) : Tail(all)[i] = all[i + 1]
    BY <1>4, <1>5, <2>1
  <2>3. DOMAIN Tail(all) = 1..Len(p)
    BY <2>2
  <2>4. ASSUME NEW i \in DOMAIN Tail(all), NEW j \in DOMAIN Tail(all),
               Tail(all)[i].key = Tail(all)[j].key
        PROVE  i = j
    <3>1. i + 1 \in DOMAIN all /\ j + 1 \in DOMAIN all
      BY <1>4, <1>6, <2>3
    <3>2. i + 1 = j + 1
      BY <1>7, <2>2, <2>3, <2>4, <3>1
    <3>. QED
      BY <1>4, <2>3, <3>2
  <2>. QED
    BY <1>3, <1>4, <1>8, <2>2, <2>4 DEF Table
<1>9. CASE ~(Len(all) > MemoryEntries)
  BY <1>3, <1>4, <1>5, <1>7, <1>9, SemanticCacheAssumption DEF Table, SemanticCacheAssumption
<1>. QED
  BY <1>8, <1>9

LEMMA GetFindsFiled ==
    ASSUME NEW m, Table(m), NEW k, MemoryGet(m, k) # None
    PROVE  MemoryGet(m, k) \in Entries /\ Filed(k, MemoryGet(m, k))
<1>. DEFINE i == Slot(m, k)
<1>1. Holds(m, k) /\ MemoryGet(m, k) = m[i].entry
  BY DEF MemoryGet
<1>2. i \in DOMAIN m /\ m[i].key = k
  BY <1>1 DEF Holds, Slot
<1>. HIDE DEF i
<1>3. m[i] \in Places
  BY <1>2 DEF Table
<1>. QED
  BY <1>1, <1>2, <1>3 DEF Places

LEMMA AgeKeepsTable ==
    ASSUME NEW m, Table(m)
    PROVE  Table(ExpireAll(m))
<1>. DEFINE a == ExpireAll(m)
<1>1. m \in Seq(Places) /\ DOMAIN m = 1..Len(m) /\ Len(m) \in Nat
  BY DEF Table
<1>2. ASSUME NEW i \in DOMAIN m
      PROVE  [m[i] EXCEPT !.entry = Expire(@)] \in Places
             /\ [m[i] EXCEPT !.entry = Expire(@)].key = m[i].key
  <2>1. m[i] \in Places
    BY <1>1
  <2>2. m[i].key \in Keys /\ m[i].entry \in Entries /\ Filed(m[i].key, m[i].entry)
    BY <2>1 DEF Places
  <2>3. Expire(m[i].entry) \in Entries /\ Filed(m[i].key, Expire(m[i].entry))
    BY <2>2 DEF Expire, Entries, Filed
  <2>4. [m[i] EXCEPT !.entry = Expire(@)] = [key |-> m[i].key, entry |-> Expire(m[i].entry)]
    BY <2>1 DEF Places
  <2>. QED
    BY <2>2, <2>3, <2>4 DEF Places
<1>3. /\ DOMAIN a = DOMAIN m
      /\ \A i \in DOMAIN m : a[i] = [m[i] EXCEPT !.entry = Expire(@)]
  BY DEF ExpireAll
<1>4. a = [i \in 1..Len(m) |-> a[i]]
  BY <1>1 DEF ExpireAll
<1>. HIDE DEF a
<1>5. \A i \in 1..Len(m) : a[i] \in Places /\ a[i].key = m[i].key
  BY <1>1, <1>2, <1>3
<1>6. a \in Seq(Places) /\ Len(a) = Len(m)
  BY <1>1, <1>4, <1>5
<1>7. \A i, j \in DOMAIN a : a[i].key = a[j].key => i = j
  BY <1>1, <1>3, <1>5 DEF Table
<1>. QED
  BY <1>6, <1>7 DEF Table, a

-----------------------------------------------------------------------------
(* A completion *)

\* What may follow a reply to a request.
Nexts(x) ==
    {n \in [pc : Asks \cup {"finalize", "except", "failed"}, engine : Engines] :
        /\ n.pc = "finalize" => n.engine.via # "none"
        /\ n.pc = "except" => job[x].op = "index"
        /\ n.pc = "failed" => job[x].op # "index"}

LEMMA RaiseEndsCall ==
    ASSUME NEW x \in Procs, Locals, NEW to \in Asks \cup {Raises(x)}
    PROVE  Tries(x, to) \in Nexts(x)
<1>1. engine[x] \in Engines
  BY DEF Locals
<1>2. [engine[x] EXCEPT !.tries = 1] \in Engines
  BY <1>1, InferenceAssumption DEF Engines, InferenceAssumption
<1>3. /\ to \in Asks \cup {"except", "failed"}
      /\ to = "except" => job[x].op = "index"
      /\ to = "failed" => job[x].op # "index"
  BY DEF Raises, Asks
<1>4. to # "finalize"
  BY <1>3 DEF Asks
<1>. DEFINE n == [pc |-> to, engine |-> [engine[x] EXCEPT !.tries = 1]]
<1>5. n \in [pc : Asks \cup {"finalize", "except", "failed"}, engine : Engines]
  BY <1>2, <1>3
<1>6. n.pc = to
  OBVIOUS
<1>. HIDE DEF n
<1>7. n \in Nexts(x)
  BY <1>3, <1>4, <1>5, <1>6 DEF Nexts
<1>. QED
  BY <1>7 DEF Tries, n

LEMMA CorrectionIsAsked ==
    ASSUME NEW x \in Procs, Locals
    PROVE  Corrects(x) \in Nexts(x)
<1>1. engine[x] \in Engines
  BY DEF Locals
<1>2. AtRest \in Engines
  BY InferenceAssumption DEF Engines, AtRest, InferenceAssumption
<1>3. CASE engine[x].attempt + 1 < MAX_SELF_CORRECTION_RETRIES
  <2>. DEFINE e == [AtRest EXCEPT !.attempt = engine[x].attempt + 1]
  <2>1. e \in Engines
    BY <1>1, <1>2, <1>3 DEF Engines, AtRest, MAX_SELF_CORRECTION_RETRIES
  <2>2. Corrects(x) = [pc |-> "instructor", engine |-> e]
    BY <1>3 DEF Corrects
  <2>. HIDE DEF e
  <2>. QED
    BY <2>1, <2>2 DEF Nexts, Asks
<1>4. CASE ~(engine[x].attempt + 1 < MAX_SELF_CORRECTION_RETRIES)
  <2>1. Corrects(x) = [pc |-> Raises(x), engine |-> AtRest]
    BY <1>4 DEF Corrects
  <2>2. /\ Raises(x) \in {"except", "failed"}
        /\ Raises(x) = "except" => job[x].op = "index"
        /\ Raises(x) = "failed" => job[x].op # "index"
    BY DEF Raises
  <2>. QED
    BY <1>2, <2>1, <2>2 DEF Nexts
<1>. QED
  BY <1>3, <1>4

LEMMA AnswerIsFinal ==
    ASSUME NEW x \in Procs, Locals, NEW via \in {"pathA", "instructor", "salvage"}
    PROVE  Answered(x, via) \in Nexts(x)
<1>1. engine[x] \in Engines
  BY DEF Locals
<1>. DEFINE e == [engine[x] EXCEPT !.tries = 1, !.via = via]
<1>2. e \in Engines
  <2>1. [engine[x] EXCEPT !.tries = 1] \in Engines
    BY <1>1, InferenceAssumption DEF Engines, InferenceAssumption
  <2>2. e = [[engine[x] EXCEPT !.tries = 1] EXCEPT !.via = via]
    OBVIOUS
  <2>. QED
    BY <2>1, <2>2 DEF Engines
<1>3. e.via = via
  BY <1>1 DEF Engines
<1>. HIDE DEF e
<1>4. Answered(x, via) = [pc |-> "finalize", engine |-> e]
  BY DEF Answered, e
<1>. QED
  BY <1>2, <1>3, <1>4 DEF Nexts

LEMMA RetryIsAsked ==
    ASSUME NEW x \in Procs, Locals, pc[x] \in Asks, NEW reply, NEW n \in Nexts(x)
    PROVE  Retried(x, reply, n) \in Nexts(x)
<1>1. CASE reply = "transient" /\ engine[x].tries < Retries
  <2>. DEFINE e == [engine[x] EXCEPT !.tries = @ + 1]
  <2>1. engine[x] \in Engines
    BY DEF Locals
  <2>2. e \in Engines
    BY <1>1, <2>1, InferenceAssumption DEF Engines, InferenceAssumption
  <2>3. Retried(x, reply, n) = [pc |-> pc[x], engine |-> e]
    BY <1>1 DEF Retried
  <2>. HIDE DEF e
  <2>. QED
    BY <2>2, <2>3 DEF Nexts, Asks
<1>2. CASE ~(reply = "transient" /\ engine[x].tries < Retries)
  BY <1>2 DEF Retried
<1>. QED
  BY <1>1, <1>2

\* Every reply leads on: to another request, to an answer, or out of the call.
LEMMA AfterReply ==
    ASSUME NEW x \in Procs, Locals, NEW reply \in Replies,
           pc[x] \in {"schema", "instructor", "raw", "plain"}
    PROVE  /\ After(x, reply) \in Nexts(x)
           /\ After(x, reply).pc = "finalize" => reply = "good"
<1>. DEFINE n == After(x, reply)
<1>0. pc[x] \in Asks
  BY DEF Asks
<1>1. CASE reply = "good"
  <2>1. \E via \in {"pathA", "instructor", "salvage"} : n = Answered(x, via)
    BY <1>1 DEF After
  <2>. QED
    BY <1>1, <2>1, AnswerIsFinal
<1>2. CASE reply # "good"
  <2>1. n \in Nexts(x)
    <3>1. CASE pc[x] = "schema"
      <4>1. n = Retried(x, reply, Tries(x, Raises(x)))
        BY <1>2, <3>1 DEF After
      <4>. QED
        BY <1>0, <4>1, RaiseEndsCall, RetryIsAsked
    <3>2. CASE pc[x] = "instructor"
      <4>1. n = Corrects(x) \/ n = Tries(x, "raw")
        BY <1>2, <3>2 DEF After
      <4>. QED
        BY <4>1, CorrectionIsAsked, RaiseEndsCall DEF Asks
    <3>3. CASE pc[x] = "raw"
      <4>1. n = Corrects(x) \/ n = Retried(x, reply, Tries(x, "plain"))
        BY <1>2, <3>3 DEF After
      <4>2. Tries(x, "plain") \in Nexts(x)
        BY RaiseEndsCall DEF Asks
      <4>. QED
        BY <1>0, <4>1, <4>2, CorrectionIsAsked, RetryIsAsked
    <3>4. CASE pc[x] = "plain"
      <4>1. n = Retried(x, reply, Corrects(x))
        BY <1>2, <3>4 DEF After
      <4>. QED
        BY <1>0, <4>1, CorrectionIsAsked, RetryIsAsked
    <3>. QED
      BY <3>1, <3>2, <3>3, <3>4
  <2>2. n.pc # "finalize"
    <3>1. Tries(x, Raises(x)).pc # "finalize" /\ Corrects(x).pc # "finalize"
      BY DEF Tries, Corrects, Raises
    <3>2. Tries(x, "raw").pc # "finalize" /\ Tries(x, "plain").pc # "finalize"
      BY DEF Tries
    <3>3. ASSUME NEW r, r.pc # "finalize"
          PROVE  Retried(x, reply, r).pc # "finalize"
      BY <3>3 DEF Retried
    <3>4. CASE pc[x] = "schema"
      BY <1>2, <3>1, <3>3, <3>4 DEF After
    <3>5. CASE pc[x] = "instructor"
      BY <1>2, <3>1, <3>2, <3>5 DEF After
    <3>6. CASE pc[x] = "raw"
      BY <1>2, <3>1, <3>2, <3>3, <3>6 DEF After
    <3>7. CASE pc[x] = "plain"
      BY <1>2, <3>1, <3>3, <3>7 DEF After
    <3>. QED
      BY <3>4, <3>5, <3>6, <3>7
  <2>. QED
    BY <2>1, <2>2
<1>. QED
  BY <1>1, <1>2

-----------------------------------------------------------------------------
(* The steps *)

LEMMA IdleIsJob == Idle \in Jobs /\ AtRest \in Engines
<1>1. 0 \in Mtimes
  BY SemanticCacheAssumption DEF Mtimes, SemanticCacheAssumption
<1>2. Idle \in Jobs
  BY <1>1 DEF Idle, Jobs, Gone
<1>3. AtRest \in Engines
  BY InferenceAssumption DEF AtRest, Engines, InferenceAssumption
<1>. QED
  BY <1>2, <1>3

LEMMA InitKeeps == Init => Inductive
<1>. SUFFICES ASSUME Init PROVE Inductive
  OBVIOUS
<1>. USE DEF Init
<1>1. World
  BY SemanticCacheAssumption, InferenceAssumption
     DEF World, Mtimes, SemanticCacheAssumption, InferenceAssumption
<1>2. Caches
  <2>1. \A x \in Procs : Table(memory[x])
    BY SemanticCacheAssumption DEF Table, SemanticCacheAssumption
  <2>2. disk \in [Keys -> Entries \cup {None}] /\ \A k \in Keys : disk[k] # None => Filed(k, disk[k])
    <3>1. CASE disk = [k \in Keys |-> None]
      BY <3>1
    <3>2. ASSUME NEW a \in Leftovers, disk = [[k \in Keys |-> None] EXCEPT ![<<a.op, 1>>] = CacheNode(a, FALSE)]
          PROVE  <2>2!1 /\ <2>2!2
      <4>1. a.op \in CachedOps /\ a.about = 1
        BY InferenceAssumption DEF Leftovers, InferenceAssumption
      <4>a. a \in Answers
        <5>1. 1 \in 1..MaxVersions /\ 1 \in 1..2
          BY SemanticCacheAssumption DEF SemanticCacheAssumption
        <5>. QED
          BY <5>1, InferenceAssumption DEF Leftovers, Answers, InferenceAssumption
      <4>2. CacheNode(a, FALSE) \in Entries
        BY <4>a DEF CacheNode, Entries
      <4>3. Filed(<<a.op, 1>>, CacheNode(a, FALSE))
        BY <4>1 DEF CacheNode, Filed
      <4>. QED
        BY <3>2, <4>2, <4>3
    <3>. QED
      BY <3>1, <3>2
  <2>. QED
    BY <2>1, <2>2 DEF Caches
<1>3. Locals
  <2>1. Idle \in Jobs
    BY IdleIsJob
  <2>2. AtRest \in Engines
    BY InferenceAssumption DEF AtRest, Engines, InferenceAssumption
  <2>. QED
    BY <2>1, <2>2 DEF Locals, Steps
<1>4. \A x \in Procs : Call(x)
  BY DEF Call, Asked, Keyed, InHand, Logged, Finds, Asks, Idle, AtRest
<1>. QED
  BY <1>1, <1>2, <1>3, <1>4 DEF Inductive

\* A step of x that leaves the page and the other calls as they are.
Alone(x) ==
    /\ page' = page
    /\ \A y \in Procs \ {x} :
        /\ pc'[y] = pc[y] /\ job'[y] = job[y] /\ answer'[y] = answer[y]
        /\ engine'[y] = engine[y] /\ turns'[y] = turns[y]

LEMMA AloneKeepsOthers ==
    ASSUME NEW x \in Procs, Inductive, Alone(x), World', Caches', Locals', Call(x)'
    PROVE  Inductive'
<1>1. ASSUME NEW y \in Procs, y # x
      PROVE  Call(y)'
  BY <1>1 DEF Inductive, Alone, Call, Asked, Keyed, InHand, Logged
<1>. QED
  BY <1>1 DEF Inductive

LEMMA EditKeeps == Inductive /\ Edit => Inductive'
<1>. SUFFICES ASSUME Inductive, Edit PROVE Inductive'
  OBVIOUS
<1>. USE DEF Inductive
<1>1. World'
  <2>1. saves' \in 1..MaxVersions /\ saves < saves'
    BY SemanticCacheAssumption DEF World, Edit, SemanticCacheAssumption
  <2>2. page' \in Mtimes /\ page' <= saves'
    BY <2>1, SemanticCacheAssumption DEF Edit, Mtimes, Gone, SemanticCacheAssumption
  <2>. QED
    BY <2>1, <2>2 DEF World, Edit
<1>2. Caches'
  BY DEF Caches, caches, Edit
<1>3. ASSUME NEW x \in Procs
      PROVE  \E c \in BOOLEAN : /\ job'[x] = [job[x] EXCEPT !.changed = c]
                                /\ job[x].op # "none" => c
  <2>1. job'[x] = [job[x] EXCEPT !.changed = job[x].op # "none"]
    BY DEF Edit
  <2>. QED
    BY <2>1
<1>4. ASSUME NEW x \in Procs
      PROVE  job'[x] \in Jobs
  <2>1. PICK c \in BOOLEAN : job'[x] = [job[x] EXCEPT !.changed = c]
    BY <1>3
  <2>2. job[x] \in Jobs
    BY DEF Locals
  <2>. QED
    BY <2>1, <2>2 DEF Jobs
<1>5. Locals'
  <2>1. job' = [x \in Procs |-> job'[x]]
    BY DEF Edit
  <2>. QED
    BY <1>4, <2>1 DEF Locals, Edit
<1>6. ASSUME NEW x \in Procs
      PROVE  Call(x)'
  <2>1. /\ job'[x].op = job[x].op /\ job'[x].text = job[x].text /\ job'[x].key = job[x].key
        /\ job'[x].raced = job[x].raced
        /\ job[x].op # "none" => job'[x].changed
    <3>1. job[x] \in Jobs
      BY DEF Locals
    <3>2. PICK c \in BOOLEAN : job'[x] = [job[x] EXCEPT !.changed = c] /\ (job[x].op # "none" => c)
      BY <1>3
    <3>. QED
      BY <3>1, <3>2 DEF Jobs
  <2>2. pc'[x] = pc[x] /\ answer'[x] = answer[x] /\ engine'[x] = engine[x] /\ turns'[x] = turns[x]
    BY DEF Edit
  <2>3. job[x].op \in Operations => job[x].op # "none"
    BY DEF Operations, CachedOps, UncachedOps
  <2>4. Call(x)
    OBVIOUS
  <2>5. pc[x] # "idle" /\ job[x].op # "purge" => job'[x].changed
    BY <2>1, <2>3, <2>4 DEF Call, Asked
  <2>6. Asked(x)'
    BY <2>1, <2>2, <2>4, <2>5 DEF Call, Asked
  <2>7. Keyed(x)' /\ InHand(x)'
    <3>1. pc[x] \in {"check", "done"} => pc[x] # "idle" /\ job[x].op # "purge"
      BY <2>4 DEF Call, Asked
    <3>2. pc[x] \in Finds => pc[x] # "idle"
      BY DEF Finds
    <3>. QED
      BY <2>1, <2>2, <2>4, <2>5, <3>1, <3>2 DEF Call, Keyed, InHand
  <2>8. Logged(x)'
    BY <2>1, <2>2, <2>4 DEF Call, Logged
  <2>. QED
    BY <2>6, <2>7, <2>8 DEF Call
<1>. QED
  BY <1>1, <1>2, <1>5, <1>6

LEMMA AgeKeeps == Inductive /\ Age => Inductive'
<1>. SUFFICES ASSUME Inductive, Age PROVE Inductive'
  OBVIOUS
<1>. USE DEF Inductive
<1>1. World'
  BY InferenceAssumption DEF World, world, Age, InferenceAssumption
<1>2. Caches'
  <2>1. \A x \in Procs : Table(memory'[x])
    BY AgeKeepsTable DEF Caches, Age
  <2>2. ASSUME NEW k \in Keys
        PROVE  disk'[k] \in Entries \cup {None} /\ (disk'[k] # None => Filed(k, disk'[k]))
    <3>1. disk'[k] = Expire(disk[k]) /\ disk[k] \in Entries \cup {None}
      BY DEF Age, Caches
    <3>2. CASE disk[k] = None
      BY <3>1, <3>2 DEF Expire
    <3>3. CASE disk[k] # None
      <4>1. disk'[k] = [disk[k] EXCEPT !.expired = TRUE] /\ Filed(k, disk[k]) /\ disk[k] \in Entries
        BY <3>1, <3>3 DEF Expire, Caches
      <4>. QED
        BY <4>1 DEF Entries, Filed
    <3>. QED
      BY <3>2, <3>3
  <2>3. DOMAIN disk' = Keys /\ DOMAIN memory' = Procs /\ disk' = [k \in Keys |-> disk'[k]]
    BY DEF Age
  <2>4. disk' \in [Keys -> Entries \cup {None}]
    BY <2>2, <2>3
  <2>. QED
    BY <2>1, <2>2, <2>3, <2>4 DEF Caches
<1>3. Locals' /\ \A x \in Procs : Call(x)'
  BY DEF Age, locals, world, Locals, Call, Asked, Keyed, InHand, Logged
<1>. QED
  BY <1>1, <1>2, <1>3

LEMMA BeginKeeps ==
    ASSUME NEW x \in Procs, NEW op \in Ops[x], Inductive, Begin(x, op)
    PROVE  Inductive'
<1>. USE DEF Inductive
<1>. DEFINE j == [Idle EXCEPT !.op = op, !.text = page]
<1>0. op \in Operations
  BY InferenceAssumption DEF Operations, InferenceAssumption
<1>1. [Idle EXCEPT !.op = op] \in Jobs /\ [Idle EXCEPT !.op = op].op = op
  BY <1>0, IdleIsJob DEF Jobs
<1>2. j \in Jobs /\ j.op = op /\ j.text = page /\ page # Gone
  <2>1. j = [[Idle EXCEPT !.op = op] EXCEPT !.text = page]
    OBVIOUS
  <2>. QED
    BY <1>1, <2>1 DEF World, Begin, Jobs
<1>3. Alone(x)
  BY DEF Alone, Begin, Goes
<1>4. World'
  BY InferenceAssumption DEF World, Begin, InferenceAssumption
<1>5. Caches'
  BY DEF Caches, caches, Begin
<1>6. Locals'
  BY <1>2 DEF Locals, Begin, Goes, Steps
<1>7. /\ pc[x] = "idle" /\ job'[x] = j
      /\ (pc'[x] = "lookup" /\ op \in CachedOps) \/ pc'[x] = "probe"
      /\ turns'[x] = turns[x] /\ engine'[x] = engine[x] /\ page' = page
  BY DEF Begin, Goes, Locals
<1>8. op # "purge" /\ op # "none"
  BY <1>0 DEF Operations, CachedOps, UncachedOps
<1>. HIDE DEF j
<1>9. j.op = op /\ j.text = page
  BY <1>2
<1>10. Asked(x)' /\ Keyed(x)' /\ InHand(x)'
  BY <1>0, <1>2, <1>7, <1>8, <1>9 DEF Asked, Keyed, InHand, Finds
<1>11. Logged(x)'
  BY <1>7 DEF Call, Logged, NoSuccess, Finds, Asks
<1>. QED
  BY <1>3, <1>4, <1>5, <1>6, <1>10, <1>11, AloneKeepsOthers DEF Call

LEMMA LookUpKeeps ==
    ASSUME NEW x \in Procs, Inductive, LookUp(x)
    PROVE  Inductive'
<1>. USE DEF Inductive
<1>. DEFINE k == semantic_cache_key(job[x].op, page)
            e == MemoryGet(memory[x], k)
            hit == e # None /\ ~e.expired
            r == hit /\ e.raced
<1>1. /\ pc[x] = "lookup" /\ page' = page
      /\ pc'[x] \in {"disk", "check", "evictLocked"}
      /\ pc'[x] = "check" => hit
      /\ job' = [job EXCEPT ![x].key = k, ![x].raced = r]
      /\ answer' = [answer EXCEPT ![x] = IF hit THEN e.answer ELSE None]
      /\ memory' = [memory EXCEPT ![x] = IF hit THEN @ ELSE MemoryPop(@, k)]
      /\ turns' = turns /\ engine' = engine /\ disk' = disk
  BY DEF LookUp, Goes, Locals, world
<1>2. /\ job[x].op # "purge" /\ job[x].op \in CachedOps /\ job[x].op \in Ops[x]
      /\ job[x].op \in Operations
      /\ job[x].text # Gone /\ (job[x].changed \/ job[x].text = page)
      /\ turns[x] = <<>> /\ engine[x].via = "none"
  BY <1>1 DEF Call, Asked, Logged
<1>3. k \in Keys /\ k[1] = job[x].op /\ k[2] = page
  BY <1>2 DEF semantic_cache_key, Keys, World
<1>4. Table(memory[x])
  BY DEF Caches
<1>. HIDE DEF k
<1>5. e # None => e \in Entries /\ Filed(k, e)
  BY <1>4, GetFindsFiled
<1>6. Alone(x)
  BY DEF Alone, LookUp, Goes, world, Locals
<1>7. World'
  BY DEF World, world, LookUp
<1>8. Caches'
  BY <1>1, <1>4, PopKeepsTable DEF Caches
<1>. HIDE DEF e
<1>9. hit => e.answer \in Answers
  BY <1>5 DEF Entries
<1>10. r \in BOOLEAN
  OBVIOUS
<1>. HIDE DEF hit, r
<1>a. job[x] \in Jobs /\ job'[x] = [job[x] EXCEPT !.key = k, !.raced = r]
  BY <1>1 DEF Locals
<1>b. /\ job'[x].op = job[x].op /\ job'[x].text = job[x].text /\ job'[x].key = k
      /\ job'[x].changed = job[x].changed /\ (job'[x].raced <=> r)
  BY <1>a DEF Jobs
<1>c. [job[x] EXCEPT !.key = k, !.raced = r] \in Jobs
  BY <1>3, <1>10, <1>a DEF Jobs
<1>11. Locals'
  <2>1. pc' \in [Procs -> Steps]
    BY DEF Locals, LookUp, Goes, Steps
  <2>2. job' \in [Procs -> Jobs]
    BY <1>1, <1>a, <1>c DEF Locals
  <2>3. answer' \in [Procs -> Answers \cup {None}]
    BY <1>1, <1>9 DEF Locals
  <2>. QED
    BY <1>1, <2>1, <2>2, <2>3 DEF Locals
<1>12. Asked(x)' /\ Keyed(x)'
  BY <1>1, <1>2, <1>3, <1>b DEF Asked, Keyed, Finds
<1>13. InHand(x)'
  <2>1. SUFFICES ASSUME pc'[x] = "check"
                 PROVE  /\ answer'[x] \in Answers /\ answer'[x].op = job'[x].op
                        /\ answer'[x].about = job'[x].text \/ job'[x].changed \/ job'[x].raced
    BY <1>1 DEF InHand
  <2>2. hit /\ e # None /\ answer'[x] = e.answer
    BY <1>1, <2>1 DEF Locals, hit
  <2>. QED
    BY <1>2, <1>3, <1>5, <1>9, <1>b, <2>2 DEF Filed, r
<1>14. Logged(x)'
  BY <1>1, <1>2 DEF Logged, Finds, Asks
<1>. QED
  BY <1>6, <1>7, <1>8, <1>11, <1>12, <1>13, <1>14, AloneKeepsOthers DEF Call

\* What a call at an entry knows of it.
LEMMA AtEntry ==
    ASSUME NEW x \in Procs, Inductive, pc[x] \in Finds, job[x].op # "purge"
    PROVE  /\ job[x].key \in Keys /\ job[x].key[1] = job[x].op
           /\ job[x].changed \/ job[x].key[2] = job[x].text
           /\ job[x].op \in CachedOps /\ job[x].op \in Ops[x] /\ job[x].op \in Operations
           /\ job[x].text # Gone /\ (job[x].changed \/ job[x].text = page)
           /\ turns[x] = <<>> /\ engine[x].via = "none"
<1>1. Call(x) /\ pc[x] # "idle"
  BY DEF Inductive, Finds
<1>2. pc[x] \in Finds \cup {"lookup", "put"} /\ pc[x] \in Finds \cup {"idle", "lookup"}
  OBVIOUS
<1>3. Asked(x) /\ Keyed(x) /\ Logged(x)
  BY <1>1 DEF Call
<1>. QED
  BY <1>1, <1>2, <1>3 DEF Asked, Keyed, Logged

\* A call that has what it needs to go on without the cache.
LEMMA GoesWithoutCache ==
    ASSUME NEW x \in Procs, Inductive, pc[x] \in Finds, job[x].op # "purge",
           pc'[x] = "probe", page' = page,
           job'[x].op = job[x].op, job'[x].text = job[x].text,
           job'[x].changed = job[x].changed, turns'[x] = turns[x]
    PROVE  Call(x)'
<1>1. Asked(x)'
  BY AtEntry DEF Asked, Finds
<1>2. Keyed(x)' /\ InHand(x)'
  BY DEF Keyed, InHand, Finds
<1>3. Logged(x)'
  BY AtEntry DEF Logged, Finds, Asks, NoSuccess
<1>. QED
  BY <1>1, <1>2, <1>3 DEF Call

LEMMA ReadDiskKeeps ==
    ASSUME NEW x \in Procs, Inductive, ReadDisk(x)
    PROVE  Inductive'
<1>. USE DEF Inductive
<1>. DEFINE k == job[x].key
            e == disk[k]
            r == pc'[x] = "check" /\ e.raced
            n == IF pc'[x] = "probe" THEN None ELSE k
<1>1. /\ pc[x] = "disk" /\ page' = page
      /\ pc'[x] \in {"probe", "expired", "check", "evict"}
      /\ pc'[x] = "check" => e # None
      /\ job' = [job EXCEPT ![x].key = n, ![x].raced = r]
      /\ answer' = [answer EXCEPT ![x] = IF pc'[x] = "check" THEN e.answer ELSE None]
      /\ memory' = [memory EXCEPT ![x] = IF pc'[x] = "check" THEN _memory_put(@, k, e) ELSE @]
      /\ turns' = turns /\ engine' = engine /\ disk' = disk
  BY DEF ReadDisk, Goes, Locals, world
<1>2. job[x].op # "purge" /\ pc[x] \in Finds
  BY <1>1 DEF Call, Asked, Finds
<1>3. k \in Keys
  BY <1>2, AtEntry
<1>4. e # None => e \in Entries /\ Filed(k, e)
  BY <1>3 DEF Caches
<1>5. Alone(x)
  BY DEF Alone, ReadDisk, Goes, world, Locals
<1>6. World'
  BY DEF World, world, ReadDisk
<1>7. Caches'
  BY <1>1, <1>3, <1>4, PutKeepsTable DEF Caches
<1>a. job[x] \in Jobs /\ job'[x] = [job[x] EXCEPT !.key = n, !.raced = r]
  BY <1>1 DEF Locals
<1>b. n \in Keys \cup {None} /\ (pc'[x] # "probe" => n = k)
  BY <1>3
<1>c. r \in BOOLEAN
  OBVIOUS
<1>. HIDE DEF k, e, r, n
<1>d. /\ job'[x].op = job[x].op /\ job'[x].text = job[x].text /\ job'[x].key = n
      /\ job'[x].changed = job[x].changed /\ (job'[x].raced <=> r)
  BY <1>a DEF Jobs
<1>e. [job[x] EXCEPT !.key = n, !.raced = r] \in Jobs
  BY <1>a, <1>b, <1>c DEF Jobs
<1>8. Locals'
  <2>1. pc' \in [Procs -> Steps]
    BY DEF Locals, ReadDisk, Goes, Steps
  <2>2. job' \in [Procs -> Jobs]
    BY <1>1, <1>a, <1>e DEF Locals
  <2>3. answer' \in [Procs -> Answers \cup {None}]
    BY <1>1, <1>4 DEF Locals, Entries
  <2>. QED
    BY <1>1, <2>1, <2>2, <2>3 DEF Locals
<1>9. Call(x)'
  <2>1. CASE pc'[x] = "probe"
    BY <1>1, <1>2, <1>d, <2>1, GoesWithoutCache
  <2>2. CASE pc'[x] # "probe"
    <3>1. pc'[x] \in {"expired", "check", "evict"} /\ job'[x].key = k
      BY <1>1, <1>b, <1>d, <2>2
    <3>2. Asked(x)' /\ Keyed(x)'
      BY <1>1, <1>2, <1>3, <1>d, <3>1, AtEntry DEF Asked, Keyed, Finds, k
    <3>3. InHand(x)'
      <4>1. SUFFICES ASSUME pc'[x] = "check"
                     PROVE  /\ answer'[x] \in Answers /\ answer'[x].op = job'[x].op
                            /\ answer'[x].about = job'[x].text \/ job'[x].changed \/ job'[x].raced
        BY <3>1 DEF InHand
      <4>2. e # None /\ answer'[x] = e.answer /\ (r <=> e.raced)
        BY <1>1, <4>1 DEF Locals, r
      <4>3. e.answer \in Answers
        BY <1>4, <4>2 DEF Entries
      <4>. QED
        BY <1>2, <1>4, <1>d, <4>2, <4>3, AtEntry DEF Filed, k
    <3>4. Logged(x)'
      BY <1>1, <1>2, <3>1, AtEntry DEF Logged, Finds, Asks
    <3>. QED
      BY <3>2, <3>3, <3>4 DEF Call
  <2>. QED
    BY <2>1, <2>2
<1>. QED
  BY <1>5, <1>6, <1>7, <1>8, <1>9, AloneKeepsOthers

\* The caller has its answer, or its error, or is killed.
LEMMA ReturnIsIdle ==
    ASSUME NEW x \in Procs, Inductive, Return(x), page' = page
    PROVE  Alone(x) /\ Locals' /\ Call(x)'
<1>. USE DEF Inductive
<1>1. Alone(x)
  BY DEF Alone, Return, Locals
<1>2. Locals'
  BY IdleIsJob DEF Return, Locals, Steps
<1>3. pc'[x] = "idle" /\ job'[x] = Idle /\ engine'[x] = AtRest /\ turns'[x] = <<>>
  BY DEF Return, Locals
<1>4. Asked(x)' /\ Keyed(x)' /\ InHand(x)'
  BY <1>3 DEF Asked, Keyed, InHand, Idle, Finds
<1>5. Logged(x)'
  BY <1>3 DEF Logged, AtRest, Finds, Asks
<1>. QED
  BY <1>1, <1>2, <1>4, <1>5 DEF Call

LEMMA ForgetsIsJob ==
    ASSUME NEW x \in Procs, Locals, Forgets(x)
    PROVE  /\ job' \in [Procs -> Jobs] /\ \A y \in Procs \ {x} : job'[y] = job[y]
           /\ job'[x].op = job[x].op /\ job'[x].text = job[x].text
           /\ job'[x].changed = job[x].changed
<1>1. job[x] \in Jobs /\ job'[x] = [job[x] EXCEPT !.key = None, !.raced = FALSE]
  BY DEF Locals, Forgets
<1>2. job'[x] = [op |-> job[x].op, text |-> job[x].text, key |-> None,
                 changed |-> job[x].changed, raced |-> FALSE]
  <2>1. [job[x] EXCEPT !.key = None]
            = [op |-> job[x].op, text |-> job[x].text, key |-> None,
               changed |-> job[x].changed, raced |-> job[x].raced]
    BY <1>1 DEF Jobs
  <2>2. job'[x] = [[job[x] EXCEPT !.key = None] EXCEPT !.raced = FALSE]
    BY <1>1
  <2>. QED
    BY <2>1, <2>2
<1>3. job'[x] \in Jobs
  BY <1>1, <1>2 DEF Jobs
<1>. QED
  BY <1>1, <1>2, <1>3 DEF Locals, Forgets

LEMMA UnlinkKeeps ==
    ASSUME NEW x \in Procs, Inductive, Unlink(x)
    PROVE  Inductive'
<1>. USE DEF Inductive
<1>1. World' /\ page' = page
  BY DEF World, world, Unlink
<1>2. Caches'
  BY DEF Caches, Unlink
<1>3. CASE job[x].op = "purge"
  BY <1>1, <1>2, <1>3, ReturnIsIdle, AloneKeepsOthers DEF Unlink
<1>4. CASE job[x].op # "purge"
  <2>1. /\ pc[x] \in Finds /\ pc' = [pc EXCEPT ![x] = "probe"] /\ Forgets(x)
        /\ UNCHANGED <<answer, engine, turns>>
    BY <1>4 DEF Unlink, Goes, Finds
  <2>2. Alone(x) /\ Locals'
    BY <1>1, <2>1, ForgetsIsJob DEF Alone, Locals, Steps
  <2>3. pc'[x] = "probe"
    BY <2>1 DEF Locals
  <2>4. Call(x)'
    BY <1>1, <1>4, <2>1, <2>3, ForgetsIsJob, GoesWithoutCache
  <2>. QED
    BY <1>1, <1>2, <2>2, <2>4, AloneKeepsOthers
<1>. QED
  BY <1>3, <1>4

LEMMA EvictKeeps ==
    ASSUME NEW x \in Procs, Inductive, cache_evict(x)
    PROVE  Inductive'
<1>. USE DEF Inductive
<1>1. World' /\ page' = page
  BY DEF World, world, cache_evict
<1>2. Caches'
  BY PopKeepsTable DEF Caches, cache_evict
<1>3. /\ pc[x] \in Finds /\ pc' = [pc EXCEPT ![x] = "probe"] /\ Forgets(x)
      /\ job[x].op # "purge" /\ UNCHANGED <<engine, turns>>
      /\ answer' = [answer EXCEPT ![x] = None]
  BY DEF cache_evict, Goes, Finds, Call, Asked
<1>4. Alone(x) /\ Locals'
  BY <1>1, <1>3, ForgetsIsJob DEF Alone, Locals, Steps
<1>5. pc'[x] = "probe"
  BY <1>3 DEF Locals
<1>6. Call(x)'
  BY <1>1, <1>3, <1>5, ForgetsIsJob, GoesWithoutCache
<1>. QED
  BY <1>1, <1>2, <1>4, <1>6, AloneKeepsOthers

LEMMA ValidateKeeps ==
    ASSUME NEW x \in Procs, Inductive, validate_cached_model(x)
    PROVE  Inductive'
<1>. USE DEF Inductive
<1>1. /\ pc[x] = "check" /\ pc'[x] \in {"done", "evict"}
      /\ pc'[x] = "done" => answer[x].valid
      /\ page' = page /\ job' = job /\ answer' = answer /\ engine' = engine /\ turns' = turns
  BY DEF validate_cached_model, Goes, Locals, world
<1>2. World' /\ Caches' /\ Locals' /\ Alone(x)
  BY DEF World, Caches, Locals, Alone, world, caches, validate_cached_model, Goes, Steps
<1>3. Call(x)
  OBVIOUS
<1>4. job[x].op # "purge" /\ pc[x] \in Finds
  BY <1>1, <1>3 DEF Call, Asked, Finds
<1>5. Asked(x)' /\ Keyed(x)'
  BY <1>1, <1>3, <1>4, AtEntry DEF Asked, Keyed, Finds
<1>6. InHand(x)'
  BY <1>1, <1>3 DEF Call, InHand
<1>7. Logged(x)'
  BY <1>1, <1>4, AtEntry DEF Logged, Finds, Asks
<1>. QED
  BY <1>2, <1>5, <1>6, <1>7, AloneKeepsOthers DEF Call

LEMMA PurgeKeeps ==
    ASSUME NEW x \in Procs, Inductive, Purge(x)
    PROVE  Inductive'
<1>. USE DEF Inductive
<1>1. PICK k \in Keys : job' = [job EXCEPT ![x] = [Idle EXCEPT !.op = "purge", !.key = k]]
  BY DEF Purge
<1>. DEFINE j == [Idle EXCEPT !.op = "purge", !.key = k]
<1>4. j \in Jobs /\ j.op = "purge" /\ j.key = k
  <2>1. [Idle EXCEPT !.op = "purge"] \in Jobs /\ [Idle EXCEPT !.op = "purge"].op = "purge"
    BY IdleIsJob DEF Jobs
  <2>2. j = [[Idle EXCEPT !.op = "purge"] EXCEPT !.key = k]
    OBVIOUS
  <2>. QED
    BY <2>1, <2>2 DEF Jobs
<1>5. World' /\ Caches'
  BY DEF World, Caches, world, caches, Purge
<1>6. Alone(x) /\ Locals'
  BY <1>1, <1>4 DEF Alone, Locals, Purge, Goes, world, Steps
<1>7. /\ pc[x] = "idle" /\ pc'[x] = "expired" /\ job'[x] = j /\ page' = page
      /\ engine' = engine /\ turns' = turns
  BY <1>1 DEF Purge, Goes, Locals, world
<1>. HIDE DEF j
<1>8. Call(x)
  OBVIOUS
<1>9. Asked(x)' /\ Keyed(x)' /\ InHand(x)'
  BY <1>4, <1>7 DEF Asked, Keyed, InHand, Finds
<1>10. Logged(x)'
  BY <1>7, <1>8 DEF Call, Logged, Finds, Asks
<1>. QED
  BY <1>5, <1>6, <1>9, <1>10, AloneKeepsOthers DEF Call

LEMMA EndsKeeps ==
    ASSUME NEW x \in Procs, Inductive, Ends(x)
    PROVE  Inductive'
<1>1. World' /\ Caches' /\ page' = page /\ Return(x)
  BY DEF Inductive, Ends, World, Caches, world, caches
<1>. QED
  BY <1>1, ReturnIsIdle, AloneKeepsOthers

LEMMA EmptyIsTable == Table(<<>>)
  BY SemanticCacheAssumption DEF Table, SemanticCacheAssumption

LEMMA KillKeeps ==
    ASSUME NEW x \in Procs, Inductive, Kill(x)
    PROVE  Inductive'
<1>1. World' /\ Caches' /\ page' = page /\ Return(x)
  BY EmptyIsTable DEF Inductive, Kill, World, Caches, world
<1>. QED
  BY <1>1, ReturnIsIdle, AloneKeepsOthers

LEMMA ClearKeeps ==
    ASSUME NEW x \in Procs, Inductive, clear_semantic_cache_memory(x)
    PROVE  Inductive'
<1>. USE DEF Inductive
<1>1. World' /\ Caches' /\ Locals'
  BY EmptyIsTable DEF clear_semantic_cache_memory, World, Caches, Locals, world, locals
<1>2. Alone(x) /\ Call(x)'
  BY DEF clear_semantic_cache_memory, world, locals, Alone, Call, Asked, Keyed, InHand, Logged
<1>. QED
  BY <1>1, <1>2, AloneKeepsOthers

LEMMA ProbeKeeps ==
    ASSUME NEW x \in Procs, Inductive, Probe(x)
    PROVE  Inductive'
<1>. USE DEF Inductive
<1>1. World' /\ Caches' /\ Locals' /\ Alone(x)
  BY DEF Probe, Goes, World, Caches, Locals, Alone, world, caches, Steps
<1>2. /\ pc[x] = "probe" /\ pc'[x] \in {"schema", "instructor"} /\ page' = page
      /\ job' = job /\ turns' = turns
  BY DEF Probe, Goes, Locals, world
<1>3. Call(x)
  OBVIOUS
<1>4. Asked(x)' /\ Keyed(x)' /\ InHand(x)'
  BY <1>2, <1>3 DEF Call, Asked, Keyed, InHand, Finds
<1>5. Logged(x)'
  BY <1>2, <1>3 DEF Call, Logged, Finds, Asks
<1>. QED
  BY <1>1, <1>4, <1>5, AloneKeepsOthers DEF Call

\* Whoever is past the cache has an operation and a text.
LEMMA PastCache ==
    ASSUME NEW x \in Procs, Inductive, pc[x] \notin Finds \cup {"idle"}
    PROVE  /\ job[x].op # "purge" /\ job[x].op \in Ops[x] /\ job[x].op \in Operations
           /\ job[x].text # Gone /\ (job[x].changed \/ job[x].text = page)
           /\ job[x].text \in 1..MaxVersions
<1>1. Asked(x) /\ pc[x] # "expired" /\ pc[x] # "idle"
  BY DEF Inductive, Call, Finds
<1>2. job[x].text \in Mtimes
  BY DEF Inductive, Locals, Jobs
<1>3. job[x].text # Gone => job[x].text \in 1..MaxVersions
  BY <1>2, SemanticCacheAssumption DEF Mtimes, Gone, SemanticCacheAssumption
<1>. QED
  BY <1>1, <1>3 DEF Asked

LEMMA GoodReplyFits ==
    ASSUME NEW x \in Procs, NEW reply, Inductive, pc[x] \in Asks, Says(x, reply)
    PROVE  /\ answer' \in [Procs -> Answers \cup {None}]
           /\ \A y \in Procs \ {x} : answer'[y] = answer[y]
           /\ reply = "good" => /\ answer'[x] \in Answers /\ answer'[x].op = job[x].op
                                /\ answer'[x].about = job[x].text /\ answer'[x].valid
<1>. USE DEF Inductive
<1>1. CASE reply = "good"
  <2>1. PICK s \in 1..2 : answer' = [answer EXCEPT ![x] =
            [op |-> job[x].op, about |-> job[x].text, valid |-> TRUE, size |-> s]]
    BY <1>1 DEF Says
  <2>. DEFINE a == [op |-> job[x].op, about |-> job[x].text, valid |-> TRUE, size |-> s]
  <2>2. a \in Answers
    BY PastCache DEF Answers, Asks, Finds, Operations
  <2>3. answer'[x] = a /\ a.op = job[x].op /\ a.about = job[x].text /\ a.valid
    BY <2>1 DEF Locals
  <2>. HIDE DEF a
  <2>. QED
    BY <2>1, <2>2, <2>3 DEF Locals, a
<1>2. CASE reply # "good"
  BY <1>2 DEF Says, Locals
<1>. QED
  BY <1>1, <1>2

LEMMA Proceeds ==
    ASSUME NEW x \in Procs, NEW reply, NEW n \in Nexts(x), Inductive, pc[x] \in Asks,
           Says(x, reply), Follows(x, n), n.pc = "finalize" => reply = "good",
           UNCHANGED <<caches, world, job, turns, events>>
    PROVE  Inductive'
<1>. USE DEF Inductive
<1>1. World' /\ Caches' /\ page' = page
  BY DEF World, Caches, world, caches
<1>2. /\ n.pc \in Asks \cup {"finalize", "except", "failed"} /\ n.engine \in Engines
      /\ n.pc = "finalize" => n.engine.via # "none"
      /\ n.pc = "except" => job[x].op = "index"
      /\ n.pc = "failed" => job[x].op # "index"
  BY DEF Nexts
<1>3. pc' = [pc EXCEPT ![x] = n.pc] /\ engine' = [engine EXCEPT ![x] = n.engine]
  BY DEF Follows
<1>4. pc'[x] = n.pc /\ engine'[x] = n.engine
  BY <1>3 DEF Locals
<1>5. n.pc \in Steps
  BY <1>2 DEF Asks, Steps
<1>6. Locals' /\ Alone(x)
  BY <1>1, <1>2, <1>3, <1>5, GoodReplyFits DEF Locals, Alone
<1>7. pc[x] \notin Finds \cup {"idle"} /\ NoSuccess(turns[x])
  BY DEF Call, Logged, Asks, Finds
<1>8. Asked(x)' /\ Keyed(x)'
  BY <1>1, <1>2, <1>4, <1>7, PastCache DEF Asked, Keyed, Asks, Finds
<1>9. InHand(x)'
  BY <1>2, <1>4, GoodReplyFits DEF InHand, Asks
<1>10. Logged(x)'
  BY <1>2, <1>4, <1>7 DEF Logged, Asks, Finds
<1>. QED
  BY <1>1, <1>6, <1>8, <1>9, <1>10, AloneKeepsOthers DEF Call

LEMMA RequestKeeps ==
    ASSUME NEW x \in Procs, Inductive, Request(x)
    PROVE  Inductive'
<1>1. PICK reply \in Replies : Follows(x, After(x, reply)) /\ Says(x, reply)
  BY DEF Request
<1>2. /\ pc[x] \in Asks /\ pc[x] \in {"schema", "instructor", "raw", "plain"}
      /\ UNCHANGED <<caches, world, job, turns, events>>
  BY DEF Request, Asks
<1>. QED
  BY <1>1, <1>2, AfterReply, Proceeds DEF Inductive

LEMMA CompleteKeeps ==
    ASSUME NEW x \in Procs, Inductive, Complete(x)
    PROVE  Inductive'
<1>1. pc[x] \in Asks /\ UNCHANGED <<caches, world, job, turns, events>> /\ Locals
  BY DEF Complete, Asks, Inductive
<1>2. PICK reply \in {"good", "refused"} :
        /\ Says(x, reply)
        /\ Follows(x, IF reply = "good" THEN Answered(x, "pathA") ELSE Tries(x, Raises(x)))
  BY DEF Complete
<1>3. CASE reply = "good"
  BY <1>1, <1>2, <1>3, AnswerIsFinal, Proceeds
<1>4. CASE reply # "good"
  <2>1. Tries(x, Raises(x)).pc # "finalize"
    BY DEF Tries, Raises
  <2>. QED
    BY <1>1, <1>2, <1>4, <2>1, RaiseEndsCall, Proceeds
<1>. QED
  BY <1>3, <1>4

\* What a turn adds to the log.
LEMMA TurnIsLast ==
    ASSUME NEW s \in Seq(Turns), NEW t \in Turns
    PROVE  /\ Append(s, t) \in Seq(Turns) /\ Append(s, t) # <<>>
           /\ Append(s, t)[Len(Append(s, t))] = t
           /\ NoSuccess(s) /\ t = "ok" => EndsInSuccess(Append(s, t))
           /\ NoSuccess(s) /\ t # "ok" => NoSuccess(Append(s, t))
<1>1. /\ Append(s, t) \in Seq(Turns) /\ Len(Append(s, t)) = Len(s) + 1 /\ Len(s) \in Nat
      /\ Append(s, t)[Len(s) + 1] = t /\ \A i \in 1..Len(s) : Append(s, t)[i] = s[i]
  OBVIOUS
<1>2. DOMAIN Append(s, t) = 1..Len(s) + 1 /\ DOMAIN s = 1..Len(s)
  BY <1>1
<1>. DEFINE a == Append(s, t)
<1>. HIDE DEF a
<1>3. a # <<>>
  BY <1>1 DEF a
<1>4. ASSUME NEW i \in DOMAIN a
      PROVE  \/ i = Len(a) /\ a[i] = t
             \/ i # Len(a) /\ i \in DOMAIN s /\ a[i] = s[i]
  <2>1. i \in 1..Len(s) + 1 /\ Len(a) = Len(s) + 1 /\ a[Len(s) + 1] = t
    BY <1>1, <1>2 DEF a
  <2>2. CASE i = Len(s) + 1
    <3>1. i = Len(a)
      BY <2>1, <2>2
    <3>2. a[i] = t
      BY <2>1, <2>2
    <3>. QED
      BY <3>1, <3>2
  <2>3. CASE i # Len(s) + 1
    <3>1. i \in 1..Len(s)
      BY <1>1, <2>1, <2>3
    <3>. QED
      BY <1>1, <1>2, <2>1, <2>3, <3>1 DEF a
  <2>. QED
    BY <2>2, <2>3
<1>. QED
  BY <1>1, <1>3, <1>4 DEF a, NoSuccess, EndsInSuccess

\* A turn of x is logged, or lost with the append.
Turn(x, t) == turns' = [turns EXCEPT ![x] = Append(@, t)] /\ turns'[x] = Append(turns[x], t)

LEMMA LogsIsTurn ==
    ASSUME NEW x \in Procs, NEW t \in Turns, Inductive
    PROVE  /\ Logs(x, t) => Turn(x, t) /\ events' = events
           /\ LogFails(x) => Turn(x, "lost") /\ events' \in 0..MaxEvents
<1>1. Logs(x, t) => Turn(x, t) /\ events' = events
  BY DEF Inductive, Logs, Turn, Locals
<1>2. LogFails(x) => Turn(x, "lost")
  BY DEF Inductive, LogFails, Turn, Locals
<1>3. LogFails(x) => events' \in 0..MaxEvents
  BY InferenceAssumption DEF Inductive, LogFails, World, InferenceAssumption
<1>. QED
  BY <1>1, <1>2, <1>3

LEMMA FinalizeKeeps ==
    ASSUME NEW x \in Procs, Inductive, Finalize(x)
    PROVE  Inductive'
<1>. USE DEF Inductive
<1>1. /\ pc[x] = "finalize" /\ page' = page /\ job' = job /\ answer' = answer
      /\ saves' = saves /\ limit' = limit /\ calls' = calls
  BY DEF Finalize, world
<1>2. Caches'
  BY DEF Caches, caches, Finalize
<1>3. /\ pc[x] \notin Finds \cup {"idle"} /\ NoSuccess(turns[x]) /\ engine[x].via # "none"
      /\ turns[x] \in Seq(Turns)
      /\ answer[x] \in Answers /\ answer[x].op = job[x].op
      /\ answer[x].about = job[x].text /\ answer[x].valid
  BY <1>1 DEF Call, Logged, InHand, Finds, Locals
<1>4. CASE job[x].op = "index"
  <2>1. /\ pc' = [pc EXCEPT ![x] = "log"] /\ pc'[x] = "log" /\ engine' = engine
        /\ turns' = turns /\ events' = events
    BY <1>4 DEF Finalize, Goes, Locals
  <2>2. World' /\ Locals' /\ Alone(x)
    BY <1>1, <2>1 DEF World, Locals, Alone, Steps
  <2>3. Call(x)'
    BY <1>1, <1>3, <1>4, <2>1, PastCache DEF Call, Asked, Keyed, InHand, Logged, Finds, Asks
  <2>. QED
    BY <1>2, <2>2, <2>3, AloneKeepsOthers
<1>5. CASE job[x].op # "index" /\ Logs(x, "ok") /\ engine' = engine
           /\ Goes(x, "finalize", IF job[x].op \in CachedOps THEN "put" ELSE "done")
  <2>1. /\ (pc'[x] = "put" /\ job[x].op \in CachedOps) \/ pc'[x] = "done"
        /\ Turn(x, "ok") /\ events' = events
    BY <1>5, LogsIsTurn DEF Goes, Locals, Turns
  <2>2. EndsInSuccess(turns'[x]) /\ turns'[x] \in Seq(Turns)
    BY <1>3, <2>1, TurnIsLast DEF Turn, Turns
  <2>3. World' /\ Locals' /\ Alone(x)
    BY <1>1, <1>5, <2>1, <2>2 DEF World, Locals, Alone, Steps, Goes, Turn
  <2>4. Asked(x)' /\ Keyed(x)' /\ InHand(x)'
    BY <1>1, <1>3, <2>1, PastCache DEF Asked, Keyed, InHand, Finds
  <2>5. Logged(x)'
    BY <1>3, <1>5, <2>1, <2>2 DEF Logged, Finds, Asks
  <2>. QED
    BY <1>2, <2>3, <2>4, <2>5, AloneKeepsOthers DEF Call
<1>6. CASE job[x].op # "index" /\ LogFails(x)
           /\ Follows(x, CASE engine[x].via = "pathA" -> Tries(x, Raises(x))
                           [] engine[x].via = "instructor" -> Tries(x, "raw")
                           [] engine[x].via = "salvage" -> Corrects(x))
  <2>1. PICK n \in Nexts(x) : Follows(x, n) /\ n.pc # "finalize"
    <3>1. engine[x].via \in {"pathA", "instructor", "salvage"}
      BY <1>3 DEF Locals, Engines
    <3>2. /\ Tries(x, Raises(x)) \in Nexts(x) /\ Tries(x, "raw") \in Nexts(x)
          /\ Corrects(x) \in Nexts(x)
      BY RaiseEndsCall, CorrectionIsAsked DEF Asks
    <3>3. /\ Tries(x, Raises(x)).pc # "finalize" /\ Tries(x, "raw").pc # "finalize"
          /\ Corrects(x).pc # "finalize"
      BY DEF Tries, Raises, Corrects
    <3>. QED
      BY <1>6, <3>1, <3>2, <3>3
  <2>2. /\ n.pc \in Asks \cup {"failed"} /\ n.pc \in Steps /\ n.engine \in Engines
        /\ n.pc = "failed" => job[x].op # "index"
    BY <1>6, <2>1 DEF Nexts, Asks, Steps
  <2>3. /\ pc' = [pc EXCEPT ![x] = n.pc] /\ engine' = [engine EXCEPT ![x] = n.engine]
        /\ pc'[x] = n.pc /\ Turn(x, "lost") /\ events' \in 0..MaxEvents
    BY <1>6, <2>1, LogsIsTurn DEF Follows, Locals, Turns
  <2>4. NoSuccess(turns'[x]) /\ turns'[x] \in Seq(Turns)
    BY <1>3, <2>3, TurnIsLast DEF Turn, Turns
  <2>5. World' /\ Locals' /\ Alone(x)
    BY <1>1, <2>2, <2>3, <2>4 DEF World, Locals, Alone, Turn
  <2>6. Asked(x)' /\ Keyed(x)' /\ InHand(x)'
    BY <1>1, <1>3, <2>2, <2>3, PastCache DEF Asked, Keyed, InHand, Finds, Asks
  <2>7. Logged(x)'
    BY <1>1, <2>2, <2>3, <2>4 DEF Logged, Finds, Asks
  <2>. QED
    BY <1>2, <2>5, <2>6, <2>7, AloneKeepsOthers DEF Call
<1>. QED
  BY <1>4, <1>5, <1>6 DEF Finalize

LEMMA LogIndexKeeps ==
    ASSUME NEW x \in Procs, Inductive, LogIndex(x)
    PROVE  Inductive'
<1>. USE DEF Inductive
<1>1. /\ pc[x] = "log" /\ page' = page /\ job' = job /\ answer' = answer /\ engine' = engine
      /\ saves' = saves /\ limit' = limit /\ calls' = calls
  BY DEF LogIndex, Goes, world
<1>2. Caches'
  BY DEF Caches, caches, LogIndex
<1>3. /\ pc[x] \notin Finds \cup {"idle"} /\ NoSuccess(turns[x]) /\ engine[x].via # "none"
      /\ turns[x] \in Seq(Turns) /\ job[x].op = "index"
      /\ answer[x] \in Answers /\ answer[x].op = job[x].op
      /\ answer[x].about = job[x].text /\ answer[x].valid
  BY <1>1 DEF Call, Asked, Logged, InHand, Finds, Locals
<1>4. /\ job[x].op # "purge" /\ job[x].op \in CachedOps /\ job[x].op \in Ops[x]
      /\ job[x].op \in Operations /\ job[x].text # Gone
      /\ job[x].changed \/ job[x].text = page
  BY <1>3, PastCache DEF CachedOps
<1>5. CASE Logs(x, "ok") /\ Goes(x, "log", "put")
  <2>1. pc' = [pc EXCEPT ![x] = "put"] /\ pc'[x] = "put" /\ Turn(x, "ok") /\ events' = events
    BY <1>5, LogsIsTurn DEF Goes, Locals, Turns
  <2>2. EndsInSuccess(turns'[x]) /\ turns'[x] \in Seq(Turns)
    BY <1>3, <2>1, TurnIsLast DEF Turn, Turns
  <2>3. World' /\ Locals' /\ Alone(x)
    BY <1>1, <2>1, <2>2 DEF World, Locals, Alone, Steps, Turn
  <2>4. Asked(x)' /\ Keyed(x)' /\ InHand(x)'
    BY <1>1, <1>3, <1>4, <2>1 DEF Asked, Keyed, InHand, Finds
  <2>5. Logged(x)'
    BY <1>1, <1>3, <2>1, <2>2 DEF Logged, Finds, Asks
  <2>. QED
    BY <1>2, <2>3, <2>4, <2>5, AloneKeepsOthers DEF Call
<1>6. CASE LogFails(x) /\ Goes(x, "log", "except")
  <2>1. /\ pc' = [pc EXCEPT ![x] = "except"] /\ pc'[x] = "except"
        /\ Turn(x, "lost") /\ events' \in 0..MaxEvents
    BY <1>6, LogsIsTurn DEF Goes, Locals, Turns
  <2>2. turns'[x] \in Seq(Turns)
    BY <1>3, <2>1, TurnIsLast DEF Turn, Turns
  <2>3. World' /\ Locals' /\ Alone(x)
    BY <1>1, <2>1, <2>2 DEF World, Locals, Alone, Steps, Turn
  <2>4. Call(x)'
    BY <1>1, <1>3, <1>4, <2>1 DEF Call, Asked, Keyed, InHand, Logged, Finds, Asks
  <2>. QED
    BY <1>2, <2>3, <2>4, AloneKeepsOthers
<1>. QED
  BY <1>5, <1>6 DEF LogIndex

LEMMA PutKeeps ==
    ASSUME NEW x \in Procs, Inductive, Put(x)
    PROVE  Inductive'
<1>. USE DEF Inductive
<1>1. /\ pc[x] = "put" /\ pc' = [pc EXCEPT ![x] = "done"] /\ pc'[x] = "done"
      /\ page' = page /\ job' = job /\ answer' = answer /\ engine' = engine /\ turns' = turns
  BY DEF Put, Goes, Locals, world
<1>2. World' /\ Locals' /\ Alone(x)
  BY <1>1 DEF Put, World, Locals, Alone, world, Steps
<1>3. /\ pc[x] \notin Finds \cup {"idle"} /\ engine[x].via # "none" /\ EndsInSuccess(turns[x])
      /\ answer[x] \in Answers /\ answer[x].op = job[x].op
      /\ answer[x].about = job[x].text /\ answer[x].valid
  BY <1>1 DEF Call, Logged, InHand, Finds
<1>4. job[x].op # "purge" /\ job[x].op \in CachedOps
  BY <1>1, <1>3, PastCache DEF Call, Asked
<1>5. Caches'
  <2>. DEFINE k == semantic_cache_key(job[x].op, page)
              e == CacheNode(answer[x], job[x].changed)
  <2>1. k \in Keys /\ k[1] = job[x].op /\ k[2] = page
    BY <1>4 DEF semantic_cache_key, Keys, World
  <2>2. e \in Entries /\ e.answer = answer[x] /\ (e.raced <=> job[x].changed)
    BY <1>3 DEF CacheNode, Entries, Locals, Jobs
  <2>3. Filed(k, e)
    BY <1>3, <2>1, <2>2, PastCache DEF Filed
  <2>4. CASE _payload_within_limit(answer[x], limit)
    <3>1. /\ disk' = [disk EXCEPT ![k] = e]
          /\ memory' = [memory EXCEPT ![x] = _memory_put(@, k, e)]
      BY <2>4 DEF Put
    <3>. HIDE DEF k, e
    <3>. QED
      BY <2>1, <2>2, <2>3, <3>1, PutKeepsTable DEF Caches
  <2>5. CASE ~_payload_within_limit(answer[x], limit)
    BY <2>5 DEF Put, caches, Caches
  <2>. QED
    BY <2>4, <2>5
<1>6. Asked(x)' /\ Keyed(x)' /\ InHand(x)'
  BY <1>1, <1>3, PastCache DEF Asked, Keyed, InHand, Finds
<1>7. Logged(x)'
  BY <1>1, <1>3 DEF Logged, Finds, Asks
<1>. QED
  BY <1>2, <1>5, <1>6, <1>7, AloneKeepsOthers DEF Call

LEMMA PutFailsKeeps ==
    ASSUME NEW x \in Procs, Inductive, PutFails(x)
    PROVE  Inductive'
<1>. USE DEF Inductive
<1>1. /\ pc[x] = "put" /\ pc'[x] = Raises(x) /\ page' = page /\ job' = job
  BY DEF PutFails, Goes, Locals, world
<1>2. /\ pc'[x] \in {"except", "failed"}
      /\ pc'[x] = "except" => job[x].op = "index"
      /\ pc'[x] = "failed" => job[x].op # "index"
  BY <1>1 DEF Raises
<1>3. World' /\ Caches'
  BY InferenceAssumption DEF PutFails, World, Caches, world, caches, InferenceAssumption
<1>4. Locals' /\ Alone(x)
  <2>1. pc' = [pc EXCEPT ![x] = Raises(x)] /\ Raises(x) \in Steps
    BY <1>1, <1>2 DEF PutFails, Goes, Steps
  <2>. QED
    BY <2>1 DEF PutFails, Locals, Alone, world
<1>5. pc[x] \notin Finds \cup {"idle"}
  BY <1>1 DEF Finds
<1>6. Asked(x)' /\ Keyed(x)' /\ InHand(x)'
  BY <1>1, <1>2, <1>5, PastCache DEF Asked, Keyed, InHand, Finds
<1>7. Logged(x)'
  BY <1>1, <1>2 DEF Logged, Finds, Asks
<1>. QED
  BY <1>3, <1>4, <1>6, <1>7, AloneKeepsOthers DEF Call

LEMMA LogFailureKeeps ==
    ASSUME NEW x \in Procs, Inductive, LogFailure(x)
    PROVE  Inductive'
<1>. USE DEF Inductive
<1>1. /\ pc[x] = "except" /\ pc' = [pc EXCEPT ![x] = "failed"] /\ pc'[x] = "failed"
      /\ page' = page /\ job' = job /\ answer' = answer /\ engine' = engine
      /\ saves' = saves /\ limit' = limit /\ calls' = calls
  BY DEF LogFailure, Goes, Locals, world
<1>2. Caches'
  BY DEF Caches, caches, LogFailure
<1>3. PICK t \in {"failed", "lost"} : Turn(x, t) /\ events' \in 0..MaxEvents
  BY LogsIsTurn DEF LogFailure, Turns, World
<1>4. /\ turns'[x] \in Seq(Turns) /\ turns'[x] # <<>>
      /\ turns'[x][Len(turns'[x])] \in {"failed", "lost"}
  <2>1. turns[x] \in Seq(Turns) /\ t \in Turns
    BY DEF Locals, Turns
  <2>. QED
    BY <1>3, <2>1, TurnIsLast DEF Turn
<1>5. World' /\ Locals' /\ Alone(x)
  BY <1>1, <1>3, <1>4 DEF World, Locals, Alone, Steps, Turn
<1>6. pc[x] \notin Finds \cup {"idle"}
  BY <1>1 DEF Finds
<1>7. Call(x)'
  BY <1>1, <1>4, <1>6, PastCache DEF Call, Asked, Keyed, InHand, Logged, Finds, Asks
<1>. QED
  BY <1>2, <1>5, <1>7, AloneKeepsOthers

-----------------------------------------------------------------------------
(* The theorems *)

LEMMA StepKeeps == Inductive /\ [Next]_vars => Inductive'
<1>. SUFFICES ASSUME Inductive, [Next]_vars PROVE Inductive'
  OBVIOUS
<1>1. CASE Edit
  BY <1>1, EditKeeps
<1>2. CASE Age
  BY <1>2, AgeKeeps
<1>3. ASSUME NEW x \in Procs, NEW op \in Ops[x], Begin(x, op)
      PROVE  Inductive'
  BY <1>3, BeginKeeps
<1>4. ASSUME NEW x \in Procs, Step(x)
      PROVE  Inductive'
  BY <1>4, LookUpKeeps, ReadDiskKeeps, UnlinkKeeps, ValidateKeeps, EvictKeeps, ProbeKeeps,
     RequestKeeps, CompleteKeeps, FinalizeKeeps, LogIndexKeeps, PutKeeps, PutFailsKeeps,
     LogFailureKeeps, EndsKeeps DEF Step
<1>5. ASSUME NEW x \in Procs, Purge(x) \/ clear_semantic_cache_memory(x) \/ Kill(x)
      PROVE  Inductive'
  BY <1>5, PurgeKeeps, ClearKeeps, KillKeeps
<1>6. CASE UNCHANGED vars
  BY <1>6 DEF vars, Inductive, World, Caches, Locals, Call, Asked, Keyed, InHand, Logged
<1>. QED
  BY <1>1, <1>2, <1>3, <1>4, <1>5, <1>6 DEF Next

LEMMA CallsAreSound == Spec => []Inductive
<1>. QED
  BY InitKeeps, StepKeeps, PTL DEF Spec

\* The page, both levels of the cache, and every process' call are well typed;
\* the in-process table holds an entry once and never more than its limit.
THEOREM CacheTypeCorrect == Spec => []TypeOK
<1>1. Inductive => TypeOK
  <2>. SUFFICES ASSUME Inductive PROVE TypeOK
    OBVIOUS
  <2>. USE DEF Inductive
  <2>1. ASSUME NEW x \in Procs
        PROVE  /\ Len(memory[x]) <= MemoryEntries
               /\ \A i \in DOMAIN memory[x] : /\ memory[x][i].key \in Keys
                                              /\ memory[x][i].entry \in Entries
               /\ \A i, j \in DOMAIN memory[x] : memory[x][i].key = memory[x][j].key => i = j
    <3>1. Table(memory[x])
      BY DEF Caches
    <3>2. \A i \in DOMAIN memory[x] : memory[x][i] \in Places
      BY <3>1 DEF Table
    <3>. QED
      BY <3>1, <3>2 DEF Table, Places
  <2>2. ASSUME NEW x \in Procs
        PROVE  /\ pc[x] \in Steps /\ job[x].op \in Ops[x] \cup {"none", "purge"}
               /\ job[x].text \in Mtimes /\ job[x].key \in Keys \cup {None}
               /\ answer[x] \in Answers \cup {None}
               /\ engine[x].attempt < MAX_SELF_CORRECTION_RETRIES
               /\ engine[x].tries \in 1..Retries
    <3>1. job[x] \in Jobs /\ engine[x] \in Engines
      BY DEF Locals
    <3>2. engine[x].attempt < MAX_SELF_CORRECTION_RETRIES /\ engine[x].tries \in 1..Retries
      BY <3>1 DEF Engines, MAX_SELF_CORRECTION_RETRIES
    <3>. QED
      BY <3>1, <3>2 DEF Locals, Jobs, Call, Asked
  <2>. QED
    BY <2>1, <2>2 DEF TypeOK, World, Caches
<1>. QED
  BY <1>1, CallsAreSound, PTL

\* semantic_cache_key, cache_get, cache_put, index_page, classify_marpa_page:
\* whatever is filed, expired, evicted and purged by however many processes,
\* an answer that reaches its caller is about the text the caller read and the
\* question it asked, unless the page changed under the call, or under the
\* call that filed the answer.
THEOREM AnswersFitTheirQuestions == Spec => []AnswersFit
<1>1. Inductive => AnswersFit
  BY DEF Inductive, Call, InHand, AnswersFit
<1>. QED
  BY <1>1, CallsAreSound, PTL

\* index_page, _finalize_structured_completion: an answer that reaches its
\* caller was logged once, last and as a success, or came from the cache
\* and was not logged; the last turn of an index that fails is its failure.
THEOREM TurnsTellOutcomes == Spec => []TurnsTell
<1>1. Inductive => TurnsTell
  BY DEF Inductive, Call, Logged, TurnsTell, EndsInSuccess
<1>. QED
  BY <1>1, CallsAreSound, PTL
=============================================================================
