----------------------------- MODULE HashTableD -----------------------------
(***************************************************************************)
(* Algorithm D of assignment-4 (alg_d.h): the lock-free table that         *)
(* expands.  A thread that finds the table half used makes a larger one    *)
(* and publishes it in currentTable; every operation then helps to move    *)
(* the old keys, chunk by chunk, and waits until all of them are moved.    *)
(* Moving a bucket marks it first, so that no thread still working on the  *)
(* old table can change it.                                                *)
(*                                                                         *)
(* A step is one access to shared memory with the local computation that   *)
(* follows it.  A read of a value that can no longer change (a mark, a     *)
(* complete migration) is joined with the step that follows.               *)
(***************************************************************************)
EXTENDS Integers, Sequences, FiniteSets, Functions

CONSTANTS NumThreads,  \* tids are 0 .. NumThreads - 1
          Keys,        \* positive keys
          Hash, Word,  \* murmur3, and 2^32, the range of uint32_t
          InitCap,     \* capacity of the first table
          Chunk,       \* buckets per chunk: 4096 in the code
          ProbeLimit,  \* probes before the accurate count: 50 (10 in alg_d_prime.h)
          Flush,       \* size of a counter's batch: max(1000, 30 * NumThreads)
          Debug,       \* TRUE in benchmark_debug, FALSE with -DNDEBUG
          Ops          \* bound: operations per thread

Threads == 0 .. NumThreads - 1

ASSUME ExpandAssumption ==
  /\ NumThreads \in Nat \ {0} /\ Keys \subseteq Nat \ {0}
  /\ Word \in Nat \ {0} /\ Hash \in [Keys -> 0 .. Word - 1]
  /\ InitCap \in Nat \ {0} /\ Chunk \in Nat \ {0}
  /\ ProbeLimit \in Nat /\ Flush \in Nat \ {0}
  /\ Debug \in BOOLEAN /\ Ops \in [Threads -> Nat]

EMPTY == 0
TOMBSTONE == -1

VARIABLES tables,      \* every table ever published, oldest first
          current,     \* currentTable, an index into tables
          local,       \* the locals of each thread
          left,        \* operations each thread may still start
          result,      \* what its last operation returned
          seen,        \* history: the contents of the set since the call
          outcome      \* "running", or how the program ended early

vars == <<tables, current, local, left, result, seen, outcome>>

(* A bucket is one atomic word: a key and, in its top bit, a mark. *)
Word32(k, m) == [key |-> k, marked |-> m]
Vacant == Word32(EMPTY, FALSE)

(* class counter of util.h *)
Zero == [sub |-> [t \in Threads |-> 0], global |-> 0]

(* new table(...): old is the table it replaces, 0 for the first one. *)
NewTable(cap, old) ==
  [cap |-> cap, old |-> old, bucket |-> [b \in 0 .. cap - 1 |-> Vacant],
   inserts |-> Zero, deletes |-> Zero, claimed |-> 0, done |-> 0]

OldOf(T) == tables[tables[T].old]

(* ceil((float)t->oldCapacity / 4096), exact for capacities below 2^24. *)
OldChunks(tabs, T) ==
  IF tabs[T].old = 0 THEN 0
  ELSE (tabs[tabs[T].old].cap + Chunk - 1) \div Chunk

Migrated(T) == tables[T].done = OldChunks(tables, T)

(* (h + i) % capacity *)
Slot(T, k, n) == ((Hash[k] + n) % Word) % tables[T].cap

KeysIn(tab) == {tab.bucket[b].key : b \in 0 .. tab.cap - 1} \cap Keys

(* The abstract set: the old table counts until every chunk is moved. *)
LiveIn(tabs, cur) ==
  KeysIn(tabs[IF tabs[cur].done = OldChunks(tabs, cur) THEN cur
              ELSE tabs[cur].old])

Live == LiveIn(tables, current)

-----------------------------------------------------------------------------
Fresh == [pc |-> "idle", op |-> "none", key |-> 0, tab |-> 0, i |-> 0,
          help |-> 0, restart |-> FALSE, b |-> 0, found |-> Vacant,
          into |-> 0, j |-> 0, acc |-> 0, pos |-> 0, cap |-> 0]

Init ==
  /\ tables = <<NewTable(InitCap, 0)>>
  /\ current = 1
  /\ local = [t \in Threads |-> Fresh]
  /\ left = Ops
  /\ result = [t \in Threads |-> FALSE]
  /\ seen = [t \in Threads |-> {}]
  /\ outcome = "running"

quiet == <<current, left, result, seen, outcome>>     \* what most steps keep

Goto(t, p) == local' = [local EXCEPT ![t].pc = p]

(* A step that changes nothing but the locals of t. *)
Only(t, l) == local' = [local EXCEPT ![t] = l] /\ UNCHANGED <<tables, quiet>>
OnlyGoto(t, p) == Only(t, [local[t] EXCEPT !.pc = p])

(* The first lines of insertIfAbsent and erase, which load currentTable. *)
Begin(o, k) ==
  [Fresh EXCEPT !.pc = "expand", !.op = o, !.key = k, !.tab = current, !.help = current]

Restart(t) == Only(t, Begin(local[t].op, local[t].key))

(* Thread t takes effect with answer r; the tables become tabs. *)
Answer(t, r, tabs) ==
  /\ tables' = tabs
  /\ result' = [result EXCEPT ![t] = r]
  /\ seen' = [u \in Threads |-> IF u = t \/ seen[u] = {} THEN {}
                                ELSE seen[u] \cup {LiveIn(tabs, current)}]
  /\ UNCHANGED <<current, left, outcome>>

(* An operation that changes nothing answers r and ends. *)
Return(t, r) ==
  Answer(t, r, tables) /\ local' = [local EXCEPT ![t] = Fresh]

(* A failed assertion, an exit, or the end of a function without return. *)
Fail(what) ==
  outcome' = what /\ UNCHANGED <<tables, current, local, left, result, seen>>

Call(t, o, k) ==
  /\ local[t].pc = "idle" /\ left[t] > 0
  /\ left' = [left EXCEPT ![t] = @ - 1]
  /\ seen' = [seen EXCEPT ![t] = {Live}]
  /\ local' = [local EXCEPT ![t] = Begin(o, k)]
  /\ UNCHANGED <<tables, current, result, outcome>>

-----------------------------------------------------------------------------
(* helpExpansion: claim a chunk of the table help while there is one. *)
HelpTest(t) ==
  /\ local[t].pc = "expand"
  /\ tables[local[t].help].claimed < OldChunks(tables, local[t].help)
  /\ OnlyGoto(t, "claim")

HelpClaim(t) ==
  LET T == local[t].help
      c == tables[T].claimed
  IN /\ local[t].pc = "claim"
     /\ tables' = [tables EXCEPT ![T].claimed = @ + 1]
     /\ IF c < OldChunks(tables, T)
        THEN local' = [local EXCEPT ![t].pc = "read", ![t].b = c * Chunk]
        ELSE Goto(t, "expand")
     /\ UNCHANGED quiet

(* migrate: on to the next bucket of the chunk, or out of its loop. *)
NextBucket(t) ==
  LET n == local[t].b + 1
      out == n % Chunk = 0 \/ n = OldOf(local[t].help).cap
  IN [local[t] EXCEPT !.b = n, !.into = 0, !.j = 0, !.found = Vacant,
                      !.pc = IF out THEN "moved" ELSE "read"]

ReadOld(t) ==
  LET old == OldOf(local[t].help) IN
  /\ local[t].pc = "read"
  /\ Only(t, [local[t] EXCEPT !.pc = "mark", !.found = old.bucket[local[t].b]])

(* What migrate does with the key it has marked, if there is one. *)
AfterMark(t) ==
  local' = [local EXCEPT ![t] = IF @.found.key \in Keys THEN [@ EXCEPT !.pc = "copy"]
                                ELSE NextBucket(t)]

(* Mutant of MarkOld: the mark is stored together with what was read. *)
MarkByStore(t) ==
  LET old == tables[local[t].help].old IN
  /\ local[t].pc = "mark"
  /\ tables' = [tables EXCEPT ![old].bucket[local[t].b] = Word32(local[t].found.key, TRUE)]
  /\ AfterMark(t)
  /\ UNCHANGED quiet

(* The CAS that sets the mark; when it fails the bucket is read again. *)
MarkOld(t) ==
  LET old == tables[local[t].help].old
      b == local[t].b
  IN /\ local[t].pc = "mark"
     /\ \/ /\ tables[old].bucket[b] = local[t].found
           /\ tables' = [tables EXCEPT ![old].bucket[b].marked = TRUE]
           /\ AfterMark(t)
           /\ UNCHANGED quiet
        \/ tables[old].bucket[b] # local[t].found /\ OnlyGoto(t, "read")

(* insertIfAbsent(tid, key, true) of the key found: it loads currentTable. *)
CopyCall(t) ==
  /\ local[t].pc = "copy"
  /\ Only(t, [local[t] EXCEPT !.pc = "copyRead", !.into = current])

CopySlot(t) == Slot(local[t].into, local[t].found.key, local[t].j)
Target(t) == tables[local[t].into].bucket[CopySlot(t)]
Copied(t) == Word32(local[t].found.key, FALSE)

CopyAdvance(t) ==
  IF local[t].j + 1 < tables[local[t].into].cap
  THEN Only(t, [local[t] EXCEPT !.pc = "copyRead", !.j = @ + 1])
  ELSE Fail("ran out")

(* The key is in the new table already: assert(false), or on with the rest. *)
CopyFound(t) == IF Debug THEN Fail("copied twice") ELSE Only(t, NextBucket(t))

CopyRead(t) ==
  /\ local[t].pc = "copyRead"
  /\ \/ Target(t) = Copied(t) /\ CopyFound(t)
     \/ Target(t) = Vacant /\ OnlyGoto(t, "copyCAS")
     \/ Target(t) \notin {Copied(t), Vacant} /\ CopyAdvance(t)

CopyCAS(t) ==
  /\ local[t].pc = "copyCAS"
  /\ \/ /\ Target(t) = Vacant
        /\ tables' = [tables EXCEPT ![local[t].into].bucket[CopySlot(t)] = Copied(t)]
        /\ Goto(t, "inc")
        /\ UNCHANGED quiet
     \/ Target(t) # Vacant /\ OnlyGoto(t, "copyRecheck")

CopyRecheck(t) ==
  /\ local[t].pc = "copyRecheck"
  /\ IF Target(t) = Copied(t) THEN CopyFound(t) ELSE CopyAdvance(t)

(* t->chunksDone.fetch_add(1), and back to the loop of helpExpansion. *)
ChunkDone(t) ==
  /\ local[t].pc = "moved"
  /\ tables' = [tables EXCEPT ![local[t].help].done = @ + 1]
  /\ local' = [local EXCEPT ![t].pc = "expand", ![t].b = 0]
  /\ UNCHANGED quiet

-----------------------------------------------------------------------------
(* Mutant of HelpedAll: the wait for chunksDone is missing. *)
HelpedUnfinished(t) ==
  /\ local[t].pc = "expand"
  /\ tables[local[t].help].claimed >= OldChunks(tables, local[t].help)

(* The end of helpExpansion: it waits until every chunk is done.           *)
HelpedAll(t) ==
  /\ local[t].pc = "expand"
  /\ tables[local[t].help].claimed >= OldChunks(tables, local[t].help)
  /\ Migrated(local[t].help)

HalfUsed(t, n) == n > tables[local[t].tab].cap \div 2

(* expandAsNeeded: t->insertAC->get(), and the accurate count after many   *)
(* probes.                                                                 *)
CheckUse(t) ==
  /\ HelpedAll(t) /\ ~local[t].restart
  /\ OnlyGoto(t, IF HalfUsed(t, tables[local[t].tab].inserts.global) THEN "start"
                 ELSE IF local[t].i > ProbeLimit THEN "count" ELSE "probe")

(* What getAccurate adds in its step number pos. *)
Part(counter, pos) == IF pos < NumThreads THEN counter.sub[pos] ELSE counter.global

(* t->insertAC->getAccurate() > t->currCapacity / 2 *)
CountUse(t) ==
  LET acc == local[t].acc + Part(tables[local[t].tab].inserts, local[t].pos) IN
  /\ local[t].pc = "count"
  /\ Only(t, IF local[t].pos < NumThreads
             THEN [local[t] EXCEPT !.acc = acc, !.pos = @ + 1]
             ELSE [local[t] EXCEPT !.acc = 0, !.pos = 0,
                     !.pc = IF HalfUsed(t, acc) THEN "start" ELSE "probe"])

(* startExpansion: only the first thread to get here makes a table. *)
StartExpansion(t) ==
  /\ local[t].pc = "start"
  /\ OnlyGoto(t, IF current = local[t].tab THEN "size" ELSE "again")

(* newCap from insertAC->getAccurate() - deleteAC->getAccurate(), which    *)
(* the model evaluates from left to right.                                 *)
CountKeys(t) ==
  LET tab == tables[local[t].tab]
      pos == local[t].pos
      acc == local[t].acc + (IF pos <= NumThreads THEN Part(tab.inserts, pos)
                             ELSE 0 - Part(tab.deletes, pos - NumThreads - 1))
      last == pos = 2 * NumThreads + 1
  IN /\ local[t].pc = "size"
     /\ \/ ~last /\ Only(t, [local[t] EXCEPT !.acc = acc, !.pos = @ + 1])
        \/ /\ last /\ (acc > 0 \/ (acc = 0 /\ ~Debug))
           /\ Only(t, [local[t] EXCEPT !.acc = 0, !.pos = 0, !.pc = "swap",
                         !.cap = IF acc = 0 THEN 2 * tab.cap ELSE 4 * acc])
        \/ last /\ acc = 0 /\ Debug /\ Fail("no keys")
        \/ last /\ acc < 0 /\ Fail("bad alloc")

(* Mutant of Publish: currentTable = t_new. *)
PublishByStore(t) ==
  /\ local[t].pc = "swap"
  /\ tables' = Append(tables, NewTable(local[t].cap, local[t].tab))
  /\ current' = Len(tables) + 1
  /\ local' = [local EXCEPT ![t].pc = "again", ![t].cap = 0]
  /\ UNCHANGED <<left, result, seen, outcome>>

(* currentTable.compare_exchange_strong(t, t_new) *)
Publish(t) ==
  /\ local[t].pc = "swap"
  /\ \/ /\ current = local[t].tab
        /\ tables' = Append(tables, NewTable(local[t].cap, local[t].tab))
        /\ current' = Len(tables) + 1
     \/ current # local[t].tab /\ UNCHANGED <<tables, current>>
  /\ local' = [local EXCEPT ![t].pc = "again", ![t].cap = 0]
  /\ UNCHANGED <<left, result, seen, outcome>>

(* helpExpansion(tid, currentTable.load()) *)
HelpCurrent(t) ==
  /\ local[t].pc = "again"
  /\ Only(t, [local[t] EXCEPT !.pc = "expand", !.help = current, !.restart = TRUE])

(* Mutant of AfterExpansion: the retry keeps the table it had. *)
RetrySameTable(t) ==
  /\ HelpedAll(t) /\ local[t].restart
  /\ Only(t, [local[t] EXCEPT !.i = 0, !.help = local[t].tab, !.restart = FALSE])

(* expandAsNeeded returned true: the operation calls itself. *)
AfterExpansion(t) == HelpedAll(t) /\ local[t].restart /\ Restart(t)

-----------------------------------------------------------------------------
(* The bucket that thread t probes, and its atomic replacement by word w,  *)
(* which is where a successful operation takes effect.                     *)
Here(t) == Slot(local[t].tab, local[t].key, local[t].i)
Bucket(t) == tables[local[t].tab].bucket[Here(t)]
Mine(t) == Word32(local[t].key, FALSE)

Store(t, w) ==
  /\ Answer(t, TRUE, [tables EXCEPT ![local[t].tab].bucket[Here(t)] = w])
  /\ Goto(t, "inc")

ProbeAgain(t) == Only(t, [local[t] EXCEPT !.pc = "expand", !.i = @ + 1])

AfterLoop(t) == IF local[t].op = "insert" THEN Fail("ran out") ELSE Return(t, FALSE)

(* ++i: the next iteration, or what follows the loop. *)
NextProbe(t) ==
  IF local[t].i + 1 < tables[local[t].tab].cap THEN ProbeAgain(t) ELSE AfterLoop(t)

At(t, p, o) == local[t].pc = p /\ local[t].op = o

Other(t) == ~Bucket(t).marked /\ Bucket(t).key \notin {local[t].key, EMPTY}

InsertRead(t) ==
  /\ At(t, "probe", "insert")
  /\ \/ Bucket(t).marked /\ Restart(t)
     \/ Bucket(t) = Mine(t) /\ Return(t, FALSE)
     \/ Bucket(t) = Vacant /\ OnlyGoto(t, "cas")
     \/ Other(t) /\ NextProbe(t)

InsertCAS(t) ==
  /\ At(t, "cas", "insert")
  /\ \/ Bucket(t) = Vacant /\ Store(t, Mine(t))
     \/ Bucket(t) # Vacant /\ OnlyGoto(t, "recheck")

InsertRecheck(t) ==
  /\ At(t, "recheck", "insert")
  /\ \/ Bucket(t).marked /\ Restart(t)
     \/ Bucket(t) = Mine(t) /\ Return(t, FALSE)
     \/ Other(t) /\ NextProbe(t)

EraseRead(t) ==
  /\ At(t, "probe", "erase")
  /\ \/ Bucket(t) = Vacant /\ Return(t, FALSE)
     \/ Bucket(t).marked /\ Restart(t)
     \/ Bucket(t) = Mine(t) /\ OnlyGoto(t, "cas")
     \/ Other(t) /\ NextProbe(t)

(* Mutant of EraseCAS: the tombstone is stored whatever the bucket holds. *)
EraseByStore(t) == At(t, "cas", "erase") /\ Store(t, Word32(TOMBSTONE, FALSE))

EraseCAS(t) ==
  /\ At(t, "cas", "erase")
  /\ \/ Bucket(t) = Mine(t) /\ Store(t, Word32(TOMBSTONE, FALSE))
     \/ Bucket(t) # Mine(t) /\ OnlyGoto(t, "recheck")

EraseRecheck(t) ==
  /\ At(t, "recheck", "erase")
  /\ \/ Bucket(t).marked /\ Restart(t)
     \/ Bucket(t) = Word32(TOMBSTONE, FALSE) /\ Return(t, FALSE)

-----------------------------------------------------------------------------
(* counter::inc of the counter that the thread's insert or erase updates,  *)
(* and what follows it: migrate goes on, or the operation returns.         *)
Into(t) == IF local[t].into # 0 THEN local[t].into ELSE local[t].tab
Which(t) == IF local[t].into = 0 /\ local[t].op = "erase" THEN "deletes" ELSE "inserts"

Counted(t) ==
  local' = [local EXCEPT ![t] = IF @.into # 0 THEN NextBucket(t) ELSE Fresh]

Inc(t) ==
  LET n == tables[Into(t)][Which(t)].sub[t] + 1 IN
  /\ local[t].pc = "inc"
  /\ tables' = [tables EXCEPT ![Into(t)][Which(t)].sub[t] = n]
  /\ IF n >= Flush THEN Goto(t, "flush") ELSE Counted(t)
  /\ UNCHANGED quiet

FlushBatch(t) ==
  /\ local[t].pc = "flush"
  /\ tables' = [tables EXCEPT ![Into(t)][Which(t)].global =
                  @ + tables[Into(t)][Which(t)].sub[t]]
  /\ Goto(t, "clear")
  /\ UNCHANGED quiet

(* Mutant of ClearBatch: the flushed batch is not cleared. *)
KeepBatch(t) == local[t].pc = "clear" /\ Counted(t) /\ UNCHANGED <<tables, quiet>>

ClearBatch(t) ==
  /\ local[t].pc = "clear"
  /\ tables' = [tables EXCEPT ![Into(t)][Which(t)].sub[t] = 0]
  /\ Counted(t)
  /\ UNCHANGED quiet

-----------------------------------------------------------------------------
Step(t) ==
  \/ HelpTest(t) \/ HelpClaim(t) \/ ReadOld(t) \/ MarkOld(t) \/ CopyCall(t)
  \/ CopyRead(t) \/ CopyCAS(t) \/ CopyRecheck(t) \/ ChunkDone(t)
  \/ CheckUse(t) \/ CountUse(t) \/ StartExpansion(t) \/ CountKeys(t)
  \/ Publish(t) \/ HelpCurrent(t) \/ AfterExpansion(t)
  \/ InsertRead(t) \/ InsertCAS(t) \/ InsertRecheck(t)
  \/ EraseRead(t) \/ EraseCAS(t) \/ EraseRecheck(t)
  \/ Inc(t) \/ FlushBatch(t) \/ ClearBatch(t)

CallStep(t) == \E o \in {"insert", "erase"}, k \in Keys : Call(t, o, k)

(* The threads have made their calls, or the program is gone. *)
Ended ==
  /\ outcome # "running" \/ \A t \in Threads : local[t].pc = "idle" /\ left[t] = 0
  /\ UNCHANGED vars

Next ==
  \/ outcome = "running" /\ \E t \in Threads : CallStep(t) \/ Step(t)
  \/ Ended

Spec == Init /\ [][Next]_vars

(* The scheduler runs every thread that is inside an operation.            *)
FairSpec ==
  Spec /\ \A t \in Threads :
            WF_vars(outcome = "running" /\ Step(t))

-----------------------------------------------------------------------------
(* currentTable moves on only when the migration into it is complete: no   *)
(* key is ever in three tables (startExpansion, helpExpansion).            *)
OneMigrationAtATime == [][current' # current => Migrated(current)]_vars

(* Nobody changes a bucket that migrate has marked, whatever stale found   *)
(* it holds.                                                               *)
MarkedIsFrozen ==
  [][\A T \in 1 .. Len(tables) : \A b \in 0 .. tables[T].cap - 1 :
       tables[T].bucket[b].marked => tables'[T].bucket[b] = tables[T].bucket[b]]_vars

(* While keys are being moved only migrate writes to the new table, since  *)
(* every operation waits for the end of the migration before it works      *)
(* there: the new table holds only keys whose old bucket is marked, and    *)
(* the assertions about a key that migrate inserts hold: it is not there   *)
(* yet (alg_d.h, lines 243 and 261).                                       *)
NewTableHoldsMovedKeys ==
  /\ outcome # "copied twice"
  /\ ~Migrated(current) =>
       \A k \in KeysIn(tables[current]) :
         Word32(k, TRUE) \in {OldOf(current).bucket[b] : b \in 0 .. OldOf(current).cap - 1}

(* The numbers that decide when to expand, and by how much, are those of   *)
(* the buckets: the parts of a table's insert counter are the buckets ever *)
(* filled, and those of its delete counter the tombstones, but for the     *)
(* thread that has not counted yet and the batch not cleared yet.          *)
Counting(T, which) ==
  {t \in Threads : local[t].pc = "inc" /\ Into(t) = T /\ Which(t) = which}

FlushedTwice(T, which) ==
  [t \in Threads |->
     IF local[t].pc = "clear" /\ Into(t) = T /\ Which(t) = which
     THEN tables[T][which].sub[t] ELSE 0]

Parts(T, which) ==
  FoldFunction(+, tables[T][which].global, tables[T][which].sub)
    - FoldFunction(+, 0, FlushedTwice(T, which))
    + Cardinality(Counting(T, which))

CountersTellBuckets ==
  \A T \in 1 .. Len(tables) :
    LET Having(S) == {b \in 0 .. tables[T].cap - 1 : tables[T].bucket[b].key \in S}
    IN /\ Parts(T, "inserts") = Cardinality(Having(Keys \cup {TOMBSTONE}))
       /\ Parts(T, "deletes") = Cardinality(Having({TOMBSTONE}))

(* What the assertion on line 162 of alg_d.h says: an expansion finds at   *)
(* least one key.                                                          *)
ExpansionFindsKeys == outcome # "no keys"

(* Every operation ends: no thread waits for ever for a chunk that another *)
(* one claimed, and expansions do not go on for ever.                      *)
OperationsEnd ==
  \A t \in Threads : []<>(outcome # "running" \/ local[t].pc = "idle")

(* The table is a linearizable set without a bound on its size, as long as *)
(* the program runs.                                                       *)
absCall == [t \in Threads |-> IF seen[t] = {} THEN [op |-> "none", key |-> 0]
                              ELSE [op |-> local[t].op, key |-> local[t].key]]

Abstract == INSTANCE LinSet WITH members <- Live, call <- absCall

ImplementsSet == Abstract!SetSpec
=============================================================================
