---------------------------- MODULE ElidedTable -----------------------------
(***************************************************************************)
(* The expanding hash table of assignment-7 (hash/hashtable.h).  Each      *)
(* operation is sequential code inside a TLEGuard: a hardware transaction  *)
(* or, when that fails or the table must expand (explicit_fallback), a     *)
(* lock.  The guard is a library (libtle.so), and is taken to do what the  *)
(* code relies on: the thread that is inside it, holder, runs alone.       *)
(***************************************************************************)
EXTENDS Integers, FiniteSets, Functions

CONSTANTS Threads,       \* the threads that use the table
          Keys,          \* the keys, positive integers
          Hash,          \* murmur3 of each key
          Word,          \* 2^32, where h + i wraps around
          InitCap,       \* the capacity given to the constructor
          Flush,         \* the increments a thread's subcounter holds back
          ProbeLimit,    \* 100, the probes before an accurate count
          Nobody         \* no thread is inside a guard

EMPTY == 0
TOMBSTONE == -1

VARIABLES data, old,     \* the buckets of the table and of the one before
          approxInserts, approxDeletes,
          holder,        \* the thread inside a TLEGuard
          at,            \* what it does there, and at which probe or bucket
          op, key,       \* the operation of each thread
          left,          \* the operations it may still make
          result, seen,  \* for the abstract set
          outcome        \* "running", or "assert" after a failed assertion

counters == <<approxInserts, approxDeletes>>
vars == <<data, old, counters, holder, at, op, key, left, result, seen, outcome>>

(* A table is a function on its indices. *)
NewTable(c) == [b \in 0 .. c - 1 |-> EMPTY]
Capacity(table) == Cardinality(DOMAIN table)

Live(f, S) == {f[b] : b \in S} \cap Keys

(* The keys in the table, and during an expansion those not yet moved. *)
Elements == Live(data, DOMAIN data) \cup
            (IF at.step = "move" THEN Live(old, {b \in DOMAIN old : b >= at.i}) ELSE {})

(* The counters of common/util.h *)
Zero == [global |-> 0, sub |-> [t \in Threads |-> 0]]
getAccurate(c) == c.global + SumFunction(c.sub)
inc(c, t) == IF c.sub[t] + 1 >= Flush
             THEN [global |-> c.global + c.sub[t] + 1, sub |-> [c.sub EXCEPT ![t] = 0]]
             ELSE [c EXCEPT !.sub[t] = @ + 1]

getAccurateSize == getAccurate(approxInserts) - getAccurate(approxDeletes)

Outside == [step |-> "outside", i |-> 0]

Init ==
  /\ data = NewTable(InitCap) /\ old = NewTable(0)
  /\ approxInserts = Zero /\ approxDeletes = Zero
  /\ holder = Nobody /\ at = Outside
  /\ op = [t \in Threads |-> "none"]
  /\ key = [t \in Threads |-> 0]
  /\ left \in [Threads -> Nat]
  /\ result = [t \in Threads |-> FALSE]
  /\ seen = [t \in Threads |-> {}]
  /\ outcome = "running"

-----------------------------------------------------------------------------
(* insertIfAbsent or erase *)
Call(t, o, k) ==
  /\ op[t] = "none" /\ left[t] > 0
  /\ left' = [left EXCEPT ![t] = @ - 1]
  /\ op' = [op EXCEPT ![t] = o]
  /\ key' = [key EXCEPT ![t] = k]
  /\ seen' = [seen EXCEPT ![t] = {Elements}]
  /\ UNCHANGED <<data, old, counters, holder, at, result, outcome>>

opVars == <<op, key, left, result, seen>>

(* TLEGuard *)
EnterGuard(t) ==
  /\ holder = Nobody /\ op[t] # "none"
  /\ holder' = t
  /\ at' = [step |-> op[t], i |-> 0]
  /\ UNCHANGED <<data, old, counters, opVars, outcome>>

(* The operation of t returns r, leaving the buckets d, and its guard ends. *)
Return(t, r, d) ==
  /\ data' = d
  /\ holder' = Nobody /\ at' = Outside
  /\ op' = [op EXCEPT ![t] = "none"]
  /\ key' = [key EXCEPT ![t] = 0]
  /\ result' = [result EXCEPT ![t] = r]
  /\ seen' = [u \in Threads |-> IF u = t \/ op[u] = "none" THEN {}
                                ELSE seen[u] \cup {Live(d, DOMAIN d)}]
  /\ UNCHANGED <<old, left, outcome>>

-----------------------------------------------------------------------------
Slot(k, n, table) == ((Hash[k] + n) % Word) % Capacity(table)
Here(t) == Slot(key[t], at.i, data)

NextProbe ==
  /\ at' = [at EXCEPT !.i = @ + 1]
  /\ UNCHANGED <<data, old, counters, holder, opVars, outcome>>

isExpandNeeded ==
  \/ approxInserts.global > Capacity(data) \div 2
  \/ at.i > ProbeLimit /\ getAccurate(approxInserts) > Capacity(data) \div 2

(* sequentialInsert, one probe *)
InsertProbe(t) ==
  /\ holder = t /\ at.step = "insert" /\ at.i < Capacity(data) /\ ~ isExpandNeeded
  /\ \/ data[Here(t)] = key[t] /\ Return(t, FALSE, data) /\ UNCHANGED counters
     \/ /\ data[Here(t)] = EMPTY
        /\ Return(t, TRUE, [data EXCEPT ![Here(t)] = key[t]])
        /\ approxInserts' = inc(approxInserts, t)
        /\ UNCHANGED approxDeletes
     \/ data[Here(t)] \notin {key[t], EMPTY} /\ NextProbe

Fails ==
  /\ outcome' = "assert"
  /\ UNCHANGED <<data, old, counters, holder, at, opVars>>

(* The loop ends without a return, and assert(false) follows. *)
InsertOverrun(t) ==
  /\ holder = t /\ at.step = "insert" /\ at.i = Capacity(data) /\ Fails

(* sequentialErase, one probe *)
ErasedProbe(t) ==
  /\ holder = t /\ at.step = "erase" /\ at.i < Capacity(data)
  /\ \/ data[Here(t)] = EMPTY /\ Return(t, FALSE, data) /\ UNCHANGED counters
     \/ /\ data[Here(t)] = key[t]
        /\ Return(t, TRUE, [data EXCEPT ![Here(t)] = TOMBSTONE])
        /\ approxDeletes' = inc(approxDeletes, t)
        /\ UNCHANGED approxInserts
     \/ data[Here(t)] \notin {key[t], EMPTY} /\ NextProbe

EraseOverrun(t) ==
  /\ holder = t /\ at.step = "erase" /\ at.i = Capacity(data)
  /\ Return(t, FALSE, data) /\ UNCHANGED counters

-----------------------------------------------------------------------------
(* expand: a new table four times as large as the counters say there are   *)
(* keys, *)
Expand(t) ==
  /\ holder = t /\ at.step = "insert" /\ at.i < Capacity(data) /\ isExpandNeeded
  /\ old' = data
  /\ data' = NewTable(4 * getAccurateSize)
  /\ at' = [step |-> "move", i |-> 0]
  /\ UNCHANGED <<counters, holder, opVars, outcome>>

(* The bucket of the new table where sequentialInsert puts key k, or none. *)
Free(k) == {n \in DOMAIN data : data[Slot(k, n, data)] \in {k, EMPTY}}
FirstFree(k) == Slot(k, CHOOSE n \in Free(k) : \A m \in Free(k) : n <= m, data)

(* to which sequentialInsert moves the keys, and counts them again; *)
Move(t) ==
  LET k == old[at.i]
  IN /\ holder = t /\ at.step = "move" /\ at.i < Capacity(old)
     /\ \/ k \notin Keys /\ NextProbe
        \/ /\ k \in Keys /\ Free(k) # {}
           /\ data' = [data EXCEPT ![FirstFree(k)] = k]
           /\ approxInserts' = inc(approxInserts, t)
           /\ at' = [at EXCEPT !.i = @ + 1]
           /\ UNCHANGED <<old, approxDeletes, holder, opVars, outcome>>

(* Mutant of EndExpand: the inserts are reset like the deletes. *)
EndExpandUncounted(t) ==
  /\ holder = t /\ at.step = "move" /\ at.i = Capacity(old)
  /\ approxInserts' = Zero
  /\ approxDeletes' = Zero
  /\ at' = [step |-> "insert", i |-> 0]
  /\ UNCHANGED <<data, old, holder, opVars, outcome>>

(* the counters are adjusted, and the insert starts again in the new table. *)
EndExpand(t) ==
  /\ holder = t /\ at.step = "move" /\ at.i = Capacity(old)
  /\ approxInserts' = [Zero EXCEPT !.global = getAccurateSize]
  /\ approxDeletes' = Zero
  /\ at' = [step |-> "insert", i |-> 0]
  /\ UNCHANGED <<data, old, holder, opVars, outcome>>

-----------------------------------------------------------------------------
Finished == /\ outcome = "assert" \/ \A t \in Threads : op[t] = "none" /\ left[t] = 0
            /\ UNCHANGED vars

Next ==
  \/ /\ outcome = "running"
     /\ \E t \in Threads :
          \/ \E o \in {"insert", "erase"}, k \in Keys : Call(t, o, k)
          \/ EnterGuard(t) \/ InsertProbe(t) \/ InsertOverrun(t)
          \/ ErasedProbe(t) \/ EraseOverrun(t)
          \/ Expand(t) \/ Move(t) \/ EndExpand(t)
  \/ Finished

Spec == Init /\ [][Next]_vars

-----------------------------------------------------------------------------
(* The counters never say that there are fewer keys than there are, *)
CountersCover == Cardinality(Elements) <= getAccurateSize

(* the key that an expansion moves next finds a bucket, *)
MovesFit ==
  at.step = "move" /\ at.i < Capacity(old) /\ old[at.i] \in Keys => Free(old[at.i]) # {}

(* and so does the insert that asked for the expansion, if the new table   *)
(* has any bucket: it has none when the counters say that it needs none.   *)
RetryFits == at.step = "move" /\ Capacity(data) > 0 => Free(key[holder]) # {}

TableFits == CountersCover /\ MovesFit /\ RetryFits

(* What the assertion at the end of sequentialInsert says: an insert never *)
(* runs off its loop.                                                      *)
InsertsFindRoom == outcome = "running"
=============================================================================
