----------------------------- MODULE ProbeTable -----------------------------
(***************************************************************************)
(* What the fixed-capacity tables A, B and C of assignment-4 share: an     *)
(* array of buckets probed linearly from the hash of a key, a thread's     *)
(* locals, and the start and end of an operation.  alg_a.h, alg_b.h and    *)
(* alg_c.h repeat this code; HashTableA, HashTableB and HashTableC add the *)
(* steps that differ.                                                      *)
(*                                                                         *)
(* A step is one access to shared memory with the local computation that   *)
(* follows it, up to the next access.                                      *)
(***************************************************************************)
EXTENDS Integers, FiniteSets, FiniteSetsExt

CONSTANTS Threads,     \* the threads that use the table
          Keys,        \* the keys: positive, benchmark.cpp draws 1..keyRangeSize
          Cap,         \* capacity, the number of buckets
          Word,        \* unsigned arithmetic is modulo Word: 2^32 in the code
          Hash         \* murmur3, an arbitrary function from keys to words

ASSUME TableAssumption ==
  /\ Keys \subseteq Nat \ {0}
  /\ Cap \in Nat \ {0}
  /\ Word \in Nat \ {0}
  /\ Hash \in [Keys -> 0 .. Word - 1]

EMPTY == 0             \* a bucket no key was ever written to
TOMBSTONE == -1        \* a bucket whose key was erased

Buckets == 0 .. Cap - 1
Probes == 0 .. Cap - 1

VARIABLES data,        \* the key in each bucket, EMPTY or TOMBSTONE
          pc,          \* where each thread is
          op, key,     \* the operation it executes, and on which key
          i,           \* the loop counter of that operation
          sum,         \* the sum getSumOfKeys has accumulated
          result,      \* what its last insert or erase returned
          seen         \* history: the contents of the table since the call

tableVars == <<data, pc, op, key, i, sum, result, seen>>

(* (h + i) % capacity, where h + i is computed in uint32_t and may wrap.   *)
(* When it does the probe sequence repeats some buckets and misses others. *)
Slot(k, n) == ((Hash[k] + n) % Word) % Cap

(* data[index] of the loop iteration that thread t is in. *)
Here(t) == Slot(key[t], i[t])

(* The keys in the table when the buckets are d: the abstract set. *)
ElementsOf(d) == {d[b] : b \in Buckets} \cap Keys

Elements == ElementsOf(data)

(* The buckets that were ever written, and those that k's probes reach. *)
Used == {b \in Buckets : data[b] # EMPTY}
Reached(k) == {Slot(k, n) : n \in Probes}

-----------------------------------------------------------------------------
TableInit ==
  /\ data = [b \in Buckets |-> EMPTY]
  /\ pc = [t \in Threads |-> "idle"]
  /\ op = [t \in Threads |-> "none"]
  /\ key = [t \in Threads |-> 0]
  /\ i = [t \in Threads |-> 0]
  /\ sum = [t \in Threads |-> 0]
  /\ result = [t \in Threads |-> FALSE]
  /\ seen = [t \in Threads |-> {}]

(* Thread t enters operation o on key k; its first step is at label p. *)
Enter(t, o, k, p) ==
  /\ pc[t] = "idle"
  /\ pc' = [pc EXCEPT ![t] = p]
  /\ op' = [op EXCEPT ![t] = o]
  /\ key' = [key EXCEPT ![t] = k]
  /\ seen' = [seen EXCEPT ![t] = {Elements}]
  /\ UNCHANGED <<data, i, sum, result>>

(* Thread t leaves its operation; the buckets become d and its result r.   *)
(* Every operation still running has then seen the contents d.             *)
Leave(t, r, d) ==
  /\ data' = d
  /\ pc' = [pc EXCEPT ![t] = "idle"]
  /\ op' = [op EXCEPT ![t] = "none"]
  /\ key' = [key EXCEPT ![t] = 0]
  /\ i' = [i EXCEPT ![t] = 0]
  /\ sum' = [sum EXCEPT ![t] = 0]
  /\ result' = [result EXCEPT ![t] = r]
  /\ seen' = [u \in Threads |-> IF u = t \/ pc[u] = "idle"
                                THEN {} ELSE seen[u] \cup {ElementsOf(d)}]

(* Thread t goes on to label p, inside the same loop iteration. *)
Goto(t, p) ==
  /\ pc' = [pc EXCEPT ![t] = p]
  /\ UNCHANGED <<data, op, key, i, sum, result, seen>>

(* ++i and the test i < capacity: on to the next iteration, which starts at *)
(* label p, or out of the loop and return false.                            *)
Advance(t, p) ==
  \/ /\ i[t] + 1 < Cap
     /\ i' = [i EXCEPT ![t] = @ + 1]
     /\ pc' = [pc EXCEPT ![t] = p]
     /\ UNCHANGED <<data, op, key, sum, result, seen>>
  \/ /\ i[t] + 1 >= Cap
     /\ Leave(t, FALSE, data)

(* Mutant of AddBucket: the test found > 0 is missing. *)
AddBucketUntested(t) ==
  /\ i[t] < Cap
  /\ sum' = [sum EXCEPT ![t] = @ + data[i[t]]]
  /\ i' = [i EXCEPT ![t] = @ + 1]
  /\ UNCHANGED <<data, pc, op, key, result, seen>>

(* One iteration of the loop of getSumOfKeys: add bucket i if it holds a key. *)
AddBucket(t) ==
  /\ i[t] < Cap
  /\ sum' = [sum EXCEPT ![t] = @ + (IF data[i[t]] > 0 THEN data[i[t]] ELSE 0)]
  /\ i' = [i EXCEPT ![t] = @ + 1]
  /\ UNCHANGED <<data, pc, op, key, result, seen>>

-----------------------------------------------------------------------------
TableTypeOK(Labels) ==
  /\ data \in [Buckets -> Keys \cup {EMPTY, TOMBSTONE}]
  /\ pc \in [Threads -> Labels]
  /\ op \in [Threads -> {"none", "insert", "erase", "sum"}]
  /\ key \in [Threads -> Keys \cup {0}]
  /\ i \in [Threads -> 0 .. Cap]
  /\ sum \in [Threads -> Int]
  /\ result \in [Threads -> BOOLEAN]
  /\ seen \in [Threads -> SUBSET SUBSET Keys]

(* No key is in two buckets: two inserts of the same key that race never   *)
(* both succeed (insertIfAbsent), even while other buckets turn into       *)
(* tombstones.                                                             *)
KeysUnique ==
  \A b, c \in Buckets : data[b] \in Keys /\ data[b] = data[c] => b = c

(* Every key can be found: it lies on its probe path before any empty      *)
(* bucket, where a probe would give up.                                    *)
KeysReachable ==
  \A b \in Buckets : data[b] \in Keys =>
    \E n \in Probes : /\ Slot(data[b], n) = b
                      /\ \A m \in 0 .. n - 1 : data[Slot(data[b], m)] # EMPTY

(* getSumOfKeys returns the sum of the contents of the table at one moment *)
(* since it was called.                                                    *)
SumIsSnapshot ==
  \A t \in Threads : op[t] = "sum" /\ i[t] = Cap =>
    \E S \in seen[t] : sum[t] = SumSet(S)

(* What an unlocked getSumOfKeys still guarantees: it counts every key     *)
(* that stays in the table, and it is exact when no update overlaps it,    *)
(* which is how benchmark.cpp uses it.                                     *)
SumCountsStableKeys ==
  \A t \in Threads : op[t] = "sum" /\ i[t] = Cap =>
    /\ SumSet({k \in Keys : \A S \in seen[t] : k \in S}) <= sum[t]
    /\ \A S \in seen[t] : seen[t] = {S} => sum[t] = SumSet(S)

-----------------------------------------------------------------------------
(* Each table implements BoundedSet.  getSumOfKeys is not one of the       *)
(* abstract operations.                                                    *)
Updating(t) == op[t] \in {"insert", "erase"}

absCall == [t \in Threads |-> IF Updating(t)
                              THEN [op |-> op[t], key |-> key[t]]
                              ELSE [op |-> "none", key |-> 0]]
absSeen == [t \in Threads |-> IF Updating(t) THEN seen[t] ELSE {}]

Abstract == INSTANCE BoundedSet
              WITH members <- Elements, call <- absCall, seen <- absSeen,
                   spent <- Cardinality(Used),
                   room <- [k \in Keys |-> Cardinality(Reached(k))]

(* The table is a linearizable set that refuses an insert only when every  *)
(* bucket on the key's probe path has been used up.                        *)
ImplementsSet == Abstract!BoundedSpec
=============================================================================
