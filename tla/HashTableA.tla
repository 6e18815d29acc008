----------------------------- MODULE HashTableA -----------------------------
(***************************************************************************)
(* Algorithm A of assignment-4 (alg_a.h): every probe locks its bucket.    *)
(***************************************************************************)
EXTENDS BucketLocks

Init == LockInit

-----------------------------------------------------------------------------
(* insertIfAbsent *)
InsertCall(t, k) == Enter(t, "insert", k, "insert") /\ UNCHANGED lock

InsertLock(t) ==
  pc[t] = "insert" /\ Acquire(t, Here(t)) /\ Goto(t, "insertLocked")

(* Mutant of InsertLocked: an occupied bucket is not unlocked. *)
InsertKeepsLock(t) ==
  /\ pc[t] = "insertLocked"
  /\ \/ data[Here(t)] = key[t] /\ Leave(t, FALSE, data) /\ Release(t, Here(t))
     \/ /\ data[Here(t)] = EMPTY
        /\ Leave(t, TRUE, [data EXCEPT ![Here(t)] = key[t]])
        /\ Release(t, Here(t))
     \/ /\ data[Here(t)] \notin {key[t], EMPTY}
        /\ Advance(t, "insert") /\ UNCHANGED lock

(* The critical section of an insert: the bucket holds the key, is free,   *)
(* or belongs to another key or to a tombstone.                            *)
InsertLocked(t) ==
  /\ pc[t] = "insertLocked"
  /\ Release(t, Here(t))
  /\ \/ data[Here(t)] = key[t] /\ Leave(t, FALSE, data)
     \/ /\ data[Here(t)] = EMPTY
        /\ Leave(t, TRUE, [data EXCEPT ![Here(t)] = key[t]])
     \/ data[Here(t)] \notin {key[t], EMPTY} /\ Advance(t, "insert")

(* erase *)
EraseCall(t, k) == Enter(t, "erase", k, "erase") /\ UNCHANGED lock

EraseLock(t) ==
  pc[t] = "erase" /\ Acquire(t, Here(t)) /\ Goto(t, "eraseLocked")

EraseLocked(t) ==
  /\ pc[t] = "eraseLocked"
  /\ Release(t, Here(t))
  /\ \/ data[Here(t)] = EMPTY /\ Leave(t, FALSE, data)
     \/ /\ data[Here(t)] = key[t]
        /\ Leave(t, TRUE, [data EXCEPT ![Here(t)] = TOMBSTONE])
     \/ data[Here(t)] \notin {key[t], EMPTY} /\ Advance(t, "erase")

-----------------------------------------------------------------------------
CallStep(t) ==
  \/ \E k \in Keys : InsertCall(t, k) \/ EraseCall(t, k)
  \/ SumCall(t)

Step(t) ==
  \/ InsertLock(t) \/ InsertLocked(t) \/ EraseLock(t) \/ EraseLocked(t)
  \/ SumLock(t) \/ SumUnlock(t) \/ SumReturn(t)

Next == \E t \in Threads : CallStep(t) \/ Step(t)

Spec == Init /\ [][Next]_lockVars

-----------------------------------------------------------------------------
(* A thread locks one bucket at a time, or all in order in getSumOfKeys. *)
LocksOrdered == LockOrder({"insert", "erase"})
=============================================================================
