----------------------------- MODULE HashTableB -----------------------------
(***************************************************************************)
(* Algorithm B of assignment-4 (alg_b.h): a probe reads its bucket without *)
(* the lock, and locks it and looks again only when it means to change it. *)
(* The unlocked read races with the writes; the key is an aligned int, so  *)
(* the build reads the value of the last write.                            *)
(***************************************************************************)
EXTENDS BucketLocks

Init == LockInit

-----------------------------------------------------------------------------
(* insertIfAbsent *)
InsertCall(t, k) == Enter(t, "insert", k, "insert") /\ UNCHANGED lock

(* The unlocked read of the bucket. *)
InsertRead(t) ==
  /\ pc[t] = "insert"
  /\ \/ data[Here(t)] = key[t] /\ Leave(t, FALSE, data)
     \/ data[Here(t)] = EMPTY /\ Goto(t, "insertLock")
     \/ data[Here(t)] \notin {key[t], EMPTY} /\ Advance(t, "insert")
  /\ UNCHANGED lock

InsertLock(t) ==
  pc[t] = "insertLock" /\ Acquire(t, Here(t)) /\ Goto(t, "insertLocked")

(* The bucket looked empty: look again under the lock. *)
InsertLocked(t) ==
  /\ pc[t] = "insertLocked"
  /\ Release(t, Here(t))
  /\ \/ /\ data[Here(t)] = EMPTY
        /\ Leave(t, TRUE, [data EXCEPT ![Here(t)] = key[t]])
     \/ data[Here(t)] = key[t] /\ Leave(t, FALSE, data)
     \/ data[Here(t)] \notin {key[t], EMPTY} /\ Advance(t, "insert")

(* erase *)
EraseCall(t, k) == Enter(t, "erase", k, "erase") /\ UNCHANGED lock

EraseRead(t) ==
  /\ pc[t] = "erase"
  /\ \/ data[Here(t)] = EMPTY /\ Leave(t, FALSE, data)
     \/ data[Here(t)] = key[t] /\ Goto(t, "eraseLock")
     \/ data[Here(t)] \notin {key[t], EMPTY} /\ Advance(t, "erase")
  /\ UNCHANGED lock

EraseLock(t) ==
  pc[t] = "eraseLock" /\ Acquire(t, Here(t)) /\ Goto(t, "eraseLocked")

(* Mutant of EraseLocked: the bucket is emptied instead of buried. *)
EraseToEmpty(t) ==
  /\ pc[t] = "eraseLocked"
  /\ Release(t, Here(t))
  /\ \/ /\ data[Here(t)] = key[t]
        /\ Leave(t, TRUE, [data EXCEPT ![Here(t)] = EMPTY])
     \/ data[Here(t)] # key[t] /\ Leave(t, FALSE, data)

(* Mutant of EraseLocked: the second look at the bucket is missing. *)
EraseNoRecheck(t) ==
  /\ pc[t] = "eraseLocked"
  /\ Release(t, Here(t))
  /\ Leave(t, TRUE, [data EXCEPT ![Here(t)] = TOMBSTONE])

(* The bucket held the key: look again under the lock.  It holds the key   *)
(* still or a tombstone (EraseSeesKeyOrTombstone), so that the code after  *)
(* these two tests is never reached.                                       *)
EraseLocked(t) ==
  /\ pc[t] = "eraseLocked"
  /\ Release(t, Here(t))
  /\ \/ /\ data[Here(t)] = key[t]
        /\ Leave(t, TRUE, [data EXCEPT ![Here(t)] = TOMBSTONE])
     \/ data[Here(t)] = TOMBSTONE /\ Leave(t, FALSE, data)

-----------------------------------------------------------------------------
CallStep(t) ==
  \/ \E k \in Keys : InsertCall(t, k) \/ EraseCall(t, k)
  \/ SumCall(t)

Step(t) ==
  \/ InsertRead(t) \/ InsertLock(t) \/ InsertLocked(t)
  \/ EraseRead(t) \/ EraseLock(t) \/ EraseLocked(t)
  \/ SumLock(t) \/ SumUnlock(t) \/ SumReturn(t)

Next == \E t \in Threads : CallStep(t) \/ Step(t)

Spec == Init /\ [][Next]_lockVars

-----------------------------------------------------------------------------
(* What erase finds under the lock, after an unlocked read of its key, is  *)
(* the key or a tombstone: the fall through at alg_b.h:102 is dead code.   *)
EraseSeesKeyOrTombstone ==
  \A t \in Threads :
    pc[t] = "eraseLocked" => data[Here(t)] \in {key[t], TOMBSTONE}

(* A thread locks the bucket it means to change, or all in getSumOfKeys.   *)
LocksOrdered == LockOrder({"insert", "insertLock", "erase", "eraseLock"})
=============================================================================
