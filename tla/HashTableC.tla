----------------------------- MODULE HashTableC -----------------------------
(***************************************************************************)
(* Algorithm C of assignment-4 (alg_c.h): the lock-free table.  Buckets    *)
(* are atomic<int>; an insert claims an empty bucket and an erase buries   *)
(* a key with compare_exchange_strong.                                     *)
(***************************************************************************)
EXTENDS ProbeTable

Labels == {"idle", "insert", "insertCAS", "insertRecheck",
           "erase", "eraseCAS", "sum"}

TypeOK == TableTypeOK(Labels)

Init == TableInit

-----------------------------------------------------------------------------
(* insertIfAbsent *)
InsertCall(t, k) == Enter(t, "insert", k, "insert")

(* int found = data[index].key, and the tests of found. *)
InsertRead(t) ==
  /\ pc[t] = "insert"
  /\ \/ data[Here(t)] = key[t] /\ Leave(t, FALSE, data)
     \/ data[Here(t)] = EMPTY /\ Goto(t, "insertCAS")
     \/ data[Here(t)] \notin {key[t], EMPTY} /\ Advance(t, "insert")

(* compare_exchange_strong(found, key), where found is 0. *)
InsertCAS(t) ==
  /\ pc[t] = "insertCAS"
  /\ \/ /\ data[Here(t)] = EMPTY
        /\ Leave(t, TRUE, [data EXCEPT ![Here(t)] = key[t]])
     \/ data[Here(t)] # EMPTY /\ Goto(t, "insertRecheck")

(* Mutant of InsertRecheck: the second look at the bucket is missing. *)
InsertNoRecheck(t) == pc[t] = "insertRecheck" /\ Advance(t, "insert")

(* Mutant of InsertRecheck: a failed CAS is tried again. *)
InsertRetry(t) ==
  /\ pc[t] = "insertRecheck"
  /\ \/ data[Here(t)] = key[t] /\ Leave(t, FALSE, data)
     \/ data[Here(t)] # key[t] /\ Goto(t, "insertCAS")

(* After a failed CAS: is it our key that was put there? *)
InsertRecheck(t) ==
  /\ pc[t] = "insertRecheck"
  /\ \/ data[Here(t)] = key[t] /\ Leave(t, FALSE, data)
     \/ data[Here(t)] # key[t] /\ Advance(t, "insert")

(* erase *)
EraseCall(t, k) == Enter(t, "erase", k, "erase")

EraseRead(t) ==
  /\ pc[t] = "erase"
  /\ \/ data[Here(t)] = EMPTY /\ Leave(t, FALSE, data)
     \/ data[Here(t)] = key[t] /\ Goto(t, "eraseCAS")
     \/ data[Here(t)] \notin {key[t], EMPTY} /\ Advance(t, "erase")

(* Mutant of EraseCAS: the bucket is emptied instead of buried. *)
EraseToEmpty(t) ==
  /\ pc[t] = "eraseCAS"
  /\ \/ /\ data[Here(t)] = key[t]
        /\ Leave(t, TRUE, [data EXCEPT ![Here(t)] = EMPTY])
     \/ data[Here(t)] # key[t] /\ Leave(t, FALSE, data)

(* Mutant of EraseCAS: the outcome of the CAS is ignored. *)
EraseIgnoresCAS(t) ==
  /\ pc[t] = "eraseCAS"
  /\ \/ /\ data[Here(t)] = key[t]
        /\ Leave(t, TRUE, [data EXCEPT ![Here(t)] = TOMBSTONE])
     \/ data[Here(t)] # key[t] /\ Leave(t, TRUE, data)

(* return compare_exchange_strong(found, TOMBSTONE), where found is key. *)
EraseCAS(t) ==
  /\ pc[t] = "eraseCAS"
  /\ \/ /\ data[Here(t)] = key[t]
        /\ Leave(t, TRUE, [data EXCEPT ![Here(t)] = TOMBSTONE])
     \/ data[Here(t)] # key[t] /\ Leave(t, FALSE, data)

(* getSumOfKeys: reads the buckets one by one, without any lock. *)
SumCall(t) == Enter(t, "sum", 0, "sum")
SumRead(t) == pc[t] = "sum" /\ AddBucket(t)
SumReturn(t) == pc[t] = "sum" /\ i[t] = Cap /\ Leave(t, result[t], data)

-----------------------------------------------------------------------------
CallStep(t) ==
  \/ \E k \in Keys : InsertCall(t, k) \/ EraseCall(t, k)
  \/ SumCall(t)

Step(t) ==
  \/ InsertRead(t) \/ InsertCAS(t) \/ InsertRecheck(t)
  \/ EraseRead(t) \/ EraseCAS(t)
  \/ SumRead(t) \/ SumReturn(t)

Next == \E t \in Threads : CallStep(t) \/ Step(t)

Spec == Init /\ [][Next]_tableVars

-----------------------------------------------------------------------------
(* The strengthening of KeysUnique and KeysReachable that is inductive:    *)
(* the buckets a thread has passed are used up by something else than its  *)
(* key, for good; so is a bucket where an insert lost the race.            *)
PassedBuckets ==
  \A t \in Threads :
    /\ Updating(t) =>
         \A m \in 0 .. i[t] - 1 : data[Slot(key[t], m)] \notin {EMPTY, key[t]}
    /\ pc[t] = "insertRecheck" => data[Here(t)] # EMPTY

(* An erase that lost the race for its key's bucket was overtaken: there   *)
(* was a moment since its call at which the key was absent, although the   *)
(* key may have been inserted again, further along, when it returns.       *)
LostEraseJustified ==
  \A t \in Threads : pc[t] = "eraseCAS" /\ data[Here(t)] # key[t] =>
    \E S \in seen[t] : key[t] \notin S

(* What the locals of a thread are between two of its steps, and that the  *)
(* history of a running operation includes the present.                    *)
LocalsOK ==
  \A t \in Threads :
    /\ (op[t] = "none") = (pc[t] = "idle")
    /\ (op[t] = "insert") = (pc[t] \in {"insert", "insertCAS", "insertRecheck"})
    /\ (op[t] = "erase") = (pc[t] \in {"erase", "eraseCAS"})
    /\ Updating(t) => key[t] \in Keys /\ i[t] \in Probes
    /\ op[t] = "none" => i[t] = 0
    /\ Updating(t) => Elements \in seen[t]

(* The inductive invariant behind the theorems of HashTableC_proofs. *)
IInv ==
  /\ TypeOK
  /\ LocalsOK
  /\ KeysUnique
  /\ KeysReachable
  /\ PassedBuckets
  /\ LostEraseJustified

(* Wait-freedom: whatever the other threads do, and even if every CAS it   *)
(* tries fails, each step of an operation ends it or takes it further on   *)
(* its way of at most 3 * Cap + 1 stages; no step takes it back.           *)
Stage(p, n) ==
  3 * n + IF p \in {"insert", "erase", "sum"} THEN 0
          ELSE IF p = "insertRecheck" THEN 2 ELSE 1

GoesOn(t) ==
  pc[t] # "idle" /\ pc'[t] # "idle" /\ <<pc'[t], i'[t]>> # <<pc[t], i[t]>>
    => Stage(pc[t], i[t]) < Stage(pc'[t], i'[t])

WaitFree == [][\A t \in Threads : GoesOn(t)]_tableVars
=============================================================================
