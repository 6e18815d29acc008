---------------------------- MODULE BucketLocks -----------------------------
(***************************************************************************)
(* What algorithms A and B of assignment-4 share beyond ProbeTable: a      *)
(* mutex in every bucket (struct BUCKET, alg_a.h) and getSumOfKeys, which  *)
(* locks every bucket, in index order, before it unlocks the first one.    *)
(*                                                                         *)
(* The accesses between m.lock() and m.unlock() are one step, because only *)
(* the holder of the lock writes the bucket.                               *)
(***************************************************************************)
EXTENDS ProbeTable

CONSTANT Nobody        \* no thread: the mutex is free

ASSUME LockAssumption == Nobody \notin Threads

VARIABLE lock          \* the thread that holds the mutex of each bucket

lockVars == <<tableVars, lock>>

Held(t) == {b \in Buckets : lock[b] = t}

LockInit == TableInit /\ lock = [b \in Buckets |-> Nobody]

(* data[b].m.lock(): the step waits until the mutex is free. *)
Acquire(t, b) == lock[b] = Nobody /\ lock' = [lock EXCEPT ![b] = t]

(* data[b].m.unlock() *)
Release(t, b) == lock' = [lock EXCEPT ![b] = Nobody]

SumCall(t) == Enter(t, "sum", 0, "sum") /\ UNCHANGED lock

(* Mutant of SumLock: getSumOfKeys reads the buckets without their locks. *)
SumUnlocked(t) ==
  pc[t] = "sum" /\ i[t] < Cap /\ AddBucket(t) /\ UNCHANGED lock

SumLock(t) ==
  pc[t] = "sum" /\ i[t] < Cap /\ Acquire(t, i[t]) /\ AddBucket(t)

SumUnlock(t) ==
  /\ pc[t] = "sum" /\ i[t] = Cap /\ Held(t) # {}
  /\ Release(t, Min(Held(t)))
  /\ UNCHANGED tableVars

(* Mutant of SumReturn: the loop that unlocks is missing. *)
SumReturnLocked(t) ==
  /\ pc[t] = "sum" /\ i[t] = Cap
  /\ Leave(t, result[t], data)
  /\ UNCHANGED lock

SumReturn(t) ==
  /\ pc[t] = "sum" /\ i[t] = Cap /\ Held(t) = {}
  /\ Leave(t, result[t], data)
  /\ UNCHANGED lock

(* The locks a thread holds come before the one it waits for, so threads   *)
(* cannot wait for each other in a circle; only getSumOfKeys holds several *)
(* locks, and a thread outside every operation holds none.                 *)
LockOrder(waiting) ==
  \A t \in Threads :
    /\ pc[t] = "idle" => Held(t) = {}
    /\ pc[t] \in waiting => Held(t) = {}
    /\ op[t] = "sum" => \A b \in Held(t) : b < i[t]

(* The lock-based tables do not get stuck: while operations are running,   *)
(* one of them ends.  A particular one may starve, since std::mutex is not *)
(* fair.                                                                   *)
AllIdle == \A t \in Threads : pc[t] = "idle"
OneEnds == \E t \in Threads : pc[t] # "idle" /\ pc'[t] = "idle"

SomeOperationEnds == []<>AllIdle \/ []<><<OneEnds>>_lockVars
=============================================================================
