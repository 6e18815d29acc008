--------------------------- MODULE ShardedCounter ---------------------------
(***************************************************************************)
(* The two sharded counters of assignment-2/counters_impl.h.  Both keep a  *)
(* count per thread, which that thread alone increments, and both read by  *)
(* adding the counts one after the other.  CounterShardedLocked has a      *)
(* mutex per shard, and read takes them all, in order, before it gives any *)
(* back; the shards of CounterShardedWaitfree are atomic, without a lock.  *)
(*                                                                         *)
(* inc of CounterShardedWaitfree has no return statement; what its caller  *)
(* gets is only printed and is not modelled.                               *)
(***************************************************************************)
EXTENDS Integers, FiniteSets, Functions

CONSTANTS NumThreads,  \* numThreads: the shards 0 .. NumThreads - 1
          MaxCount,    \* bound: increments of each thread
          Nobody       \* no process: the mutex is free

Tids == 0 .. NumThreads - 1
Procs == 0 .. NumThreads     \* the threads, and main, which only reads

VARIABLES locked,      \* TRUE for CounterShardedLocked, and never changes
          count,       \* shards[tid].count
          lock,        \* the process that holds the mutex of each shard
          pc,          \* where each process is
          i,           \* tid, the loop counter of its read
          sum,         \* what its read has added up
          answer,      \* what its last read returned
          seen         \* history: the totals since its read was called

vars == <<locked, count, lock, pc, i, sum, answer, seen>>

Total == FoldFunction(+, 0, count)

Init ==
  /\ locked \in BOOLEAN
  /\ count = [t \in Tids |-> 0]
  /\ lock = [t \in Tids |-> Nobody]
  /\ pc = [p \in Procs |-> "idle"]
  /\ i = [p \in Procs |-> 0]
  /\ sum = [p \in Procs |-> 0]
  /\ answer = [p \in Procs |-> 0]
  /\ seen = [p \in Procs |-> {}]

Goto(p, l) == pc' = [pc EXCEPT ![p] = l]

Acquire(p, t) == lock[t] = Nobody /\ lock' = [lock EXCEPT ![t] = p]
Release(t) == lock' = [lock EXCEPT ![t] = Nobody]
Held(p) == {t \in Tids : lock[t] = p}

-----------------------------------------------------------------------------
(* shards[tid].count++; every read that is running has then seen the total. *)
Increment(t) ==
  /\ count[t] < MaxCount[t]
  /\ count' = [count EXCEPT ![t] = @ + 1]
  /\ seen' = [p \in Procs |-> IF seen[p] = {} THEN {} ELSE seen[p] \cup {Total + 1}]
  /\ UNCHANGED <<locked, i, sum, answer>>

(* inc of CounterShardedWaitfree: one atomic increment *)
IncAtomic(t) ==
  ~locked /\ pc[t] = "idle" /\ Increment(t) /\ UNCHANGED <<pc, lock>>

(* inc of CounterShardedLocked *)
IncLock(t) ==
  /\ locked /\ pc[t] = "idle" /\ count[t] < MaxCount[t]
  /\ Acquire(t, t) /\ Goto(t, "inc")
  /\ UNCHANGED <<locked, count, i, sum, answer, seen>>

(* Mutant of IncLocked: the mutex is not unlocked. *)
IncKeepsLock(t) == pc[t] = "inc" /\ Increment(t) /\ Goto(t, "idle") /\ UNCHANGED lock

IncLocked(t) == pc[t] = "inc" /\ Increment(t) /\ Release(t) /\ Goto(t, "idle")

-----------------------------------------------------------------------------
ReadCall(p) ==
  /\ pc[p] = "idle" /\ Goto(p, "read")
  /\ seen' = [seen EXCEPT ![p] = {Total}]
  /\ UNCHANGED <<locked, count, lock, i, sum, answer>>

(* Mutant of AddShard: the read adds the first shard again and again. *)
AddFirstShard(p) ==
  /\ pc[p] = "read" /\ i[p] < NumThreads
  /\ sum' = [sum EXCEPT ![p] = @ + count[0]]
  /\ i' = [i EXCEPT ![p] = @ + 1]
  /\ UNCHANGED <<locked, count, pc, answer, seen>>

(* sum += shards[tid].count *)
AddShard(p) ==
  /\ pc[p] = "read" /\ i[p] < NumThreads
  /\ sum' = [sum EXCEPT ![p] = @ + count[i[p]]]
  /\ i' = [i EXCEPT ![p] = @ + 1]
  /\ UNCHANGED <<locked, count, pc, answer, seen>>

(* One iteration of the loop of read, which locks the shard if it can be. *)
ReadShard(p) ==
  /\ i[p] < NumThreads /\ AddShard(p)
  /\ \/ locked /\ Acquire(p, i[p])
     \/ ~locked /\ UNCHANGED lock

(* The second loop of CounterShardedLocked::read *)
ReadUnlock(p) ==
  /\ pc[p] = "read" /\ i[p] = NumThreads /\ Held(p) # {}
  /\ Release(CHOOSE t \in Held(p) : \A u \in Held(p) : t <= u)
  /\ UNCHANGED <<locked, count, pc, i, sum, answer, seen>>

(* return sum *)
ReadReturn(p) ==
  /\ pc[p] = "read" /\ i[p] = NumThreads /\ Held(p) = {} /\ Goto(p, "idle")
  /\ answer' = [answer EXCEPT ![p] = sum[p]]
  /\ i' = [i EXCEPT ![p] = 0] /\ sum' = [sum EXCEPT ![p] = 0]
  /\ seen' = [seen EXCEPT ![p] = {}]
  /\ UNCHANGED <<locked, count, lock>>

-----------------------------------------------------------------------------
Call(p) == ReadCall(p) \/ (p \in Tids /\ (IncAtomic(p) \/ IncLock(p)))

Step(p) ==
  ReadShard(p) \/ ReadUnlock(p) \/ ReadReturn(p) \/ (p \in Tids /\ IncLocked(p))

Next == \E p \in Procs : Call(p) \/ Step(p)

Spec == Init /\ [][Next]_vars

(* Threads are scheduled; std::mutex need not be fair. *)
FairSpec == Spec /\ \A p \in Procs : WF_vars(Step(p))

-----------------------------------------------------------------------------
(* The counter is linearizable: a read returns a total that the counter    *)
(* had at some moment since the read was called.                           *)
Abstract == INSTANCE LinCounter WITH value <- Total

ImplementsCounter == Abstract!CounterSpec

(* With the mutexes, what a read has added up is exactly the total at the  *)
(* moment it adds the last shard: stronger than linearizable, and what the *)
(* comment on lines 122-123 of counters_impl.h rests its proof on.         *)
LockedSumIsTotal ==
  [][\A p \in Procs : locked /\ i[p] < NumThreads /\ i'[p] = NumThreads
       => sum'[p] = Total]_vars

(* Reads that take every mutex and increments that take one do not block   *)
(* each other for ever: while some are running, one of them ends.          *)
AllIdle == \A p \in Procs : pc[p] = "idle"
OneEnds == \E p \in Procs : pc[p] # "idle" /\ pc'[p] = "idle"

SomeoneFinishes == []<>AllIdle \/ []<><<OneEnds>>_vars
=============================================================================
