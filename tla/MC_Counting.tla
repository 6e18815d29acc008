---------------------------- MODULE MC_Counting -----------------------------
(***************************************************************************)
(* Small instances of the counting programs of assignments 2 and 3: one    *)
(* behaviour is a run of one of them.                                      *)
(***************************************************************************)
EXTENDS Dekker

CONSTANTS NumThreads, MaxCount, Nobody, C, CheckEvery, MaxIter

(* There is a thread, a batch is not empty, and Nobody is no process.      *)
ASSUME CountingAssumption ==
  NumThreads \in Nat \ {0} /\ C \in Nat \ {0} /\ Nobody \notin 0 .. NumThreads

VARIABLES program,                                           \* which one runs
          memory, buffer, fencedReg, fencedDone, fencedPc,   \* q3_3.cpp
          locked, count, lock, shardPc, shardI, sum, answer, seen,
          arrived, timer, timedPc, timedI, localCount, global, performed,
          printed

Fenced == INSTANCE DekkerTSO
  WITH reg <- fencedReg, done <- fencedDone, pc <- fencedPc
Sharded == INSTANCE ShardedCounter WITH pc <- shardPc, i <- shardI
Timed == INSTANCE TimedRun WITH pc <- timedPc, i <- timedI

fencedVars == <<memory, buffer, fencedReg, fencedDone, fencedPc>>
shardVars == <<locked, count, lock, shardPc, shardI, sum, answer, seen>>
timedVars == <<arrived, timer, timedPc, timedI, localCount, global, performed,
               printed>>
mcVars == <<program, vars, fencedVars, shardVars, timedVars>>

(* Thread 0 increments twice, thread 1 once. *)
MCMaxCount == [t \in Tids |-> 2 - t]

MCInit ==
  /\ program \in {"atomic", "fenced", "sharded", "timed"}
  /\ Init /\ Fenced!Init /\ Sharded!Init /\ Timed!Init
  /\ locked => program = "sharded"

(* A step of the program that runs. *)
Run(A, F, S, T) ==
  /\ UNCHANGED program
  /\ \/ program = "atomic" /\ A /\ UNCHANGED <<fencedVars, shardVars, timedVars>>
     \/ program = "fenced" /\ F /\ UNCHANGED <<vars, shardVars, timedVars>>
     \/ program = "sharded" /\ S /\ UNCHANGED <<vars, fencedVars, timedVars>>
     \/ program = "timed" /\ T /\ UNCHANGED <<vars, fencedVars, shardVars>>

(* The step of thread t: in the last two programs NumThreads is main. *)
Scheduled(t) ==
  Run(t \in Tids /\ Step(t), t \in Tids /\ Fenced!Step(t), Sharded!Step(t), Timed!Step(t))

MCNext ==
  Run(Next, Fenced!Next, Sharded!Next, Timed!Next)

(* The fairness of the four programs. *)
MCSpec ==
  /\ MCInit /\ [][MCNext]_mcVars
  /\ \A t \in 0 .. NumThreads : WF_mcVars(Scheduled(t))
  /\ \A t \in Tids : WF_mcVars(Run(FALSE, Fenced!Drain(t), FALSE, FALSE))
  /\ WF_mcVars(Run(FALSE, FALSE, FALSE, Timed!TimeIsUp))

(* The fences of q3_3.cpp do their work. *)
FencesSuffice == Fenced!FencesSuffice

(* No thread starves under either lock (q3_2.cpp:25, q3_3.cpp:27). *)
NobodyStarves == NoStarvation /\ Fenced!NoStarvation

(* The fenced program ends with every increment in memory. *)
EndsWithFullCount == program = "fenced" => Fenced!EndsWithFullCount

(* Each sharded counter is a linearizable counter, although its read adds  *)
(* the shards up one after the other (counters_impl.h:159); with the       *)
(* mutexes a read even returns the total of the moment of its last step.   *)
ImplementsCounter == Sharded!ImplementsCounter /\ Sharded!LockedSumIsTotal

(* Reads that take every mutex and increments that take one do not block   *)
(* each other for ever (counters_impl.h:126).                              *)
SomeoneFinishes == Sharded!SomeoneFinishes

(* Nobody asks a timer that is not started; what read of the approximate   *)
(* counter returns is at most c * numThreads increments per thread behind, *)
(* and so is the final report (counters_impl.h:85, workload_timed.cpp:85). *)
ReportsLagBounded == Timed!TimerIsStarted /\ Timed!LagBounded /\ Timed!FinalReport

(* The timed run ends. *)
RunEnds == program = "timed" => Timed!RunEnds
=============================================================================
