------------------------------ MODULE TimedRun ------------------------------
(***************************************************************************)
(* assignment-2/workload_timed.cpp with CounterApproximate: the threads    *)
(* and main meet at a barrier, the threads increment until the time is up, *)
(* and main joins them and prints the counter.                             *)
(*                                                                         *)
(* The approximate counter keeps a count per thread, and moves it to the   *)
(* global one, which is what read returns, when it reaches c * NumThreads. *)
(***************************************************************************)
EXTENDS Integers, FiniteSets, Functions

CONSTANTS NumThreads,  \* tids are 0 .. NumThreads - 1
          C,           \* the factor c of CounterApproximate: 1000
          CheckEvery,  \* increments between looks at the timer: 1024
          MaxIter      \* bound: the time is up before a thread does more

Tids == 0 .. NumThreads - 1
main == NumThreads
Batch == C * NumThreads

VARIABLES arrived,     \* v of the barrier
          timer,       \* "new", "started", "over": started, and millisToRun gone by
          pc,          \* where main and each thread are
          i,           \* increments each thread has made before the present one
          localCount,  \* localCounts[tid].localCount
          global,      \* globalCount
          performed,   \* incrementsPerformed
          printed      \* what main prints at the end

vars == <<arrived, timer, pc, i, localCount, global, performed, printed>>
counter == <<localCount, global>>

Init ==
  /\ arrived = 0 /\ timer = "new"
  /\ pc = [p \in Tids \cup {main} |-> IF p = main THEN "start" ELSE "arrive"]
  /\ i = [t \in Tids |-> 0]
  /\ localCount = [t \in Tids |-> 0] /\ global = 0
  /\ performed = 0 /\ printed = 0

Goto(p, l) == pc' = [pc EXCEPT ![p] = l]

(* runExperiment: timer->start() *)
StartTimer ==
  /\ pc[main] = "start" /\ Goto(main, "arrive") /\ timer' = "started"
  /\ UNCHANGED <<arrived, i, counter, performed, printed>>

(* millisToRun has gone by. *)
TimeIsUp ==
  /\ timer = "started" /\ timer' = "over"
  /\ UNCHANGED <<arrived, pc, i, counter, performed, printed>>

(* Barrier::wait, its v++ and its loop *)
Arrive(p) ==
  /\ pc[p] = "arrive" /\ Goto(p, "wait") /\ arrived' = arrived + 1
  /\ UNCHANGED <<timer, i, counter, performed, printed>>

(* Mutant of Pass: while (v <= releaseValue) *)
PassStrict(p) ==
  /\ pc[p] = "wait" /\ arrived > NumThreads + 1
  /\ Goto(p, IF p = main THEN "join" ELSE "inc")
  /\ UNCHANGED <<arrived, timer, i, counter, performed, printed>>

Pass(p) ==
  /\ pc[p] = "wait" /\ arrived >= NumThreads + 1
  /\ Goto(p, IF p = main THEN "join" ELSE "inc")
  /\ UNCHANGED <<arrived, timer, i, counter, performed, printed>>

(* Mutant of Inc: the flush forgets the increment under way. *)
IncDropped(t) ==
  /\ pc[t] = "inc" /\ Goto(t, "look")
  /\ \/ /\ localCount[t] >= Batch
        /\ global' = global + localCount[t]
        /\ localCount' = [localCount EXCEPT ![t] = 0]
     \/ /\ localCount[t] < Batch /\ UNCHANGED global
        /\ localCount' = [localCount EXCEPT ![t] = @ + 1]
  /\ UNCHANGED <<arrived, timer, i, performed, printed>>

(* CounterApproximate::inc; its one access to shared memory is fetch_add. *)
Inc(t) ==
  /\ pc[t] = "inc" /\ Goto(t, "look")
  /\ \/ /\ localCount[t] >= Batch
        /\ global' = global + localCount[t]
        /\ localCount' = [localCount EXCEPT ![t] = 1]
     \/ /\ localCount[t] < Batch /\ UNCHANGED global
        /\ localCount' = [localCount EXCEPT ![t] = @ + 1]
  /\ UNCHANGED <<arrived, timer, i, performed, printed>>

(* if ((i & 1023) == 0) if (the time is up) break; else ++i *)
Look(t) ==
  /\ pc[t] = "look"
  /\ \/ /\ i[t] % CheckEvery = 0 /\ timer = "over" /\ Goto(t, "report") /\ UNCHANGED i
     \/ /\ i[t] % CheckEvery # 0 \/ timer = "started"
        /\ timer = "over" \/ i[t] < MaxIter
        /\ i' = [i EXCEPT ![t] = @ + 1] /\ Goto(t, "inc")
  /\ UNCHANGED <<arrived, timer, counter, performed, printed>>

(* incrementsPerformed.fetch_add(i + 1) *)
Report(t) ==
  /\ pc[t] = "report" /\ Goto(t, "done") /\ performed' = performed + i[t] + 1
  /\ UNCHANGED <<arrived, timer, i, counter, printed>>

(* t->join() for every thread, and the two final reads *)
JoinAndPrint ==
  /\ pc[main] = "join" /\ \A t \in Tids : pc[t] = "done"
  /\ Goto(main, "done") /\ printed' = global
  /\ UNCHANGED <<arrived, timer, i, counter, performed>>

Step(p) ==
  \/ Arrive(p) \/ Pass(p)
  \/ p = main /\ (StartTimer \/ JoinAndPrint)
  \/ p \in Tids /\ (Inc(p) \/ Look(p) \/ Report(p))

Next == TimeIsUp \/ \E p \in Tids \cup {main} : Step(p)

Spec == Init /\ [][Next]_vars

(* Time goes by, and main and the threads are scheduled. *)
FairSpec == Spec /\ WF_vars(TimeIsUp)
            /\ \A p \in Tids \cup {main} : WF_vars(Step(p))

-----------------------------------------------------------------------------
Sum(f) == FoldFunction(+, 0, f)

(* Increments thread t has made. *)
Made(t) ==
  CASE pc[t] \in {"arrive", "wait"} -> 0
    [] pc[t] = "inc" -> i[t]
    [] OTHER -> i[t] + 1
TotalMade == Sum([t \in Tids |-> Made(t)])

(* No thread asks a timer that main has not started: getElapsedMillis      *)
(* would call exit(1).                                                     *)
TimerIsStarted ==
  \A t \in Tids : pc[t] = "look" /\ i[t] % CheckEvery = 0 => timer # "new"

(* What read returns at any moment: never more than the increments made,   *)
(* and behind them by at most c * NumThreads per thread.                   *)
LagBounded == TotalMade - global \in 0 .. NumThreads * Batch

(* incrementsPerformed is exact when main prints it, and the printed       *)
(* counter is behind it by at most the same bound.                         *)
FinalReport ==
  pc[main] = "done" =>
    /\ performed = TotalMade
    /\ performed - printed \in 0 .. NumThreads * Batch

(* The run ends. *)
RunEnds == <>(pc[main] = "done")
=============================================================================
