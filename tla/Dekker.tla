------------------------------- MODULE Dekker -------------------------------
(***************************************************************************)
(* The two-thread mutual exclusion lock of assignment-3/q3_2.cpp and the   *)
(* counter it protects.  wants_to_enter and turn are std::atomic with the  *)
(* default order, so that every step is one sequentially consistent        *)
(* access; v is a volatile int, read and written in two steps.             *)
(***************************************************************************)
EXTENDS Integers

CONSTANT Rounds        \* increments per thread: TOTAL_INCREMENTS / 2

ASSUME RoundsAssumption == Rounds \in Nat

Tids == {0, 1}

VARIABLES wants,       \* wants_to_enter[2]
          turn,
          v,           \* the counter
          reg,         \* the value of v that each thread has read for its v++
          done,        \* increments each thread has finished
          pc

vars == <<wants, turn, v, reg, done, pc>>

Outside == {"loop", "announce", "await", "finished"}
Inside == {"read", "write", "giveTurn", "leave"}
Labels == Outside \cup Inside \cup {"check", "askTurn", "retreat", "reannounce"}

TypeOK ==
  /\ wants \in [Tids -> BOOLEAN]
  /\ turn \in Tids
  /\ v \in Nat
  /\ reg \in [Tids -> Nat]
  /\ done \in [Tids -> 0 .. Rounds]
  /\ pc \in [Tids -> Labels]

Init ==
  /\ wants = [t \in Tids |-> FALSE]
  /\ turn = 0
  /\ v = 0
  /\ reg = [t \in Tids |-> 0]
  /\ done = [t \in Tids |-> 0]
  /\ pc = [t \in Tids |-> "loop"]

Goto(t, p) == pc' = [pc EXCEPT ![t] = p]

SetWants(t, b) == wants' = [wants EXCEPT ![t] = b]

-----------------------------------------------------------------------------
(* threadFunc: the for loop around increment *)
Loop(t) ==
  /\ pc[t] = "loop"
  /\ Goto(t, IF done[t] < Rounds THEN "announce" ELSE "finished")
  /\ UNCHANGED <<wants, turn, v, reg, done>>

(* lock *)
Announce(t) ==
  /\ pc[t] = "announce" /\ SetWants(t, TRUE) /\ Goto(t, "check")
  /\ UNCHANGED <<turn, v, reg, done>>

(* Mutant of Check: the lock is taken as soon as it is t's turn. *)
CheckTurnOnly(t) ==
  /\ pc[t] = "check"
  /\ Goto(t, IF wants[1 - t] /\ turn # t THEN "askTurn" ELSE "read")
  /\ UNCHANGED <<wants, turn, v, reg, done>>

(* while (wants_to_enter[1 - tid]) *)
Check(t) ==
  /\ pc[t] = "check"
  /\ Goto(t, IF wants[1 - t] THEN "askTurn" ELSE "read")
  /\ UNCHANGED <<wants, turn, v, reg, done>>

(* if (turn != tid) *)
AskTurn(t) ==
  /\ pc[t] = "askTurn"
  /\ Goto(t, IF turn # t THEN "retreat" ELSE "reannounce")
  /\ UNCHANGED <<wants, turn, v, reg, done>>

Retreat(t) ==
  /\ pc[t] = "retreat" /\ SetWants(t, FALSE) /\ Goto(t, "await")
  /\ UNCHANGED <<turn, v, reg, done>>

(* while (turn != tid) {} *)
Await(t) ==
  /\ pc[t] = "await" /\ turn = t /\ Goto(t, "reannounce")
  /\ UNCHANGED <<wants, turn, v, reg, done>>

Reannounce(t) ==
  /\ pc[t] = "reannounce" /\ SetWants(t, TRUE) /\ Goto(t, "check")
  /\ UNCHANGED <<turn, v, reg, done>>

(* v++ *)
ReadV(t) ==
  /\ pc[t] = "read" /\ reg' = [reg EXCEPT ![t] = v] /\ Goto(t, "write")
  /\ UNCHANGED <<wants, turn, v, done>>

WriteV(t) ==
  /\ pc[t] = "write" /\ v' = reg[t] + 1 /\ Goto(t, "giveTurn")
  /\ UNCHANGED <<wants, turn, reg, done>>

(* unlock *)
GiveTurn(t) ==
  /\ pc[t] = "giveTurn" /\ turn' = 1 - t /\ Goto(t, "leave")
  /\ UNCHANGED <<wants, v, reg, done>>

Leave(t) ==
  /\ pc[t] = "leave" /\ SetWants(t, FALSE) /\ Goto(t, "loop")
  /\ done' = [done EXCEPT ![t] = @ + 1]
  /\ UNCHANGED <<turn, v, reg>>

-----------------------------------------------------------------------------
Step(t) ==
  \/ Loop(t) \/ Announce(t) \/ Check(t) \/ AskTurn(t) \/ Retreat(t)
  \/ Await(t) \/ Reannounce(t) \/ ReadV(t) \/ WriteV(t) \/ GiveTurn(t)
  \/ Leave(t)

Next == \E t \in Tids : Step(t)

Spec == Init /\ [][Next]_vars

(* Each thread is scheduled again and again. *)
FairSpec == Spec /\ \A t \in Tids : WF_vars(Step(t))

-----------------------------------------------------------------------------
(* The two threads are never both between lock and unlock. *)
MutualExclusion == ~ (pc[0] \in Inside /\ pc[1] \in Inside)

(* No increment is lost: what main prints after joining the threads is the *)
(* number of increments they made.                                         *)
FinalCount == (\A t \in Tids : pc[t] = "finished") => v = 2 * Rounds

(* No thread starves: whoever asks for the lock gets it, even if the other *)
(* thread asks again and again, or has finished for good.                  *)
NoStarvation == \A t \in Tids : pc[t] = "announce" ~> pc[t] \in Inside

(* The inductive invariant: a thread that is past its announcement has its *)
(* flag up, and the counter has one unit for every finished increment and  *)
(* one for an increment written but not yet finished.                      *)
FlagUp ==
  \A t \in Tids :
    /\ pc[t] \in Inside \cup {"check", "askTurn", "retreat"} => wants[t]
    /\ pc[t] \in Outside => ~ wants[t]

Written(t) == IF pc[t] \in {"giveTurn", "leave"} THEN 1 ELSE 0

CountOK ==
  /\ v = done[0] + Written(0) + done[1] + Written(1)
  /\ \A t \in Tids : /\ pc[t] = "write" => reg[t] = v
                     /\ pc[t] = "finished" => done[t] = Rounds
                     /\ pc[t] \notin {"loop", "finished"} => done[t] < Rounds

IInv == TypeOK /\ FlagUp /\ MutualExclusion /\ CountOK
=============================================================================
