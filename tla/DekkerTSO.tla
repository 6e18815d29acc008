----------------------------- MODULE DekkerTSO ------------------------------
(***************************************************************************)
(* The lock of assignment-3/q3_3.cpp: Dekker's algorithm again, with       *)
(* volatile variables and __sync_synchronize() where q3_2.cpp has atomics. *)
(* The build is for x86, so that a store waits in the store buffer of its  *)
(* thread, in order, before the other thread sees it, and a fence waits    *)
(* until the buffer is empty.  Each thread reads its own stores first.     *)
(***************************************************************************)
EXTENDS Integers, Sequences, FiniteSetsExt

CONSTANT Rounds        \* a natural number: TOTAL_INCREMENTS / 2

Tids == {0, 1}

VARIABLES memory,      \* what is in memory: turn, v, and both flags
          buffer,      \* the stores of each thread still on their way there
          reg,         \* the value of v that each thread has read for its v++
          done,        \* increments each thread has finished
          pc

vars == <<memory, buffer, reg, done, pc>>

Flag(t) == IF t = 0 THEN "wants0" ELSE "wants1"

Inside == {"entered", "read", "write", "written", "giveTurn", "leave"}

Init ==
  /\ memory = [turn |-> 0, v |-> 0, wants0 |-> FALSE, wants1 |-> FALSE]
  /\ buffer = [t \in Tids |-> <<>>]
  /\ reg = [t \in Tids |-> 0]
  /\ done = [t \in Tids |-> 0]
  /\ pc = [t \in Tids |-> "loop"]

(* What thread t reads at x: its latest store that is not in memory yet,   *)
(* or memory.                                                              *)
Load(t, x) ==
  LET mine == {n \in DOMAIN buffer[t] : buffer[t][n].at = x}
  IN IF mine = {} THEN memory[x] ELSE buffer[t][Max(mine)].val

Store(t, x, val) ==
  /\ buffer' = [buffer EXCEPT ![t] = Append(@, [at |-> x, val |-> val])]
  /\ UNCHANGED memory

Goto(t, p) == pc' = [pc EXCEPT ![t] = p]

(* The oldest store of t reaches memory. *)
Drain(t) ==
  /\ buffer[t] # <<>>
  /\ memory' = [memory EXCEPT ![Head(buffer[t]).at] = Head(buffer[t]).val]
  /\ buffer' = [buffer EXCEPT ![t] = Tail(@)]
  /\ UNCHANGED <<reg, done, pc>>

(* __sync_synchronize() between the labels p and q *)
Fence(t, p, q) ==
  /\ pc[t] = p /\ buffer[t] = <<>> /\ Goto(t, q)
  /\ UNCHANGED <<memory, buffer, reg, done>>

(* Mutants of the fences: the code without them. *)
NoFence(t, p, q) ==
  pc[t] = p /\ Goto(t, q) /\ UNCHANGED <<memory, buffer, reg, done>>

-----------------------------------------------------------------------------
(* threadFunc: the for loop around increment *)
Loop(t) ==
  /\ pc[t] = "loop"
  /\ Goto(t, IF done[t] < Rounds THEN "announce" ELSE "finished")
  /\ UNCHANGED <<memory, buffer, reg, done>>

(* lock *)
Announce(t) ==
  /\ pc[t] = "announce" /\ Store(t, Flag(t), TRUE) /\ Goto(t, "announced")
  /\ UNCHANGED <<reg, done>>

AnnouncedUnfenced(t) == NoFence(t, "announced", "check")
AnnounceFence(t) == Fence(t, "announced", "check")

(* while (wants_to_enter[1 - tid]) *)
Check(t) ==
  /\ pc[t] = "check"
  /\ Goto(t, IF Load(t, Flag(1 - t)) THEN "askTurn" ELSE "entered")
  /\ UNCHANGED <<memory, buffer, reg, done>>

(* if (turn != tid) *)
AskTurn(t) ==
  /\ pc[t] = "askTurn"
  /\ Goto(t, IF Load(t, "turn") # t THEN "yield" ELSE "reannounce")
  /\ UNCHANGED <<memory, buffer, reg, done>>

YieldFence(t) == Fence(t, "yield", "retreat")

Retreat(t) ==
  /\ pc[t] = "retreat" /\ Store(t, Flag(t), FALSE) /\ Goto(t, "retreated")
  /\ UNCHANGED <<reg, done>>

RetreatFence(t) == Fence(t, "retreated", "await")

(* while (turn != tid) {} *)
Await(t) ==
  /\ pc[t] = "await" /\ Load(t, "turn") = t /\ Goto(t, "reannounce")
  /\ UNCHANGED <<memory, buffer, reg, done>>

Reannounce(t) ==
  /\ pc[t] = "reannounce" /\ Store(t, Flag(t), TRUE) /\ Goto(t, "reannounced")
  /\ UNCHANGED <<reg, done>>

ReannouncedUnfenced(t) == NoFence(t, "reannounced", "check")
ReannounceFence(t) == Fence(t, "reannounced", "check")

(* increment *)
EnterFence(t) == Fence(t, "entered", "read")

ReadV(t) ==
  /\ pc[t] = "read" /\ reg' = [reg EXCEPT ![t] = Load(t, "v")] /\ Goto(t, "write")
  /\ UNCHANGED <<memory, buffer, done>>

WriteV(t) ==
  /\ pc[t] = "write" /\ Store(t, "v", reg[t] + 1) /\ Goto(t, "written")
  /\ UNCHANGED <<reg, done>>

(* Lines 55 and 35: two fences with nothing between them. *)
LeaveFence(t) == Fence(t, "written", "giveTurn")

(* Mutant of GiveTurn: unlock leaves turn alone. *)
KeepTurn(t) ==
  pc[t] = "giveTurn" /\ Goto(t, "leave") /\ UNCHANGED <<memory, buffer, reg, done>>

(* unlock *)
GiveTurn(t) ==
  /\ pc[t] = "giveTurn" /\ Store(t, "turn", 1 - t) /\ Goto(t, "leave")
  /\ UNCHANGED <<reg, done>>

Leave(t) ==
  /\ pc[t] = "leave" /\ Store(t, Flag(t), FALSE) /\ Goto(t, "loop")
  /\ done' = [done EXCEPT ![t] = @ + 1]
  /\ UNCHANGED reg

-----------------------------------------------------------------------------
Step(t) ==
  \/ Loop(t) \/ Announce(t) \/ AnnounceFence(t) \/ Check(t) \/ AskTurn(t)
  \/ YieldFence(t) \/ Retreat(t) \/ RetreatFence(t) \/ Await(t)
  \/ Reannounce(t) \/ ReannounceFence(t) \/ EnterFence(t) \/ ReadV(t)
  \/ WriteV(t) \/ LeaveFence(t) \/ GiveTurn(t) \/ Leave(t)

Next == \E t \in Tids : Step(t) \/ Drain(t)

Spec == Init /\ [][Next]_vars

(* Each thread is scheduled, and a store buffer empties in the end. *)
FairSpec == Spec /\ \A t \in Tids : WF_vars(Step(t)) /\ WF_vars(Drain(t))

-----------------------------------------------------------------------------
(* The two threads are never both inside, although each may have passed    *)
(* the other's flag while a store to it was still buffered.                *)
MutualExclusion == ~ (pc[0] \in Inside /\ pc[1] \in Inside)

(* Whoever is about to read v sees every increment the other has made: the *)
(* stores of a critical section reach memory before the next one starts.   *)
NoStaleCounter ==
  \A t \in Tids : pc[t] = "read" =>
    /\ \A n \in 1 .. Len(buffer[1 - t]) : buffer[1 - t][n].at # "v"
    /\ memory.v = done[0] + done[1]

(* The fences keep the two threads from being inside together, and from    *)
(* reading a counter whose last increment is not in memory (q3_3.cpp:21).  *)
FencesSuffice == MutualExclusion /\ NoStaleCounter

(* No thread starves, and no increment is lost: the program ends with the  *)
(* counter at the number of increments made.                               *)
NoStarvation == \A t \in Tids : pc[t] = "announce" ~> pc[t] \in Inside

EndsWithFullCount ==
  <>[]((\A t \in Tids : pc[t] = "finished") /\ memory.v = 2 * Rounds)

-----------------------------------------------------------------------------
(* The inductive invariant: which stores may be on their way at each       *)
(* label, that a flag is up in memory once its fence is passed, and what   *)
(* is in the counter.                                                      *)
Labels == Inside \cup
  {"loop", "announce", "announced", "check", "askTurn", "yield", "retreat",
   "retreated", "await", "reannounce", "reannounced", "finished"}

TypeOK ==
  /\ DOMAIN memory = {"turn", "v", "wants0", "wants1"} /\ memory.v \in Nat
  /\ DOMAIN buffer = Tids
  /\ reg \in [Tids -> Nat]
  /\ done \in [Tids -> Nat]
  /\ pc \in [Tids -> Labels]

PassTurn(t) == [at |-> "turn", val |-> 1 - t]
Count(n) == [at |-> "v", val |-> n]
Raise(t) == [at |-> Flag(t), val |-> TRUE]
Lower(t) == [at |-> Flag(t), val |-> FALSE]

(* Only the store buffer of a thread between a store and the next fence    *)
(* holds anything; unlock has no fence, and its stores may still be there  *)
(* when the next lock begins.                                              *)
InOrder(t) ==
  \/ buffer[t] = <<>>
  \/ pc[t] = "written" /\ buffer[t] = <<Count(memory.v + 1)>>
  \/ pc[t] = "leave" /\ buffer[t] = <<PassTurn(t)>>
  \/ /\ pc[t] \in {"loop", "announce", "finished"}
     /\ buffer[t] \in {<<PassTurn(t), Lower(t)>>, <<Lower(t)>>}
  \/ /\ pc[t] = "announced"
     /\ buffer[t] \in {<<PassTurn(t), Lower(t), Raise(t)>>,
                       <<Lower(t), Raise(t)>>, <<Raise(t)>>}
  \/ pc[t] = "retreated" /\ buffer[t] = <<Lower(t)>>
  \/ pc[t] = "reannounced" /\ buffer[t] = <<Raise(t)>>

StoresInOrder == \A t \in Tids : InOrder(t)

FlagUp ==
  \A t \in Tids :
    /\ pc[t] \in Inside \cup {"check", "askTurn", "yield", "retreat"} =>
         memory[Flag(t)] = TRUE
    /\ pc[t] \in {"announced", "reannounced"} /\ buffer[t] = <<>> =>
         memory[Flag(t)] = TRUE

(* The increment of t that is in memory and not yet in done. *)
Written(t) ==
  IF pc[t] \in {"giveTurn", "leave"} \/ (pc[t] = "written" /\ buffer[t] = <<>>)
  THEN 1 ELSE 0

CountOK ==
  /\ memory.v = done[0] + Written(0) + done[1] + Written(1)
  /\ \A t \in Tids : pc[t] = "write" => reg[t] = memory.v

IInv == TypeOK /\ StoresInOrder /\ FlagUp /\ MutualExclusion /\ CountOK
=============================================================================
