-------------------------- MODULE Counting_proofs --------------------------
(***************************************************************************)
(* Proofs about the counting programs of assignments 2 and 3, for every    *)
(* number of threads, of increments and of rounds: Dekker's lock over      *)
(* atomics and with fences (module Dekker, and DekkerTSO as Fenced), the   *)
(* timed run of the approximate counter (TimedRun as Timed) and the        *)
(* sharded counters (ShardedCounter as Sharded), in this order.  At the    *)
(* end the results about the runs of MC_Counting, each of which is a run   *)
(* of one of the four programs.                                            *)
(***************************************************************************)
EXTENDS MC_Counting, SequenceTheorems, SumTheorems, TLAPS

(* Every reachable state is well typed. *)
LEMMA TypeStep == TypeOK /\ CountOK /\ [Next]_vars => TypeOK'
<1> SUFFICES ASSUME TypeOK, CountOK, [Next]_vars
             PROVE  TypeOK'
  OBVIOUS
<1> USE RoundsAssumption DEF TypeOK, Tids, Labels, Outside, Inside, Goto, SetWants
<1>1. CASE UNCHANGED vars
  BY <1>1 DEF vars
<1>2. ASSUME NEW t \in Tids, Step(t)
      PROVE  TypeOK'
  <2>1. CASE Loop(t)
    <3>1. (IF done[t] < Rounds THEN "announce" ELSE "finished") \in Labels
      OBVIOUS
    <3>2. pc' \in [Tids -> Labels] /\ UNCHANGED <<wants, turn, v, reg, done>>
      BY <2>1, <3>1, Zenon DEF Loop
    <3> QED
      BY <3>2
  <2>2. CASE Announce(t) \/ Retreat(t) \/ Reannounce(t)
    <3>1. CASE Announce(t)
      BY <3>1 DEF Announce
    <3>2. CASE Retreat(t)
      BY <3>2 DEF Retreat
    <3>3. CASE Reannounce(t)
      BY <3>3 DEF Reannounce
    <3> QED
      BY <2>2, <3>1, <3>2, <3>3
  <2>3. CASE Check(t) \/ AskTurn(t) \/ Await(t)
    <3>1. CASE Check(t)
      BY <3>1 DEF Check
    <3>2. CASE AskTurn(t)
      BY <3>2 DEF AskTurn
    <3>3. CASE Await(t)
      BY <3>3 DEF Await
    <3> QED
      BY <2>3, <3>1, <3>2, <3>3
  <2>4. CASE ReadV(t)
    BY <2>4 DEF ReadV
  <2>5. CASE WriteV(t)
    BY <2>5 DEF WriteV
  <2>6. CASE GiveTurn(t)
    BY <2>6 DEF GiveTurn
  <2>7. CASE Leave(t)
    <3>1. done[t] + 1 \in 0 .. Rounds
      BY <2>7 DEF Leave, CountOK
    <3> QED
      BY <2>7, <3>1 DEF Leave
  <2> QED
    BY <1>2, <2>1, <2>2, <2>3, <2>4, <2>5, <2>6, <2>7 DEF Step
<1> QED
  BY <1>1, <1>2 DEF Next

LEMMA InvInit == Init => IInv
<1> USE RoundsAssumption DEF Init, Tids
<1>1. Init => TypeOK
  BY DEF TypeOK, Labels, Outside
<1>2. Init => FlagUp
  BY DEF FlagUp, Inside, Outside
<1>3. Init => MutualExclusion
  BY DEF MutualExclusion, Inside
<1>4. Init => CountOK
  BY DEF CountOK, Written
<1> QED
  BY <1>1, <1>2, <1>3, <1>4 DEF IInv

(* A flag only changes with the step that the program counter records. *)
LEMMA FlagStep == TypeOK /\ FlagUp /\ [Next]_vars => FlagUp'
<1> SUFFICES ASSUME TypeOK, FlagUp, [Next]_vars
             PROVE  FlagUp'
  OBVIOUS
<1> USE DEF TypeOK, FlagUp, Tids, Inside, Outside, Goto, SetWants
<1>1. CASE UNCHANGED vars
  BY <1>1 DEF vars
<1>2. ASSUME NEW t \in Tids, Step(t)
      PROVE  FlagUp'
  <2>1. CASE Loop(t)
    BY <2>1 DEF Loop
  <2>2. CASE Announce(t)
    BY <2>2 DEF Announce
  <2>3. CASE Check(t)
    BY <2>3 DEF Check
  <2>4. CASE AskTurn(t)
    BY <2>4 DEF AskTurn
  <2>5. CASE Retreat(t)
    BY <2>5 DEF Retreat
  <2>6. CASE Await(t)
    BY <2>6 DEF Await
  <2>7. CASE Reannounce(t)
    BY <2>7 DEF Reannounce
  <2>8. CASE ReadV(t) \/ WriteV(t) \/ GiveTurn(t)
    BY <2>8 DEF ReadV, WriteV, GiveTurn
  <2>9. CASE Leave(t)
    BY <2>9 DEF Leave
  <2> QED
    BY <1>2, <2>1, <2>2, <2>3, <2>4, <2>5, <2>6, <2>7, <2>8, <2>9 DEF Step
<1> QED
  BY <1>1, <1>2 DEF Next

(* Only Check enters the critical section, and only when the other thread's *)
(* flag is down; a thread inside has its flag up.                           *)
LEMMA ExclusionStep ==
  TypeOK /\ FlagUp /\ MutualExclusion /\ [Next]_vars => MutualExclusion'
<1> SUFFICES ASSUME TypeOK, FlagUp, MutualExclusion, [Next]_vars
             PROVE  MutualExclusion'
  OBVIOUS
<1>1. CASE UNCHANGED vars
  BY <1>1 DEF vars, MutualExclusion
<1>2. ASSUME NEW t \in Tids, Step(t)
      PROVE  MutualExclusion'
  <2>1. 1 - t \in Tids /\ 1 - t # t /\ (t = 0 \/ t = 1)
    BY DEF Tids
  <2>2. pc'[1 - t] = pc[1 - t]
    BY <1>2, <2>1 DEF Step, Loop, Announce, Check, AskTurn, Retreat, Await,
       Reannounce, ReadV, WriteV, GiveTurn, Leave, Goto, TypeOK
  <2>3. CASE Check(t)
    <3>1. wants[1 - t] => pc'[t] = "askTurn"
      BY <2>3 DEF Check, Goto, TypeOK
    <3>2. ~ wants[1 - t] => pc[1 - t] \notin Inside
      BY <2>1 DEF FlagUp
    <3> QED
      BY <2>1, <2>2, <3>1, <3>2 DEF MutualExclusion, Inside
  <2>4. CASE ~ Check(t)
    <3>1. pc'[t] \in Inside => pc[t] \in Inside
      BY <1>2, <2>4 DEF Step, Loop, Announce, AskTurn, Retreat, Await,
         Reannounce, ReadV, WriteV, GiveTurn, Leave, Goto, TypeOK, Inside
    <3> QED
      BY <2>1, <2>2, <3>1 DEF MutualExclusion
  <2> QED
    BY <2>3, <2>4
<1> QED
  BY <1>1, <1>2 DEF Next

(* Inside the critical section nobody else writes v between the read and   *)
(* the write of v++.                                                       *)
LEMMA CountStep == IInv /\ [Next]_vars => CountOK'
<1> SUFFICES ASSUME IInv, [Next]_vars
             PROVE  CountOK'
  OBVIOUS
<1> USE RoundsAssumption DEF IInv, TypeOK, CountOK, Written, Tids, Goto, SetWants
<1>1. CASE UNCHANGED vars
  BY <1>1 DEF vars
<1>2. ASSUME NEW t \in Tids, Step(t)
      PROVE  CountOK'
  <2>1. CASE Loop(t)
    BY <2>1 DEF Loop
  <2>2. CASE Announce(t) \/ Retreat(t) \/ Reannounce(t)
    BY <2>2 DEF Announce, Retreat, Reannounce
  <2>3. CASE Check(t) \/ AskTurn(t) \/ Await(t)
    BY <2>3 DEF Check, AskTurn, Await
  <2>4. CASE ReadV(t)
    BY <2>4 DEF ReadV
  <2>5. CASE WriteV(t)
    BY <2>5 DEF WriteV, MutualExclusion, Inside
  <2>6. CASE GiveTurn(t)
    BY <2>6 DEF GiveTurn
  <2>7. CASE Leave(t)
    BY <2>7 DEF Leave
  <2> QED
    BY <1>2, <2>1, <2>2, <2>3, <2>4, <2>5, <2>6, <2>7 DEF Step
<1> QED
  BY <1>1, <1>2 DEF Next

LEMMA Invariant == Spec => []IInv
<1>1. IInv /\ [Next]_vars => IInv'
  BY TypeStep, FlagStep, ExclusionStep, CountStep DEF IInv
<1> QED
  BY <1>1, InvInit, PTL DEF Spec

(* The two threads are never both in the critical section. *)
THEOREM Exclusion == Spec => []MutualExclusion
<1>1. IInv => MutualExclusion
  BY DEF IInv
<1> QED
  BY <1>1, Invariant, PTL

(* When both threads have finished, the counter has counted every          *)
(* increment, however many there are.                                      *)
THEOREM NoLostIncrement == Spec => []FinalCount
<1>1. IInv => FinalCount
  BY RoundsAssumption DEF IInv, TypeOK, CountOK, FinalCount, Written, Tids
<1> QED
  BY <1>1, Invariant, PTL

-----------------------------------------------------------------------------
(* Store buffers hold at most three stores. *)
LEMMA StoreAfterOne ==
  ASSUME NEW a, NEW b
  PROVE  Append(<<a>>, b) = <<a, b>>
<1>1. <<a>> \in Seq({a, b}) /\ <<a, b>> \in Seq({a, b}) /\ b \in {a, b}
  OBVIOUS
<1>2. /\ Append(<<a>>, b) \in Seq({a, b}) /\ Len(Append(<<a>>, b)) = 2
      /\ Append(<<a>>, b)[1] = a /\ Append(<<a>>, b)[2] = b
  BY <1>1
<1>3. \A n \in 1 .. Len(Append(<<a>>, b)) : Append(<<a>>, b)[n] = <<a, b>>[n]
  BY <1>2
<1>4. Len(Append(<<a>>, b)) = Len(<<a, b>>)
  BY <1>2
<1> QED
  BY <1>1, <1>2, <1>3, <1>4, SeqEqual

LEMMA StoreAfterTwo ==
  ASSUME NEW a, NEW b, NEW c
  PROVE  Append(<<a, b>>, c) = <<a, b, c>>
<1>1. /\ <<a, b>> \in Seq({a, b, c}) /\ <<a, b, c>> \in Seq({a, b, c})
      /\ c \in {a, b, c}
  OBVIOUS
<1>2. /\ Append(<<a, b>>, c) \in Seq({a, b, c}) /\ Len(Append(<<a, b>>, c)) = 3
      /\ Append(<<a, b>>, c)[1] = a /\ Append(<<a, b>>, c)[2] = b
      /\ Append(<<a, b>>, c)[3] = c
  BY <1>1
<1>3. \A n \in 1 .. Len(Append(<<a, b>>, c)) :
        Append(<<a, b>>, c)[n] = <<a, b, c>>[n]
  BY <1>2
<1>4. Len(Append(<<a, b>>, c)) = Len(<<a, b, c>>)
  BY <1>2
<1> QED
  BY <1>1, <1>2, <1>3, <1>4, SeqEqual

LEMMA ShortBuffers ==
  ASSUME NEW a, NEW b, NEW c
  PROVE  /\ Append(<< >>, a) = <<a>>
         /\ Append(<<a>>, b) = <<a, b>>
         /\ Append(<<a, b>>, c) = <<a, b, c>>
         /\ Head(<<a>>) = a /\ Head(<<a, b>>) = a /\ Head(<<a, b, c>>) = a
         /\ Tail(<<a>>) = << >> /\ Tail(<<a, b>>) = <<b>> /\ Tail(<<a, b, c>>) = <<b, c>>
         /\ <<a>> # << >> /\ <<a, b>> # << >> /\ <<a, b, c>> # << >>
<1>1. Append(<< >>, a) = <<a>>
  OBVIOUS
<1>2. Append(<<a>>, b) = <<a, b>>
  BY StoreAfterOne
<1>3. Append(<<a, b>>, c) = <<a, b, c>>
  BY StoreAfterTwo
<1>4. Head(<<a>>) = a /\ Head(<<a, b>>) = a /\ Head(<<a, b, c>>) = a
  OBVIOUS
<1>5. Tail(<<a>>) = << >>
  OBVIOUS
<1>6. Tail(<<a, b>>) = <<b>>
  OBVIOUS
<1>7. Tail(<<a, b, c>>) = <<b, c>>
  OBVIOUS
<1>8. <<a>> # << >> /\ <<a, b>> # << >> /\ <<a, b, c>> # << >>
  OBVIOUS
<1> QED
  BY <1>1, <1>2, <1>3, <1>4, <1>5, <1>6, <1>7, <1>8

(* A thread with an empty buffer reads memory. *)
LEMMA LoadIsMemory ==
  ASSUME NEW t \in Fenced!Tids, NEW x, buffer[t] = << >>
  PROVE  Fenced!Load(t, x) = memory[x]
<1>1. {n \in DOMAIN buffer[t] : buffer[t][n].at = x} = {}
  OBVIOUS
<1> QED
  BY <1>1 DEF Fenced!Load

LEMMA OtherThread ==
  ASSUME NEW t \in Fenced!Tids
  PROVE  /\ 1 - t \in Fenced!Tids /\ 1 - t # t /\ \A u \in Fenced!Tids : u = t \/ u = 1 - t
         /\ \/ t = 0 /\ 1 - t = 1
            \/ t = 1 /\ 1 - t = 0
BY DEF Fenced!Tids

LEMMA FlagsDiffer ==
  ASSUME Fenced!TypeOK, NEW t \in Fenced!Tids, NEW u \in Fenced!Tids
  PROVE  /\ Fenced!Flag(t) \in DOMAIN memory /\ Fenced!Flag(t) # "v" /\ Fenced!Flag(t) # "turn"
         /\ t # u => Fenced!Flag(t) # Fenced!Flag(u)
BY DEF Fenced!Flag, Fenced!Tids, Fenced!TypeOK

-----------------------------------------------------------------------------
LEMMA DrainShape ==
  ASSUME Fenced!TypeOK, NEW t \in Fenced!Tids, Fenced!Drain(t)
  PROVE  /\ DOMAIN memory' = DOMAIN memory /\ DOMAIN buffer' = Fenced!Tids
         /\ UNCHANGED <<fencedReg, fencedDone, fencedPc>> /\ buffer[t] # << >>
         /\ buffer'[t] = Tail(buffer[t]) /\ buffer'[1 - t] = buffer[1 - t]
<1>1. DOMAIN buffer = Fenced!Tids
  BY DEF Fenced!TypeOK
<1> QED
  BY <1>1, OtherThread DEF Fenced!Drain

LEMMA DrainEffect ==
  ASSUME NEW t \in Fenced!Tids, Fenced!Drain(t), NEW x, NEW w,
         Head(buffer[t]) = [at |-> x, val |-> w]
  PROVE  memory' = [memory EXCEPT ![x] = w]
<1>1. Head(buffer[t]).at = x /\ Head(buffer[t]).val = w
  OBVIOUS
<1>2. memory' = [memory EXCEPT ![Head(buffer[t]).at] = Head(buffer[t]).val]
  BY DEF Fenced!Drain
<1> QED
  BY <1>1, <1>2, Zenon

(* What the store buffer of a thread lets happen at each label. *)
LEMMA DrainCases ==
  ASSUME Fenced!TypeOK, Fenced!StoresInOrder, NEW t \in Fenced!Tids, Fenced!Drain(t)
  PROVE  /\ DOMAIN memory' = DOMAIN memory /\ DOMAIN buffer' = Fenced!Tids
         /\ UNCHANGED <<fencedReg, fencedDone, fencedPc>> /\ buffer'[1 - t] = buffer[1 - t]
         /\ memory'[Fenced!Flag(1 - t)] = memory[Fenced!Flag(1 - t)]
         /\ fencedPc[t] = "written" \/ memory'["v"] = memory["v"]
         /\ fencedPc[t] \in {"written", "leave"} => memory'[Fenced!Flag(t)] = memory[Fenced!Flag(t)]
         /\ \/ /\ fencedPc[t] = "written" /\ buffer[t] # << >> /\ buffer'[t] = << >>
               /\ memory'["v"] = memory["v"] + 1
            \/ fencedPc[t] = "leave" /\ buffer'[t] = << >>
            \/ /\ fencedPc[t] \in {"loop", "announce", "finished"}
               /\ buffer'[t] \in {<<Fenced!Lower(t)>>, << >>}
            \/ /\ fencedPc[t] = "announced"
               /\ \/ buffer'[t] \in {<<Fenced!Lower(t), Fenced!Raise(t)>>, <<Fenced!Raise(t)>>}
                  \/ buffer'[t] = << >> /\ memory'[Fenced!Flag(t)] = TRUE
            \/ fencedPc[t] = "retreated" /\ buffer'[t] = << >>
            \/ fencedPc[t] = "reannounced" /\ buffer'[t] = << >> /\ memory'[Fenced!Flag(t)] = TRUE
<1>1. /\ DOMAIN memory' = DOMAIN memory /\ DOMAIN buffer' = Fenced!Tids
      /\ UNCHANGED <<fencedReg, fencedDone, fencedPc>> /\ buffer[t] # << >>
      /\ buffer'[t] = Tail(buffer[t]) /\ buffer'[1 - t] = buffer[1 - t]
  BY DrainShape
<1>2. /\ "v" \in DOMAIN memory /\ "turn" \in DOMAIN memory /\ Fenced!Flag(t) \in DOMAIN memory
      /\ Fenced!Flag(1 - t) \in DOMAIN memory /\ Fenced!Flag(t) # Fenced!Flag(1 - t)
      /\ Fenced!Flag(t) # "v" /\ Fenced!Flag(t) # "turn" /\ Fenced!Flag(1 - t) # "v"
      /\ Fenced!Flag(1 - t) # "turn"
  BY OtherThread, FlagsDiffer DEF Fenced!TypeOK
<1>3. CASE fencedPc[t] = "written" /\ buffer[t] = <<Fenced!Count(memory.v + 1)>>
  <2>1. /\ Head(buffer[t]) = [at |-> "v", val |-> memory.v + 1] /\ Tail(buffer[t]) = << >>
    BY <1>3, ShortBuffers DEF Fenced!Count
  <2>2. memory' = [memory EXCEPT !["v"] = memory.v + 1]
    BY <2>1, DrainEffect
  <2> QED
    BY <1>1, <1>2, <1>3, <2>1, <2>2
<1>4. CASE fencedPc[t] = "leave" /\ buffer[t] = <<Fenced!PassTurn(t)>>
  <2>1. Head(buffer[t]) = [at |-> "turn", val |-> 1 - t] /\ Tail(buffer[t]) = << >>
    BY <1>4, ShortBuffers DEF Fenced!PassTurn
  <2>2. memory' = [memory EXCEPT !["turn"] = 1 - t]
    BY <2>1, DrainEffect
  <2> QED
    BY <1>1, <1>2, <1>4, <2>1, <2>2
<1>5. CASE /\ fencedPc[t] \in {"loop", "announce", "finished"}
           /\ buffer[t] = <<Fenced!PassTurn(t), Fenced!Lower(t)>>
  <2>1. Head(buffer[t]) = [at |-> "turn", val |-> 1 - t] /\ Tail(buffer[t]) = <<Fenced!Lower(t)>>
    BY <1>5, ShortBuffers DEF Fenced!PassTurn
  <2>2. memory' = [memory EXCEPT !["turn"] = 1 - t]
    BY <2>1, DrainEffect
  <2> QED
    BY <1>1, <1>2, <1>5, <2>1, <2>2
<1>6. CASE fencedPc[t] \in {"loop", "announce", "finished"} /\ buffer[t] = <<Fenced!Lower(t)>>
  <2>1. Head(buffer[t]) = [at |-> Fenced!Flag(t), val |-> FALSE] /\ Tail(buffer[t]) = << >>
    BY <1>6, ShortBuffers DEF Fenced!Lower
  <2>2. memory' = [memory EXCEPT ![Fenced!Flag(t)] = FALSE]
    BY <2>1, DrainEffect
  <2> QED
    BY <1>1, <1>2, <1>6, <2>1, <2>2
<1>7. CASE fencedPc[t] = "announced" /\ buffer[t] = <<Fenced!PassTurn(t), Fenced!Lower(t), Fenced!Raise(t)>>
  <2>1. /\ Head(buffer[t]) = [at |-> "turn", val |-> 1 - t]
        /\ Tail(buffer[t]) = <<Fenced!Lower(t), Fenced!Raise(t)>>
    BY <1>7, ShortBuffers DEF Fenced!PassTurn
  <2>2. memory' = [memory EXCEPT !["turn"] = 1 - t]
    BY <2>1, DrainEffect
  <2> QED
    BY <1>1, <1>2, <1>7, <2>1, <2>2
<1>8. CASE fencedPc[t] = "announced" /\ buffer[t] = <<Fenced!Lower(t), Fenced!Raise(t)>>
  <2>1. Head(buffer[t]) = [at |-> Fenced!Flag(t), val |-> FALSE] /\ Tail(buffer[t]) = <<Fenced!Raise(t)>>
    BY <1>8, ShortBuffers DEF Fenced!Lower
  <2>2. memory' = [memory EXCEPT ![Fenced!Flag(t)] = FALSE]
    BY <2>1, DrainEffect
  <2> QED
    BY <1>1, <1>2, <1>8, <2>1, <2>2
<1>9. CASE fencedPc[t] = "retreated" /\ buffer[t] = <<Fenced!Lower(t)>>
  <2>1. Head(buffer[t]) = [at |-> Fenced!Flag(t), val |-> FALSE] /\ Tail(buffer[t]) = << >>
    BY <1>9, ShortBuffers DEF Fenced!Lower
  <2>2. memory' = [memory EXCEPT ![Fenced!Flag(t)] = FALSE]
    BY <2>1, DrainEffect
  <2> QED
    BY <1>1, <1>2, <1>9, <2>1, <2>2
<1>10. CASE fencedPc[t] \in {"announced", "reannounced"} /\ buffer[t] = <<Fenced!Raise(t)>>
  <2>1. Head(buffer[t]) = [at |-> Fenced!Flag(t), val |-> TRUE] /\ Tail(buffer[t]) = << >>
    BY <1>10, ShortBuffers DEF Fenced!Raise
  <2>2. memory' = [memory EXCEPT ![Fenced!Flag(t)] = TRUE]
    BY <2>1, DrainEffect
  <2> QED
    BY <1>1, <1>2, <1>10, <2>1, <2>2
<1> QED
  BY <1>1, <1>3, <1>4, <1>5, <1>6, <1>7, <1>8, <1>9, <1>10 DEF Fenced!StoresInOrder,
     Fenced!InOrder

-----------------------------------------------------------------------------
(* A step of t stores nothing in memory and leaves the other thread alone. *)
LEMMA GotoEffect ==
  ASSUME Fenced!TypeOK, NEW t \in Fenced!Tids, NEW p \in Fenced!Labels, Fenced!Goto(t, p)
  PROVE  fencedPc' \in [Fenced!Tids -> Fenced!Labels] /\ fencedPc'[t] = p /\ fencedPc'[1 - t] = fencedPc[1 - t]
BY OtherThread DEF Fenced!Goto, Fenced!TypeOK

LEMMA StoreEffect ==
  ASSUME Fenced!TypeOK, NEW t \in Fenced!Tids, NEW x, NEW w, Fenced!Store(t, x, w)
  PROVE  /\ memory' = memory /\ DOMAIN buffer' = Fenced!Tids
         /\ buffer'[t] = Append(buffer[t], [at |-> x, val |-> w])
         /\ buffer'[1 - t] = buffer[1 - t]
BY OtherThread DEF Fenced!Store, Fenced!TypeOK

LEMMA FlagStore ==
  ASSUME Fenced!TypeOK, NEW t \in Fenced!Tids
  PROVE  /\ Fenced!Store(t, Fenced!Flag(t), TRUE) => buffer'[t] = Append(buffer[t], Fenced!Raise(t))
         /\ Fenced!Store(t, Fenced!Flag(t), FALSE) => buffer'[t] = Append(buffer[t], Fenced!Lower(t))
<1>1. DOMAIN buffer = Fenced!Tids
  BY DEF Fenced!TypeOK
<1>2. ASSUME NEW r, buffer' = [buffer EXCEPT ![t] = Append(@, r)]
      PROVE  buffer'[t] = Append(buffer[t], r)
  BY <1>1, <1>2
<1>3. ASSUME Fenced!Store(t, Fenced!Flag(t), TRUE) PROVE buffer'[t] = Append(buffer[t], Fenced!Raise(t))
  <2>1. buffer' = [buffer EXCEPT ![t] = Append(@, Fenced!Raise(t))]
    BY <1>3, Zenon DEF Fenced!Store, Fenced!Raise
  <2> QED
    BY <1>2, <2>1
<1>4. ASSUME Fenced!Store(t, Fenced!Flag(t), FALSE) PROVE buffer'[t] = Append(buffer[t], Fenced!Lower(t))
  <2>1. buffer' = [buffer EXCEPT ![t] = Append(@, Fenced!Lower(t))]
    BY <1>4, Zenon DEF Fenced!Store, Fenced!Lower
  <2> QED
    BY <1>2, <2>1
<1> QED
  BY <1>3, <1>4

LEMMA StepShape ==
  ASSUME Fenced!TypeOK, NEW t \in Fenced!Tids, Fenced!Step(t)
  PROVE  /\ memory' = memory /\ DOMAIN buffer' = Fenced!Tids
         /\ fencedPc' \in [Fenced!Tids -> Fenced!Labels]
         /\ fencedPc'[1 - t] = fencedPc[1 - t] /\ buffer'[1 - t] = buffer[1 - t]
         /\ fencedReg'[1 - t] = fencedReg[1 - t] /\ fencedDone'[1 - t] = fencedDone[1 - t]
<1>1. /\ DOMAIN buffer = Fenced!Tids /\ fencedReg \in [Fenced!Tids -> Nat]
      /\ fencedDone \in [Fenced!Tids -> Nat]
      /\ 1 - t \in Fenced!Tids /\ 1 - t # t
  BY OtherThread DEF Fenced!TypeOK
<1>2. (\E p \in Fenced!Labels : Fenced!Goto(t, p))
      /\ (\/ \E x, w : Fenced!Store(t, x, w)
          \/ UNCHANGED <<memory, buffer>>)
  <2>1. CASE Fenced!Loop(t)
    <3>1. (IF fencedDone[t] < Rounds THEN "announce" ELSE "finished") \in Fenced!Labels
      BY DEF Fenced!Labels
    <3> QED
      BY <2>1, <3>1 DEF Fenced!Loop
  <2>2. CASE Fenced!Check(t)
    <3>1. (IF Fenced!Load(t, Fenced!Flag(1 - t)) THEN "askTurn" ELSE "entered") \in Fenced!Labels
      BY DEF Fenced!Labels, Fenced!Inside
    <3> QED
      BY <2>2, <3>1 DEF Fenced!Check
  <2>3. CASE Fenced!AskTurn(t)
    <3>1. (IF Fenced!Load(t, "turn") # t THEN "yield" ELSE "reannounce") \in Fenced!Labels
      BY DEF Fenced!Labels
    <3> QED
      BY <2>3, <3>1 DEF Fenced!AskTurn
  <2>4. CASE \/ Fenced!AnnounceFence(t) \/ Fenced!YieldFence(t) \/ Fenced!RetreatFence(t) \/ Fenced!ReannounceFence(t)
             \/ Fenced!EnterFence(t) \/ Fenced!LeaveFence(t)
    BY <2>4 DEF Fenced!AnnounceFence, Fenced!YieldFence, Fenced!RetreatFence,
       Fenced!ReannounceFence, Fenced!EnterFence, Fenced!LeaveFence, Fenced!Fence,
       Fenced!Labels, Fenced!Inside
  <2>5. CASE Fenced!Announce(t) \/ Fenced!Retreat(t) \/ Fenced!Await(t) \/ Fenced!Reannounce(t)
    BY <2>5 DEF Fenced!Announce, Fenced!Retreat, Fenced!Await, Fenced!Reannounce, Fenced!Labels
  <2>6. CASE Fenced!ReadV(t) \/ Fenced!WriteV(t) \/ Fenced!GiveTurn(t) \/ Fenced!Leave(t)
    BY <2>6 DEF Fenced!ReadV, Fenced!WriteV, Fenced!GiveTurn, Fenced!Leave, Fenced!Labels,
       Fenced!Inside
  <2> QED
    BY <2>1, <2>2, <2>3, <2>4, <2>5, <2>6 DEF Fenced!Step
<1>3. fencedReg'[1 - t] = fencedReg[1 - t] /\ fencedDone'[1 - t] = fencedDone[1 - t]
  <2>1. \/ fencedReg' = fencedReg
        \/ \E w : fencedReg' = [fencedReg EXCEPT ![t] = w]
    BY DEF Fenced!Step, Fenced!Loop, Fenced!Announce, Fenced!AnnounceFence, Fenced!Check,
       Fenced!AskTurn, Fenced!YieldFence, Fenced!Retreat, Fenced!RetreatFence, Fenced!Await,
       Fenced!Reannounce, Fenced!ReannounceFence, Fenced!EnterFence, Fenced!ReadV,
       Fenced!WriteV, Fenced!LeaveFence, Fenced!GiveTurn, Fenced!Leave, Fenced!Fence
  <2>2. fencedDone' = fencedDone \/ fencedDone' = [fencedDone EXCEPT ![t] = @ + 1]
    BY DEF Fenced!Step, Fenced!Loop, Fenced!Announce, Fenced!AnnounceFence, Fenced!Check,
       Fenced!AskTurn, Fenced!YieldFence, Fenced!Retreat, Fenced!RetreatFence, Fenced!Await,
       Fenced!Reannounce, Fenced!ReannounceFence, Fenced!EnterFence, Fenced!ReadV,
       Fenced!WriteV, Fenced!LeaveFence, Fenced!GiveTurn, Fenced!Leave, Fenced!Fence
  <2> QED
    BY <1>1, <2>1, <2>2
<1> QED
  BY <1>1, <1>2, <1>3, GotoEffect, StoreEffect

-----------------------------------------------------------------------------
LEMMA FencedInvInit ==
  ASSUME Fenced!Init PROVE Fenced!IInv
<1>1. Fenced!TypeOK
  BY DEF Fenced!Init, Fenced!TypeOK, Fenced!Tids, Fenced!Labels
<1>2. Fenced!StoresInOrder /\ Fenced!MutualExclusion /\ Fenced!FlagUp
  BY DEF Fenced!Init, Fenced!StoresInOrder, Fenced!InOrder, Fenced!MutualExclusion,
     Fenced!FlagUp, Fenced!Inside, Fenced!Tids
<1>3. Fenced!CountOK
  BY DEF Fenced!Init, Fenced!CountOK, Fenced!Written, Fenced!Tids
<1> QED
  BY <1>1, <1>2, <1>3 DEF Fenced!IInv

(* Only increment moves reg, and only its return moves done. *)
LEMMA FencedTypeStep ==
  ASSUME Fenced!IInv, NEW t \in Fenced!Tids, Fenced!Step(t)
  PROVE  Fenced!TypeOK'
<1>1. Fenced!TypeOK /\ Fenced!CountOK
  BY DEF Fenced!IInv
<1>2. /\ memory' = memory /\ DOMAIN buffer' = Fenced!Tids
      /\ fencedPc' \in [Fenced!Tids -> Fenced!Labels]
  BY <1>1, StepShape
<1>3. fencedReg' \in [Fenced!Tids -> Nat]
  <2>1. CASE Fenced!ReadV(t)
    <3>1. buffer[t] = << >>
      BY <2>1 DEF Fenced!ReadV, Fenced!IInv, Fenced!StoresInOrder, Fenced!InOrder
    <3>2. Fenced!Load(t, "v") \in Nat
      BY <1>1, <3>1, LoadIsMemory DEF Fenced!TypeOK
    <3> QED
      BY <1>1, <2>1, <3>2 DEF Fenced!ReadV, Fenced!TypeOK
  <2>2. CASE ~ Fenced!ReadV(t)
    BY <1>1, <2>2 DEF Fenced!TypeOK, Fenced!Step, Fenced!Loop, Fenced!Announce,
       Fenced!AnnounceFence, Fenced!Check, Fenced!AskTurn, Fenced!YieldFence, Fenced!Retreat,
       Fenced!RetreatFence, Fenced!Await, Fenced!Reannounce, Fenced!ReannounceFence,
       Fenced!EnterFence, Fenced!WriteV, Fenced!LeaveFence, Fenced!GiveTurn, Fenced!Leave,
       Fenced!Fence
  <2> QED
    BY <2>1, <2>2
<1>4. fencedDone' \in [Fenced!Tids -> Nat]
  <2>1. fencedDone' = fencedDone \/ fencedDone' = [fencedDone EXCEPT ![t] = @ + 1]
    BY DEF Fenced!Step, Fenced!Loop, Fenced!Announce, Fenced!AnnounceFence, Fenced!Check,
       Fenced!AskTurn, Fenced!YieldFence, Fenced!Retreat, Fenced!RetreatFence, Fenced!Await,
       Fenced!Reannounce, Fenced!ReannounceFence, Fenced!EnterFence, Fenced!ReadV,
       Fenced!WriteV, Fenced!LeaveFence, Fenced!GiveTurn, Fenced!Leave, Fenced!Fence
  <2> QED
    BY <1>1, <2>1 DEF Fenced!TypeOK
<1> QED
  BY <1>1, <1>2, <1>3, <1>4 DEF Fenced!TypeOK

(* Both places where lock raises the flag. *)
LEMMA AnnounceStores ==
  ASSUME Fenced!TypeOK, NEW t \in Fenced!Tids, Fenced!InOrder(t)
  PROVE  /\ Fenced!Announce(t) =>
              /\ fencedPc'[t] = "announced"
              /\ buffer'[t] \in {<<Fenced!PassTurn(t), Fenced!Lower(t), Fenced!Raise(t)>>,
                                <<Fenced!Lower(t), Fenced!Raise(t)>>, <<Fenced!Raise(t)>>}
         /\ Fenced!Reannounce(t) =>
              fencedPc'[t] = "reannounced" /\ buffer'[t] = <<Fenced!Raise(t)>>
<1>1. Append(<< >>, Fenced!Raise(t)) = <<Fenced!Raise(t)>>
  BY ShortBuffers
<1>2. ASSUME Fenced!Announce(t)
      PROVE  /\ fencedPc'[t] = "announced"
             /\ buffer'[t] \in {<<Fenced!PassTurn(t), Fenced!Lower(t), Fenced!Raise(t)>>,
                               <<Fenced!Lower(t), Fenced!Raise(t)>>, <<Fenced!Raise(t)>>}
  <2>1. fencedPc[t] = "announce" /\ Fenced!Goto(t, "announced") /\ Fenced!Store(t, Fenced!Flag(t), TRUE)
    BY <1>2, Zenon DEF Fenced!Announce
  <2>2. fencedPc'[t] = "announced" /\ buffer'[t] = Append(buffer[t], Fenced!Raise(t))
    BY <2>1, FlagStore DEF Fenced!Goto, Fenced!TypeOK
  <2>3. buffer[t] \in {<< >>, <<Fenced!PassTurn(t), Fenced!Lower(t)>>, <<Fenced!Lower(t)>>}
    BY <2>1 DEF Fenced!InOrder
  <2> QED
    BY <1>1, <2>2, <2>3, StoreAfterOne, StoreAfterTwo
<1>3. ASSUME Fenced!Reannounce(t)
      PROVE  fencedPc'[t] = "reannounced" /\ buffer'[t] = <<Fenced!Raise(t)>>
  <2>1. fencedPc[t] = "reannounce" /\ Fenced!Goto(t, "reannounced") /\ Fenced!Store(t, Fenced!Flag(t), TRUE)
    BY <1>3, Zenon DEF Fenced!Reannounce
  <2>2. fencedPc'[t] = "reannounced" /\ buffer'[t] = Append(buffer[t], Fenced!Raise(t))
    BY <2>1, FlagStore DEF Fenced!Goto, Fenced!TypeOK
  <2>3. buffer[t] = << >>
    BY <2>1 DEF Fenced!InOrder
  <2> QED
    BY <1>1, <2>2, <2>3
<1> QED
  BY <1>2, <1>3

(* Which stores wait at which label. *)
LEMMA StoresStep ==
  ASSUME Fenced!IInv, NEW t \in Fenced!Tids, Fenced!Step(t)
  PROVE  Fenced!StoresInOrder'
<1>1. Fenced!TypeOK /\ Fenced!InOrder(t) /\ Fenced!InOrder(1 - t)
  BY OtherThread DEF Fenced!IInv, Fenced!StoresInOrder
<1>2. /\ memory' = memory /\ DOMAIN buffer' = Fenced!Tids
      /\ fencedPc' \in [Fenced!Tids -> Fenced!Labels]
      /\ fencedPc'[1 - t] = fencedPc[1 - t] /\ buffer'[1 - t] = buffer[1 - t]
  BY <1>1, StepShape
<1>3. Fenced!InOrder(1 - t)'
  BY <1>1, <1>2 DEF Fenced!InOrder
<1>4. Fenced!InOrder(t)'
  <2>1. CASE Fenced!Loop(t)
    <3>1. buffer' = buffer /\ fencedPc[t] = "loop" /\ fencedPc'[t] \in {"announce", "finished"}
      BY <1>1, <2>1 DEF Fenced!Loop, Fenced!Goto, Fenced!TypeOK
    <3> QED
      BY <1>1, <3>1 DEF Fenced!InOrder
  <2>2. CASE Fenced!Announce(t)
    <3>1. fencedPc'[t] = "announced" /\ buffer'[t] \in {<<Fenced!PassTurn(t), Fenced!Lower(t), Fenced!Raise(t)>>,
                          <<Fenced!Lower(t), Fenced!Raise(t)>>, <<Fenced!Raise(t)>>}
      BY <1>1, <2>2, AnnounceStores
    <3> QED
      BY <3>1 DEF Fenced!InOrder
  <2>3. CASE \/ Fenced!AnnounceFence(t) \/ Fenced!YieldFence(t) \/ Fenced!RetreatFence(t) \/ Fenced!ReannounceFence(t)
             \/ Fenced!EnterFence(t) \/ Fenced!LeaveFence(t)
    BY <2>3 DEF Fenced!AnnounceFence, Fenced!YieldFence, Fenced!RetreatFence,
       Fenced!ReannounceFence, Fenced!EnterFence, Fenced!LeaveFence, Fenced!Fence,
       Fenced!InOrder
  <2>4. CASE Fenced!Check(t) \/ Fenced!AskTurn(t) \/ Fenced!Await(t) \/ Fenced!ReadV(t)
    <3>1. buffer' = buffer /\ fencedPc[t] \in {"check", "askTurn", "await", "read"}
      BY <2>4 DEF Fenced!Check, Fenced!AskTurn, Fenced!Await, Fenced!ReadV
    <3> QED
      BY <1>1, <3>1 DEF Fenced!InOrder
  <2>5. CASE Fenced!Retreat(t)
    <3>1. /\ fencedPc[t] = "retreat" /\ fencedPc'[t] = "retreated"
          /\ buffer'[t] = Append(buffer[t], Fenced!Lower(t))
      <4>1. /\ fencedPc[t] = "retreat" /\ Fenced!Goto(t, "retreated")
            /\ Fenced!Store(t, Fenced!Flag(t), FALSE)
        BY <2>5, Zenon DEF Fenced!Retreat
      <4>2. fencedPc'[t] = "retreated"
        BY <1>1, <4>1 DEF Fenced!Goto, Fenced!TypeOK
      <4> QED
        BY <1>1, <4>1, <4>2, FlagStore
    <3>2. buffer[t] = << >>
      BY <1>1, <3>1 DEF Fenced!InOrder
    <3> QED
      BY <3>1, <3>2, ShortBuffers DEF Fenced!InOrder
  <2>6. CASE Fenced!Reannounce(t)
    <3>1. fencedPc'[t] = "reannounced" /\ buffer'[t] = <<Fenced!Raise(t)>>
      BY <1>1, <2>6, AnnounceStores
    <3> QED
      BY <3>1 DEF Fenced!InOrder
  <2>7. CASE Fenced!WriteV(t)
    <3>1. /\ fencedPc[t] = "write" /\ fencedPc'[t] = "written"
          /\ buffer'[t] = Append(buffer[t], Fenced!Count(fencedReg[t] + 1))
      BY <1>1, <2>7, StoreEffect DEF Fenced!WriteV, Fenced!Goto, Fenced!TypeOK, Fenced!Count
    <3>2. buffer[t] = << >> /\ fencedReg[t] = memory.v
      BY <1>1, <3>1 DEF Fenced!InOrder, Fenced!IInv, Fenced!CountOK
    <3> QED
      BY <1>2, <3>1, <3>2, ShortBuffers DEF Fenced!InOrder
  <2>8. CASE Fenced!GiveTurn(t)
    <3>1. /\ fencedPc[t] = "giveTurn" /\ fencedPc'[t] = "leave"
          /\ buffer'[t] = Append(buffer[t], Fenced!PassTurn(t))
      BY <1>1, <2>8, StoreEffect DEF Fenced!GiveTurn, Fenced!Goto, Fenced!TypeOK,
         Fenced!PassTurn
    <3>2. buffer[t] = << >>
      BY <1>1, <3>1 DEF Fenced!InOrder
    <3> QED
      BY <3>1, <3>2, ShortBuffers DEF Fenced!InOrder
  <2>9. CASE Fenced!Leave(t)
    <3>1. /\ fencedPc[t] = "leave" /\ fencedPc'[t] = "loop"
          /\ buffer'[t] = Append(buffer[t], Fenced!Lower(t))
      <4>1. /\ fencedPc[t] = "leave" /\ Fenced!Goto(t, "loop")
            /\ Fenced!Store(t, Fenced!Flag(t), FALSE)
        BY <2>9, Zenon DEF Fenced!Leave
      <4>2. fencedPc'[t] = "loop"
        BY <1>1, <4>1 DEF Fenced!Goto, Fenced!TypeOK
      <4> QED
        BY <1>1, <4>1, <4>2, FlagStore
    <3>2. buffer[t] \in {<< >>, <<Fenced!PassTurn(t)>>}
      BY <1>1, <3>1 DEF Fenced!InOrder
    <3>3. buffer'[t] \in {<<Fenced!PassTurn(t), Fenced!Lower(t)>>, <<Fenced!Lower(t)>>}
      <4>1. Append(<< >>, Fenced!Lower(t)) = <<Fenced!Lower(t)>>
        BY ShortBuffers, Zenon
      <4> QED
        BY <3>1, <3>2, <4>1, StoreAfterOne
    <3> QED
      BY <3>1, <3>3 DEF Fenced!InOrder
  <2> QED
    BY <2>1, <2>2, <2>3, <2>4, <2>5, <2>6, <2>7, <2>8, <2>9 DEF Fenced!Step
<1> QED
  BY <1>3, <1>4, OtherThread DEF Fenced!StoresInOrder

(* A flag is raised by a store, and lowered only by its own thread. *)
LEMMA FencedFlagStep ==
  ASSUME Fenced!IInv, NEW t \in Fenced!Tids, Fenced!Step(t)
  PROVE  Fenced!FlagUp'
<1> DEFINE Shown == Fenced!Inside \cup {"check", "askTurn", "yield", "retreat"}
<1>1. Fenced!TypeOK /\ Fenced!InOrder(t) /\ Fenced!FlagUp
  BY DEF Fenced!IInv, Fenced!StoresInOrder
<1>2. /\ memory' = memory /\ fencedPc'[1 - t] = fencedPc[1 - t]
      /\ buffer'[1 - t] = buffer[1 - t]
  BY <1>1, StepShape
<1>3. CASE \/ fencedPc[t] \in Shown /\ fencedPc[t] # "retreat"
           \/ fencedPc[t] \in {"announced", "reannounced"} /\ buffer[t] = << >>
  <2>1. memory[Fenced!Flag(t)] = TRUE
    BY <1>1, <1>3 DEF Fenced!FlagUp
  <2> QED
    BY <1>1, <1>2, <2>1, OtherThread DEF Fenced!FlagUp
<1>4. CASE fencedPc[t] \in {"loop", "announce", "retreat", "retreated", "await", "reannounce"}
  <2>1. fencedPc'[t] \in {"finished", "announce", "announced", "retreated", "await",
                    "reannounce", "reannounced"}
    BY <1>1, <1>4 DEF Fenced!Step, Fenced!Loop, Fenced!Announce, Fenced!AnnounceFence,
       Fenced!Check, Fenced!AskTurn, Fenced!YieldFence, Fenced!Retreat, Fenced!RetreatFence,
       Fenced!Await, Fenced!Reannounce, Fenced!ReannounceFence, Fenced!EnterFence, Fenced!ReadV,
       Fenced!WriteV, Fenced!LeaveFence, Fenced!GiveTurn, Fenced!Leave, Fenced!Fence,
       Fenced!Goto, Fenced!TypeOK
  <2>2. fencedPc'[t] \in {"announced", "reannounced"} => buffer'[t] # << >>
    <3>1. CASE Fenced!Announce(t) \/ Fenced!Reannounce(t)
      <4>1. /\ <<Fenced!Raise(t)>> # << >> /\ <<Fenced!Lower(t), Fenced!Raise(t)>> # << >>
            /\ <<Fenced!PassTurn(t), Fenced!Lower(t), Fenced!Raise(t)>> # << >>
        OBVIOUS
      <4> QED
        BY <1>1, <3>1, <4>1, AnnounceStores
    <3>2. CASE ~ Fenced!Announce(t) /\ ~ Fenced!Reannounce(t)
      BY <1>1, <1>4, <3>2 DEF Fenced!Step, Fenced!Loop, Fenced!AnnounceFence, Fenced!Check,
         Fenced!AskTurn, Fenced!YieldFence, Fenced!Retreat, Fenced!RetreatFence, Fenced!Await,
         Fenced!ReannounceFence, Fenced!EnterFence, Fenced!ReadV, Fenced!WriteV,
         Fenced!LeaveFence, Fenced!GiveTurn, Fenced!Leave, Fenced!Fence, Fenced!Goto,
         Fenced!TypeOK
    <3> QED
      BY <3>1, <3>2
  <2> QED
    BY <1>1, <1>2, <2>1, <2>2, OtherThread DEF Fenced!FlagUp, Fenced!Inside
<1>5. fencedPc[t] \in Fenced!Labels /\ fencedPc[t] # "finished"
  BY <1>1 DEF Fenced!Step, Fenced!Loop, Fenced!Announce, Fenced!AnnounceFence, Fenced!Check,
     Fenced!AskTurn, Fenced!YieldFence, Fenced!Retreat, Fenced!RetreatFence, Fenced!Await,
     Fenced!Reannounce, Fenced!ReannounceFence, Fenced!EnterFence, Fenced!ReadV, Fenced!WriteV,
     Fenced!LeaveFence, Fenced!GiveTurn, Fenced!Leave, Fenced!Fence, Fenced!TypeOK
<1>6. fencedPc[t] \in {"announced", "reannounced"} => buffer[t] = << >>
  BY DEF Fenced!Step, Fenced!Loop, Fenced!Announce, Fenced!AnnounceFence, Fenced!Check,
     Fenced!AskTurn, Fenced!YieldFence, Fenced!Retreat, Fenced!RetreatFence, Fenced!Await,
     Fenced!Reannounce, Fenced!ReannounceFence, Fenced!EnterFence, Fenced!ReadV, Fenced!WriteV,
     Fenced!LeaveFence, Fenced!GiveTurn, Fenced!Leave, Fenced!Fence
<1> QED
  BY <1>3, <1>4, <1>5, <1>6 DEF Fenced!Labels

(* Check is the only way inside, and it saw the other's flag down in       *)
(* memory.                                                                 *)
LEMMA FencedExclusionStep ==
  ASSUME Fenced!IInv, NEW t \in Fenced!Tids, Fenced!Step(t)
  PROVE  Fenced!MutualExclusion'
<1>1. Fenced!TypeOK /\ Fenced!InOrder(t) /\ Fenced!FlagUp /\ Fenced!MutualExclusion
  BY DEF Fenced!IInv, Fenced!StoresInOrder
<1>2. fencedPc'[1 - t] = fencedPc[1 - t]
  BY <1>1, StepShape
<1>3. CASE Fenced!Check(t)
  <2>1. fencedPc[t] = "check" /\ fencedPc'[t] = IF Fenced!Load(t, Fenced!Flag(1 - t)) THEN "askTurn" ELSE "entered"
    BY <1>1, <1>3 DEF Fenced!Check, Fenced!Goto, Fenced!TypeOK
  <2>2. Fenced!Load(t, Fenced!Flag(1 - t)) = memory[Fenced!Flag(1 - t)]
    BY <1>1, <2>1, LoadIsMemory DEF Fenced!InOrder
  <2>3. fencedPc[1 - t] \in Fenced!Inside => memory[Fenced!Flag(1 - t)] = TRUE
    BY <1>1, OtherThread DEF Fenced!FlagUp
  <2>4. fencedPc[1 - t] \in Fenced!Inside => fencedPc'[t] = "askTurn"
    BY <2>1, <2>2, <2>3
  <2> QED
    BY <1>2, <2>4, OtherThread DEF Fenced!MutualExclusion, Fenced!Inside
<1>4. CASE ~ Fenced!Check(t)
  <2>1. fencedPc'[t] \in Fenced!Inside => fencedPc[t] \in Fenced!Inside
    BY <1>1, <1>4 DEF Fenced!Step, Fenced!Loop, Fenced!Announce, Fenced!AnnounceFence,
       Fenced!AskTurn, Fenced!YieldFence, Fenced!Retreat, Fenced!RetreatFence, Fenced!Await,
       Fenced!Reannounce, Fenced!ReannounceFence, Fenced!EnterFence, Fenced!ReadV,
       Fenced!WriteV, Fenced!LeaveFence, Fenced!GiveTurn, Fenced!Leave, Fenced!Fence,
       Fenced!Goto, Fenced!Inside, Fenced!TypeOK
  <2> QED
    BY <1>1, <1>2, <2>1, OtherThread DEF Fenced!MutualExclusion
<1> QED
  BY <1>3, <1>4

(* An increment counts from when it is in memory. *)
LEMMA FencedCountStep ==
  ASSUME Fenced!IInv, NEW t \in Fenced!Tids, Fenced!Step(t)
  PROVE  Fenced!CountOK'
<1>1. Fenced!TypeOK /\ Fenced!InOrder(t) /\ Fenced!CountOK
  BY DEF Fenced!IInv, Fenced!StoresInOrder
<1>2. /\ memory' = memory /\ DOMAIN buffer' = Fenced!Tids
      /\ fencedPc' \in [Fenced!Tids -> Fenced!Labels]
      /\ fencedPc'[1 - t] = fencedPc[1 - t] /\ buffer'[1 - t] = buffer[1 - t]
      /\ fencedReg'[1 - t] = fencedReg[1 - t] /\ fencedDone'[1 - t] = fencedDone[1 - t]
  BY <1>1, StepShape
<1>3. Fenced!Written(1 - t)' = Fenced!Written(1 - t)
  BY <1>2 DEF Fenced!Written
<1>4. fencedDone \in [Fenced!Tids -> Nat] /\ Fenced!Written(t) \in Nat
  BY <1>1 DEF Fenced!TypeOK, Fenced!Written
<1>5. fencedDone'[t] + Fenced!Written(t)' = fencedDone[t] + Fenced!Written(t)
  <2>1. CASE Fenced!LeaveFence(t)
    BY <1>1, <2>1 DEF Fenced!LeaveFence, Fenced!Fence, Fenced!Goto, Fenced!Written,
       Fenced!TypeOK
  <2>2. CASE Fenced!WriteV(t)
    <3>1. /\ fencedPc[t] = "write" /\ fencedPc'[t] = "written" /\ fencedDone' = fencedDone
          /\ buffer'[t] = Append(buffer[t], Fenced!Count(fencedReg[t] + 1))
      BY <1>1, <2>2, StoreEffect DEF Fenced!WriteV, Fenced!Goto, Fenced!TypeOK, Fenced!Count
    <3>2. buffer'[t] # << >>
      BY <1>1, <3>1, ShortBuffers DEF Fenced!InOrder
    <3> QED
      BY <1>4, <3>1, <3>2 DEF Fenced!Written
  <2>3. CASE Fenced!GiveTurn(t)
    BY <1>1, <2>3 DEF Fenced!GiveTurn, Fenced!Goto, Fenced!Written, Fenced!TypeOK
  <2>4. CASE Fenced!Leave(t)
    <3>1. fencedPc[t] = "leave" /\ fencedPc'[t] = "loop" /\ fencedDone'[t] = fencedDone[t] + 1
      BY <1>1, <2>4 DEF Fenced!Leave, Fenced!Goto, Fenced!TypeOK
    <3> QED
      BY <1>4, <3>1 DEF Fenced!Written
  <2>5. CASE ~ (Fenced!LeaveFence(t) \/ Fenced!WriteV(t) \/ Fenced!GiveTurn(t) \/ Fenced!Leave(t))
    <3>1. fencedDone' = fencedDone /\ fencedPc[t] \notin {"giveTurn", "leave", "written"}
      BY <2>5 DEF Fenced!Step, Fenced!Loop, Fenced!Announce, Fenced!AnnounceFence, Fenced!Check,
         Fenced!AskTurn, Fenced!YieldFence, Fenced!Retreat, Fenced!RetreatFence, Fenced!Await,
         Fenced!Reannounce, Fenced!ReannounceFence, Fenced!EnterFence, Fenced!ReadV,
         Fenced!Fence
    <3>2. fencedPc'[t] \notin {"giveTurn", "leave", "written"}
      BY <1>1, <2>5 DEF Fenced!Step, Fenced!Loop, Fenced!Announce, Fenced!AnnounceFence,
         Fenced!Check, Fenced!AskTurn, Fenced!YieldFence, Fenced!Retreat, Fenced!RetreatFence,
         Fenced!Await, Fenced!Reannounce, Fenced!ReannounceFence, Fenced!EnterFence,
         Fenced!ReadV, Fenced!Fence, Fenced!Goto, Fenced!TypeOK
    <3> QED
      BY <3>1, <3>2 DEF Fenced!Written
  <2> QED
    BY <2>1, <2>2, <2>3, <2>4, <2>5
<1>6. memory.v = fencedDone[0] + Fenced!Written(0) + fencedDone[1] + Fenced!Written(1)
  BY <1>1 DEF Fenced!CountOK
<1>7. memory'.v = fencedDone'[0] + Fenced!Written(0)' + fencedDone'[1] + Fenced!Written(1)'
  <2>1. /\ Fenced!Written(0) \in Nat /\ Fenced!Written(1) \in Nat
        /\ Fenced!Written(0)' \in Nat /\ Fenced!Written(1)' \in Nat
    BY DEF Fenced!Written
  <2>2. fencedDone'[0] \in Nat /\ fencedDone'[1] \in Nat
    <3>1. Fenced!TypeOK'
      BY FencedTypeStep
    <3> QED
      BY <3>1 DEF Fenced!TypeOK, Fenced!Tids
  <2>3. fencedDone[0] \in Nat /\ fencedDone[1] \in Nat
    BY <1>4 DEF Fenced!Tids
  <2>4. CASE t = 0
    <3>1. /\ fencedDone'[0] + Fenced!Written(0)' = fencedDone[0] + Fenced!Written(0)
          /\ fencedDone'[1] = fencedDone[1] /\ Fenced!Written(1)' = Fenced!Written(1)
      BY <1>2, <1>3, <1>5, <2>4
    <3> QED
      BY <1>2, <1>6, <2>1, <2>2, <2>3, <3>1
  <2>5. CASE t = 1
    <3>1. /\ fencedDone'[1] + Fenced!Written(1)' = fencedDone[1] + Fenced!Written(1)
          /\ fencedDone'[0] = fencedDone[0] /\ Fenced!Written(0)' = Fenced!Written(0)
      BY <1>2, <1>3, <1>5, <2>5
    <3> QED
      BY <1>2, <1>6, <2>1, <2>2, <2>3, <3>1
  <2> QED
    BY <2>4, <2>5 DEF Fenced!Tids
<1>8. fencedPc'[t] = "write" => fencedReg'[t] = memory'.v
  <2>1. CASE Fenced!ReadV(t)
    <3>1. fencedPc[t] = "read" /\ fencedReg' = [fencedReg EXCEPT ![t] = Fenced!Load(t, "v")] /\ buffer[t] = << >>
      BY <1>1, <2>1 DEF Fenced!ReadV, Fenced!InOrder
    <3>2. Fenced!Load(t, "v") = memory["v"]
      BY <3>1, LoadIsMemory
    <3> QED
      BY <1>1, <1>2, <3>1, <3>2 DEF Fenced!TypeOK
  <2>2. CASE ~ Fenced!ReadV(t)
    <3>1. fencedPc'[t] # "write"
      BY <1>1, <2>2 DEF Fenced!Step, Fenced!Loop, Fenced!Announce, Fenced!AnnounceFence,
         Fenced!Check, Fenced!AskTurn, Fenced!YieldFence, Fenced!Retreat, Fenced!RetreatFence,
         Fenced!Await, Fenced!Reannounce, Fenced!ReannounceFence, Fenced!EnterFence,
         Fenced!WriteV, Fenced!LeaveFence, Fenced!GiveTurn, Fenced!Leave, Fenced!Fence,
         Fenced!Goto, Fenced!TypeOK
    <3> QED
      BY <3>1
  <2> QED
    BY <2>1, <2>2
<1>9. fencedPc'[1 - t] = "write" => fencedReg'[1 - t] = memory'.v
  BY <1>1, <1>2, OtherThread DEF Fenced!CountOK
<1> QED
  BY <1>7, <1>8, <1>9, OtherThread DEF Fenced!CountOK

(* A store that reaches memory is the increment, by the thread inside, or  *)
(* concerns turn and its own flag only.                                    *)
LEMMA DrainStep ==
  ASSUME Fenced!IInv, NEW t \in Fenced!Tids, Fenced!Drain(t)
  PROVE  Fenced!IInv'
<1>1. /\ Fenced!TypeOK /\ Fenced!StoresInOrder /\ Fenced!InOrder(1 - t) /\ Fenced!FlagUp
      /\ Fenced!MutualExclusion /\ Fenced!CountOK
  BY OtherThread DEF Fenced!IInv, Fenced!StoresInOrder
<1>2. /\ DOMAIN memory' = DOMAIN memory /\ DOMAIN buffer' = Fenced!Tids
      /\ UNCHANGED <<fencedReg, fencedDone, fencedPc>> /\ buffer'[1 - t] = buffer[1 - t]
      /\ memory'[Fenced!Flag(1 - t)] = memory[Fenced!Flag(1 - t)]
      /\ fencedPc[t] = "written" \/ memory'["v"] = memory["v"]
      /\ fencedPc[t] \in {"written", "leave"} => memory'[Fenced!Flag(t)] = memory[Fenced!Flag(t)]
      /\ \/ /\ fencedPc[t] = "written" /\ buffer[t] # << >> /\ buffer'[t] = << >>
            /\ memory'["v"] = memory["v"] + 1
         \/ fencedPc[t] = "leave" /\ buffer'[t] = << >>
         \/ /\ fencedPc[t] \in {"loop", "announce", "finished"}
            /\ buffer'[t] \in {<<Fenced!Lower(t)>>, << >>}
         \/ /\ fencedPc[t] = "announced"
            /\ \/ buffer'[t] \in {<<Fenced!Lower(t), Fenced!Raise(t)>>, <<Fenced!Raise(t)>>}
               \/ buffer'[t] = << >> /\ memory'[Fenced!Flag(t)] = TRUE
         \/ fencedPc[t] = "retreated" /\ buffer'[t] = << >>
         \/ fencedPc[t] = "reannounced" /\ buffer'[t] = << >> /\ memory'[Fenced!Flag(t)] = TRUE
  BY <1>1, DrainCases
<1>3. fencedPc[t] = "written" => fencedPc[1 - t] \notin Fenced!Inside
  BY <1>1, OtherThread DEF Fenced!MutualExclusion, Fenced!Inside
<1>4. Fenced!TypeOK'
  BY <1>1, <1>2 DEF Fenced!TypeOK
<1>5. Fenced!StoresInOrder'
  <2>1. Fenced!InOrder(t)'
    BY <1>2 DEF Fenced!InOrder
  <2>2. Fenced!InOrder(1 - t)'
    BY <1>1, <1>2, <1>3 DEF Fenced!InOrder, Fenced!Inside
  <2> QED
    BY <2>1, <2>2, OtherThread DEF Fenced!StoresInOrder
<1>6. Fenced!FlagUp'
  <2>1. /\ fencedPc[1 - t] \in Fenced!Inside \cup {"check", "askTurn", "yield", "retreat"} =>
             memory'[Fenced!Flag(1 - t)] = TRUE
        /\ fencedPc[1 - t] \in {"announced", "reannounced"} /\ buffer'[1 - t] = << >> =>
             memory'[Fenced!Flag(1 - t)] = TRUE
    BY <1>1, <1>2, OtherThread DEF Fenced!FlagUp
  <2>2. /\ fencedPc[t] \in Fenced!Inside \cup {"check", "askTurn", "yield", "retreat"} =>
             memory'[Fenced!Flag(t)] = TRUE
        /\ fencedPc[t] \in {"announced", "reannounced"} /\ buffer'[t] = << >> =>
             memory'[Fenced!Flag(t)] = TRUE
    <3>1. CASE fencedPc[t] \in {"written", "leave"}
      BY <1>1, <1>2, <3>1 DEF Fenced!FlagUp, Fenced!Inside
    <3>2. CASE fencedPc[t] \in {"loop", "announce", "finished", "retreated"}
      BY <3>2 DEF Fenced!Inside
    <3>3. CASE fencedPc[t] \in {"announced", "reannounced"}
      <4>1. buffer'[t] = << >> => memory'[Fenced!Flag(t)] = TRUE
        <5>1. <<Fenced!Lower(t), Fenced!Raise(t)>> # << >> /\ <<Fenced!Raise(t)>> # << >>
          OBVIOUS
        <5> QED
          BY <1>2, <3>3, <5>1
      <4> QED
        BY <3>3, <4>1 DEF Fenced!Inside
    <3> QED
      BY <1>2, <3>1, <3>2, <3>3
  <2> QED
    BY <1>2, <2>1, <2>2, OtherThread DEF Fenced!FlagUp
<1>7. Fenced!MutualExclusion'
  BY <1>1, <1>2 DEF Fenced!MutualExclusion
<1>8. Fenced!Written(1 - t)' = Fenced!Written(1 - t)
  BY <1>2 DEF Fenced!Written
<1>9. memory'.v - Fenced!Written(t)' = memory.v - Fenced!Written(t)
  <2>1. memory.v \in Nat
    BY <1>1 DEF Fenced!TypeOK
  <2>2. CASE fencedPc[t] = "written"
    BY <1>2, <2>1, <2>2 DEF Fenced!Written
  <2>3. CASE fencedPc[t] # "written"
    BY <1>2, <2>1, <2>3 DEF Fenced!Written
  <2> QED
    BY <2>2, <2>3
<1>10. Fenced!CountOK'
  <2>1. /\ Fenced!Written(0) \in Nat /\ Fenced!Written(1) \in Nat
        /\ Fenced!Written(0)' \in Nat /\ Fenced!Written(1)' \in Nat
    BY DEF Fenced!Written
  <2>2. fencedDone[0] \in Nat /\ fencedDone[1] \in Nat /\ memory.v \in Nat /\ memory'.v \in Nat
    BY <1>1, <1>4 DEF Fenced!TypeOK, Fenced!Tids
  <2>3. memory.v = fencedDone[0] + Fenced!Written(0) + fencedDone[1] + Fenced!Written(1)
    BY <1>1 DEF Fenced!CountOK
  <2>4. memory'.v = fencedDone[0] + Fenced!Written(0)' + fencedDone[1] + Fenced!Written(1)'
    <3>1. CASE t = 0
      BY <1>8, <1>9, <2>1, <2>2, <2>3, <3>1
    <3>2. CASE t = 1
      BY <1>8, <1>9, <2>1, <2>2, <2>3, <3>2
    <3> QED
      BY <3>1, <3>2 DEF Fenced!Tids
  <2>5. ASSUME NEW u \in Fenced!Tids, fencedPc[u] = "write" PROVE fencedReg[u] = memory'.v
    <3>1. fencedPc[t] # "written"
      BY <1>3, <2>5, OtherThread DEF Fenced!Inside
    <3> QED
      BY <1>1, <1>2, <2>5, <3>1 DEF Fenced!CountOK
  <2> QED
    BY <1>2, <2>4, <2>5 DEF Fenced!CountOK
<1> QED
  BY <1>4, <1>5, <1>6, <1>7, <1>10 DEF Fenced!IInv

LEMMA Unchanged ==
  ASSUME Fenced!IInv, UNCHANGED Fenced!vars PROVE Fenced!IInv'
BY DEF Fenced!vars, Fenced!IInv, Fenced!TypeOK, Fenced!StoresInOrder, Fenced!InOrder,
   Fenced!FlagUp, Fenced!MutualExclusion, Fenced!CountOK, Fenced!Written

-----------------------------------------------------------------------------
(* The inductive invariant of the fenced lock. *)
LEMMA FencedInvariant == Fenced!Spec => []Fenced!IInv
<1>1. Fenced!Init => Fenced!IInv
  BY FencedInvInit
<1>2. Fenced!IInv /\ [Fenced!Next]_Fenced!vars => Fenced!IInv'
  <2> SUFFICES ASSUME Fenced!IInv, [Fenced!Next]_Fenced!vars PROVE Fenced!IInv'
    OBVIOUS
  <2>1. ASSUME NEW t \in Fenced!Tids, Fenced!Step(t) PROVE Fenced!IInv'
    BY <2>1, FencedTypeStep, StoresStep, FencedFlagStep, FencedExclusionStep, FencedCountStep
       DEF Fenced!IInv
  <2>2. ASSUME NEW t \in Fenced!Tids, Fenced!Drain(t) PROVE Fenced!IInv'
    BY <2>2, DrainStep
  <2> QED
    BY <2>1, <2>2, Unchanged DEF Fenced!Next
<1> QED
  BY <1>1, <1>2, PTL DEF Fenced!Spec

(* With its fences the lock of q3_3.cpp excludes although stores are       *)
(* buffered, and whoever is about to read v finds every increment in       *)
(* memory: for any number of rounds (q3_3.cpp:21-47).                      *)
THEOREM FencesHold == Fenced!Spec => []Fenced!FencesSuffice
<1>1. Fenced!IInv => Fenced!FencesSuffice
  <2> SUFFICES ASSUME Fenced!IInv PROVE Fenced!FencesSuffice
    OBVIOUS
  <2>1. Fenced!TypeOK /\ Fenced!StoresInOrder /\ Fenced!MutualExclusion /\ Fenced!CountOK
    BY DEF Fenced!IInv
  <2>2. ASSUME NEW t \in Fenced!Tids, fencedPc[t] = "read"
        PROVE  /\ \A n \in 1 .. Len(buffer[1 - t]) : buffer[1 - t][n].at # "v"
               /\ memory.v = fencedDone[0] + fencedDone[1]
    <3>1. fencedPc[1 - t] \notin Fenced!Inside /\ 1 - t \in Fenced!Tids
      BY <2>1, <2>2, OtherThread DEF Fenced!MutualExclusion, Fenced!Inside
    <3>2. Fenced!Written(t) = 0 /\ Fenced!Written(1 - t) = 0
      BY <2>2, <3>1 DEF Fenced!Written, Fenced!Inside
    <3>3. memory.v = fencedDone[0] + fencedDone[1]
      <4>1. Fenced!Written(0) = 0 /\ Fenced!Written(1) = 0
        BY <3>2, OtherThread
      <4> QED
        BY <2>1, <4>1 DEF Fenced!CountOK, Fenced!TypeOK, Fenced!Tids
    <3>4. \A n \in 1 .. Len(buffer[1 - t]) : buffer[1 - t][n].at # "v"
      <4> DEFINE u == 1 - t
                 b == buffer[u]
      <4>1. /\ Fenced!PassTurn(u).at # "v" /\ Fenced!Lower(u).at # "v"
            /\ Fenced!Raise(u).at # "v"
        BY <2>1, <3>1, FlagsDiffer DEF Fenced!PassTurn, Fenced!Lower, Fenced!Raise
      <4>2. Fenced!InOrder(u) /\ fencedPc[u] # "written"
        BY <2>1, <3>1 DEF Fenced!StoresInOrder, Fenced!Inside
      <4>3. b \in {<< >>, <<Fenced!PassTurn(u)>>, <<Fenced!PassTurn(u), Fenced!Lower(u)>>, <<Fenced!Lower(u)>>,
                   <<Fenced!PassTurn(u), Fenced!Lower(u), Fenced!Raise(u)>>, <<Fenced!Lower(u), Fenced!Raise(u)>>,
                   <<Fenced!Raise(u)>>}
        BY <4>2 DEF Fenced!InOrder
      <4> QED
        BY <4>1, <4>3
    <3> QED
      BY <3>3, <3>4
  <2> QED
    BY <2>1, <2>2 DEF Fenced!FencesSuffice, Fenced!NoStaleCounter
<1> QED
  BY <1>1, FencedInvariant, PTL

-----------------------------------------------------------------------------
(* The timed run of the approximate counter.  Where main and the threads   *)
(* can be, and what they count.                                            *)
TimedPlaces == {"arrive", "wait", "inc", "look", "report", "done"}
MainPlaces == {"start", "arrive", "wait", "join", "done"}
TimedProcs == Timed!Tids \cup {Timed!main}

TimedTypeOK ==
  /\ timer \in {"new", "started", "over"}
  /\ timedPc \in [TimedProcs -> TimedPlaces \cup MainPlaces]
  /\ timedPc[Timed!main] \in MainPlaces
  /\ \A t \in Timed!Tids : timedPc[t] \in TimedPlaces
  /\ timedI \in [Timed!Tids -> Nat]
  /\ localCount \in [Timed!Tids -> 0 .. Timed!Batch]
  /\ global \in Int /\ performed \in Int /\ printed \in Int

(* v of the barrier is the number of those that have come to it, and none  *)
(* has passed it before all have come; main starts the timer before.       *)
Come == {p \in TimedProcs : timedPc[p] \notin {"start", "arrive"}}

BarrierOK ==
  /\ arrived = Cardinality(Come)
  /\ \A p \in TimedProcs : timedPc[p] \notin {"start", "arrive", "wait"} => Come = TimedProcs
  /\ (timedPc[Timed!main] = "start") <=> (timer = "new")
  /\ \A t \in Timed!Tids : timedPc[t] \in {"arrive", "wait"} => timedI[t] = 0

(* Every increment made is in the global count or in a local one, and the  *)
(* increments reported are those of the threads that are done.             *)
Reported(t) == IF timedPc[t] = "done" THEN timedI[t] + 1 ELSE 0

CountsOK ==
  /\ global + Timed!Sum(localCount) = Timed!TotalMade
  /\ performed = Timed!Sum([t \in Timed!Tids |-> Reported(t)])
  /\ timedPc[Timed!main] = "done" =>
       printed = global /\ \A t \in Timed!Tids : timedPc[t] = "done"

TimedInv == TimedTypeOK /\ BarrierOK /\ CountsOK

LEMMA TimedSum ==
  ASSUME NEW f
  PROVE  Timed!Sum(f) = SumFunctionOnSet(f, DOMAIN f)
BY Zenon DEF Timed!Sum, Timed!FoldFunction, Timed!FoldFunctionOnSet, Timed!MapThenFoldSet,
   SumFunctionOnSet, FoldFunctionOnSet, MapThenFoldSet

LEMMA TimedSets ==
  /\ NumThreads \in Nat \ {0} /\ C \in Nat \ {0}
  /\ Timed!Tids = 0 .. NumThreads - 1 /\ Timed!main = NumThreads
  /\ Timed!main \notin Timed!Tids /\ TimedProcs = 0 .. NumThreads
  /\ IsFiniteSet(Timed!Tids) /\ IsFiniteSet(TimedProcs)
  /\ Cardinality(TimedProcs) = NumThreads + 1
  /\ Timed!Batch \in Nat \ {0}
<1>1. NumThreads \in Nat \ {0} /\ C \in Nat \ {0}
  BY CountingAssumption
<1>2. /\ Timed!Tids = 0 .. NumThreads - 1 /\ Timed!main = NumThreads
      /\ Timed!main \notin Timed!Tids /\ TimedProcs = 0 .. NumThreads
  BY <1>1 DEF Timed!Tids, Timed!main, TimedProcs
<1>3. Timed!Batch \in Nat \ {0}
  BY <1>1 DEF Timed!Batch
<1>4. /\ IsFiniteSet(0 .. NumThreads - 1) /\ IsFiniteSet(0 .. NumThreads)
      /\ Cardinality(0 .. NumThreads) = NumThreads + 1
  BY <1>1, FS_Interval
<1>5. /\ IsFiniteSet(Timed!Tids) /\ IsFiniteSet(TimedProcs)
      /\ Cardinality(TimedProcs) = NumThreads + 1
  BY <1>2, <1>4, Zenon
<1> QED
  BY <1>1, <1>2, <1>3, <1>5, Zenon

(* A sum over the threads of which one value changes. *)
LEMMA TimedSumChange ==
  ASSUME NEW f, NEW g, DOMAIN f = Timed!Tids, DOMAIN g = Timed!Tids, NEW t \in Timed!Tids,
         \A u \in Timed!Tids : f[u] \in Int /\ g[u] \in Int,
         \A u \in Timed!Tids \ {t} : f[u] = g[u]
  PROVE  /\ Timed!Sum(g) = (Timed!Sum(f) - f[t]) + g[t]
         /\ Timed!Sum(f) \in Int
<1>0. IsFiniteSet(Timed!Tids)
  BY TimedSets
<1>1. SumFunctionOnSet(g, Timed!Tids) = (SumFunctionOnSet(f, Timed!Tids) - f[t]) + g[t]
  BY <1>0, SumChange
<1>2. SumFunctionOnSet(f, Timed!Tids) \in Int
  BY <1>0, SumType
<1>3. /\ Timed!Sum(g) = SumFunctionOnSet(g, Timed!Tids)
      /\ Timed!Sum(f) = SumFunctionOnSet(f, Timed!Tids)
  BY TimedSum
<1> QED
  BY <1>1, <1>2, <1>3

LEMMA TimedSumSame ==
  ASSUME NEW f, NEW g, DOMAIN f = Timed!Tids, DOMAIN g = Timed!Tids,
         \A u \in Timed!Tids : f[u] = g[u]
  PROVE  Timed!Sum(g) = Timed!Sum(f)
<1>1. SumFunctionOnSet(f, Timed!Tids) = SumFunctionOnSet(g, Timed!Tids)
  BY TimedSets, SumAgree
<1> QED
  BY <1>1, TimedSum

LEMMA TimedInit == Timed!Init => TimedInv
<1> SUFFICES ASSUME Timed!Init PROVE TimedInv
  OBVIOUS
<1> USE DEF Timed!Init
<1>1. /\ timedPc = [p \in TimedProcs |-> IF p = Timed!main THEN "start" ELSE "arrive"]
      /\ timedI = [t \in Timed!Tids |-> 0] /\ localCount = [t \in Timed!Tids |-> 0]
      /\ arrived = 0 /\ timer = "new" /\ global = 0 /\ performed = 0 /\ printed = 0
  BY DEF TimedProcs
<1>2. Timed!main \in TimedProcs /\ \A t \in Timed!Tids : t \in TimedProcs /\ t # Timed!main
  BY TimedSets DEF TimedProcs
<1>3. TimedTypeOK
  BY <1>1, <1>2, TimedSets DEF TimedTypeOK, TimedPlaces, MainPlaces
<1>4. BarrierOK
  <2>1. Come = {}
    BY <1>1 DEF Come
  <2> QED
    BY <1>1, <1>2, <2>1, FS_EmptySet DEF BarrierOK
<1>5. CountsOK
  <2> SUFFICES ASSUME NEW z, z = [t \in Timed!Tids |-> 0] PROVE CountsOK
    OBVIOUS
  <2>1. Timed!Sum(z) = 0
    BY TimedSum, TimedSets, SumZero
  <2>2. \A t \in Timed!Tids : Timed!Made(t) = 0 /\ Reported(t) = 0
    BY <1>1, <1>2 DEF Timed!Made, Reported
  <2>3. [t \in Timed!Tids |-> Timed!Made(t)] = z /\ [t \in Timed!Tids |-> Reported(t)] = z
    BY <2>2
  <2>4. Timed!TotalMade = 0
    BY <2>1, <2>3 DEF Timed!TotalMade
  <2>5. timedPc[Timed!main] # "done"
    BY <1>1, <1>2
  <2> QED
    BY <1>1, <2>1, <2>3, <2>4, <2>5 DEF CountsOK
<1> QED
  BY <1>3, <1>4, <1>5 DEF TimedInv

LEMMA TimedGoto ==
  ASSUME TimedTypeOK, NEW p \in TimedProcs, NEW l, Timed!Goto(p, l)
  PROVE  /\ timedPc'[p] = l /\ \A q \in TimedProcs \ {p} : timedPc'[q] = timedPc[q]
         /\ DOMAIN timedPc' = TimedProcs
BY DEF TimedTypeOK, Timed!Goto

LEMMA TimedTypeGoto ==
  ASSUME TimedTypeOK, NEW p \in TimedProcs, NEW l, Timed!Goto(p, l),
         IF p = Timed!main THEN l \in MainPlaces ELSE l \in TimedPlaces
  PROVE  /\ timedPc' \in [TimedProcs -> TimedPlaces \cup MainPlaces]
         /\ timedPc'[Timed!main] \in MainPlaces
         /\ \A t \in Timed!Tids : timedPc'[t] \in TimedPlaces
<1>1. Timed!main \notin Timed!Tids /\ Timed!Tids \subseteq TimedProcs /\ Timed!main \in TimedProcs
  BY TimedSets DEF TimedProcs
<1>2. l \in TimedPlaces \cup MainPlaces
  OBVIOUS
<1>3. timedPc' = [timedPc EXCEPT ![p] = l]
  BY DEF Timed!Goto
<1>4. timedPc' \in [TimedProcs -> TimedPlaces \cup MainPlaces]
  BY <1>2, <1>3 DEF TimedTypeOK
<1>5. \A q \in TimedProcs : timedPc'[q] = IF q = p THEN l ELSE timedPc[q]
  BY <1>3 DEF TimedTypeOK
<1>6. timedPc[Timed!main] \in MainPlaces /\ \A t \in Timed!Tids : timedPc[t] \in TimedPlaces
  BY DEF TimedTypeOK
<1>7. timedPc'[Timed!main] \in MainPlaces
  BY <1>1, <1>5, <1>6
<1>8. ASSUME NEW t \in Timed!Tids PROVE timedPc'[t] \in TimedPlaces
  BY <1>1, <1>5, <1>6
<1> QED
  BY <1>4, <1>7, <1>8

LEMMA TimedTypeStep == TimedTypeOK /\ [Timed!Next]_(Timed!vars) => TimedTypeOK'
<1> SUFFICES ASSUME TimedTypeOK, [Timed!Next]_(Timed!vars) PROVE TimedTypeOK'
  OBVIOUS
<1>1. /\ timer \in {"new", "started", "over"}
      /\ timedI \in [Timed!Tids -> Nat]
      /\ localCount \in [Timed!Tids -> 0 .. Timed!Batch]
      /\ global \in Int /\ performed \in Int /\ printed \in Int
      /\ timedPc \in [TimedProcs -> TimedPlaces \cup MainPlaces]
      /\ timedPc[Timed!main] \in MainPlaces
      /\ \A t \in Timed!Tids : timedPc[t] \in TimedPlaces
  BY DEF TimedTypeOK
<1>2. /\ Timed!main \in TimedProcs /\ Timed!Tids \subseteq TimedProcs
      /\ Timed!main \notin Timed!Tids /\ Timed!Batch \in Nat \ {0}
  BY TimedSets DEF TimedProcs
<1>3. CASE UNCHANGED Timed!vars
  BY <1>1, <1>3 DEF Timed!vars, Timed!counter, TimedTypeOK
<1>4. CASE Timed!TimeIsUp
  BY <1>1, <1>4 DEF Timed!TimeIsUp, Timed!counter, TimedTypeOK
<1>5. ASSUME NEW p \in TimedProcs, NEW l, Timed!Goto(p, l),
             IF p = Timed!main THEN l \in MainPlaces ELSE l \in TimedPlaces,
             timer' \in {"new", "started", "over"},
             timedI' \in [Timed!Tids -> Nat],
             localCount' \in [Timed!Tids -> 0 .. Timed!Batch],
             global' \in Int, performed' \in Int, printed' \in Int
      PROVE  TimedTypeOK'
  <2>1. /\ timedPc' \in [TimedProcs -> TimedPlaces \cup MainPlaces]
        /\ timedPc'[Timed!main] \in MainPlaces
        /\ \A t \in Timed!Tids : timedPc'[t] \in TimedPlaces
    BY <1>5, TimedTypeGoto
  <2> QED
    BY <1>5, <2>1 DEF TimedTypeOK
<1>6. ASSUME NEW p \in TimedProcs, Timed!Arrive(p) \/ Timed!Pass(p) PROVE TimedTypeOK'
  <2>1. PICK l : /\ Timed!Goto(p, l)
                 /\ l = "wait" \/ l = IF p = Timed!main THEN "join" ELSE "inc"
    BY <1>6 DEF Timed!Arrive, Timed!Pass
  <2>2. IF p = Timed!main THEN l \in MainPlaces ELSE l \in TimedPlaces
    BY <2>1 DEF MainPlaces, TimedPlaces
  <2>3. UNCHANGED <<timer, timedI, localCount, global, performed, printed>>
    BY <1>6 DEF Timed!Arrive, Timed!Pass, Timed!counter
  <2> QED
    BY <1>1, <1>5, <2>1, <2>2, <2>3
<1>7. CASE Timed!StartTimer
  <2>1. Timed!Goto(Timed!main, "arrive") /\ timer' = "started"
        /\ UNCHANGED <<timedI, localCount, global, performed, printed>>
    BY <1>7 DEF Timed!StartTimer, Timed!counter
  <2> QED
    BY <1>1, <1>2, <1>5, <2>1 DEF MainPlaces
<1>8. CASE Timed!JoinAndPrint
  <2>1. Timed!Goto(Timed!main, "done") /\ printed' = global
        /\ UNCHANGED <<timer, timedI, localCount, global, performed>>
    BY <1>8 DEF Timed!JoinAndPrint, Timed!counter
  <2> QED
    BY <1>1, <1>2, <1>5, <2>1 DEF MainPlaces
<1>9. ASSUME NEW t \in Timed!Tids, Timed!Inc(t) PROVE TimedTypeOK'
  <2>1. /\ Timed!Goto(t, "look") /\ UNCHANGED <<timer, timedI, performed, printed>>
        /\ \/ /\ global' = global + localCount[t]
              /\ localCount' = [localCount EXCEPT ![t] = 1]
           \/ /\ localCount[t] < Timed!Batch /\ global' = global
              /\ localCount' = [localCount EXCEPT ![t] = @ + 1]
    BY <1>9 DEF Timed!Inc
  <2>2. localCount' \in [Timed!Tids -> 0 .. Timed!Batch] /\ global' \in Int
    BY <1>1, <1>2, <2>1
  <2> QED
    BY <1>1, <1>2, <1>5, <2>1, <2>2 DEF TimedPlaces
<1>10. ASSUME NEW t \in Timed!Tids, Timed!Look(t) PROVE TimedTypeOK'
  <2>1. PICK l : l \in {"report", "inc"} /\ Timed!Goto(t, l)
    BY <1>10 DEF Timed!Look
  <2>2. /\ UNCHANGED <<timer, localCount, global, performed, printed>>
        /\ timedI' = timedI \/ timedI' = [timedI EXCEPT ![t] = @ + 1]
    BY <1>10 DEF Timed!Look, Timed!counter
  <2>3. timedI' \in [Timed!Tids -> Nat]
    BY <1>1, <2>2
  <2> QED
    BY <1>1, <1>2, <1>5, <2>1, <2>2, <2>3 DEF TimedPlaces
<1>11. ASSUME NEW t \in Timed!Tids, Timed!Report(t) PROVE TimedTypeOK'
  <2>1. /\ Timed!Goto(t, "done") /\ performed' = performed + timedI[t] + 1
        /\ UNCHANGED <<timer, timedI, localCount, global, printed>>
    BY <1>11 DEF Timed!Report, Timed!counter
  <2>2. performed' \in Int
    BY <1>1, <2>1
  <2> QED
    BY <1>1, <1>2, <1>5, <2>1, <2>2 DEF TimedPlaces
<1>12. ASSUME NEW p \in TimedProcs, Timed!Step(p) PROVE TimedTypeOK'
  BY <1>6, <1>7, <1>8, <1>9, <1>10, <1>11, <1>12 DEF Timed!Step
<1> QED
  BY <1>3, <1>4, <1>12 DEF Timed!Next, TimedProcs

LEMMA ComeAll ==
  ASSUME TimedTypeOK, BarrierOK, arrived >= NumThreads + 1
  PROVE  Come = TimedProcs
<1>1. Come \in SUBSET TimedProcs /\ arrived = Cardinality(Come)
  BY DEF Come, BarrierOK
<1>2. /\ IsFiniteSet(Come) /\ Cardinality(Come) <= Cardinality(TimedProcs)
      /\ Cardinality(Come) = Cardinality(TimedProcs) => Come = TimedProcs
  BY <1>1, TimedSets, FS_Subset
<1>3. Cardinality(Come) \in Nat
  BY <1>2, FS_CardinalityType
<1>4. Cardinality(TimedProcs) = NumThreads + 1 /\ NumThreads \in Nat
  BY TimedSets
<1> QED
  BY <1>1, <1>2, <1>3, <1>4

LEMMA BarrierStep ==
  TimedTypeOK /\ BarrierOK /\ [Timed!Next]_(Timed!vars) => BarrierOK'
<1> SUFFICES ASSUME TimedTypeOK, BarrierOK, [Timed!Next]_(Timed!vars) PROVE BarrierOK'
  OBVIOUS
<1>1. /\ arrived = Cardinality(Come)
      /\ \A p \in TimedProcs : timedPc[p] \notin {"start", "arrive", "wait"} => Come = TimedProcs
      /\ (timedPc[Timed!main] = "start") <=> (timer = "new")
      /\ \A t \in Timed!Tids : timedPc[t] \in {"arrive", "wait"} => timedI[t] = 0
  BY DEF BarrierOK
<1>2. /\ Timed!main \in TimedProcs /\ Timed!Tids \subseteq TimedProcs
      /\ Timed!main \notin Timed!Tids /\ IsFiniteSet(TimedProcs)
      /\ timedPc[Timed!main] \in MainPlaces
      /\ \A t \in Timed!Tids : timedPc[t] \in TimedPlaces
  BY TimedSets DEF TimedProcs, TimedTypeOK
<1>3. IsFiniteSet(Come)
  <2>1. Come \in SUBSET TimedProcs
    BY DEF Come
  <2> QED
    BY <1>2, <2>1, FS_Subset
<1>4. ASSUME NEW p \in TimedProcs, NEW l, Timed!Goto(p, l), timedPc[p] \notin {"start", "arrive"},
             l \notin {"start", "arrive", "wait"}, Come = TimedProcs,
             UNCHANGED <<arrived, timer>>,
             \A u \in Timed!Tids \ {p} : timedI'[u] = timedI[u]
      PROVE  BarrierOK'
  <2>1. timedPc'[p] = l /\ \A q \in TimedProcs \ {p} : timedPc'[q] = timedPc[q]
    BY <1>4, TimedGoto
  <2>2. Come' = Come
    BY <1>4, <2>1 DEF Come
  <2>3. (timedPc'[Timed!main] = "start") <=> (timer' = "new")
    BY <1>1, <1>2, <1>4, <2>1
  <2>4. \A t \in Timed!Tids : timedPc'[t] \in {"arrive", "wait"} => timedI'[t] = 0
    BY <1>1, <1>2, <1>4, <2>1
  <2> QED
    BY <1>1, <1>4, <2>2, <2>3, <2>4 DEF BarrierOK
<1>5. CASE UNCHANGED Timed!vars
  BY <1>1, <1>5 DEF Timed!vars, BarrierOK, Come
<1>6. CASE Timed!TimeIsUp
  BY <1>1, <1>6 DEF Timed!TimeIsUp, BarrierOK, Come
<1>7. ASSUME NEW p \in TimedProcs, Timed!Arrive(p) PROVE BarrierOK'
  <2>1. /\ timedPc[p] = "arrive" /\ timedPc'[p] = "wait"
        /\ \A q \in TimedProcs \ {p} : timedPc'[q] = timedPc[q]
        /\ arrived' = arrived + 1 /\ timer' = timer /\ timedI' = timedI
    BY <1>7, TimedGoto DEF Timed!Arrive
  <2>2. Come' = Come \cup {p} /\ p \notin Come
    BY <2>1 DEF Come
  <2>3. Cardinality(Come \cup {p}) = Cardinality(Come) + 1
    BY <1>3, <2>2, FS_AddElement
  <2>4. arrived' = Cardinality(Come')
    BY <1>1, <2>1, <2>2, <2>3
  <2>5. Come # TimedProcs
    BY <2>2
  <2>6. \A q \in TimedProcs : timedPc'[q] \in {"start", "arrive", "wait"}
    BY <1>1, <2>1, <2>5
  <2>7. (timedPc'[Timed!main] = "start") <=> (timer' = "new")
    BY <1>1, <1>2, <2>1
  <2>8. \A t \in Timed!Tids : timedPc'[t] \in {"arrive", "wait"} => timedI'[t] = 0
    BY <1>1, <1>2, <2>1
  <2> QED
    BY <2>4, <2>6, <2>7, <2>8 DEF BarrierOK
<1>8. ASSUME NEW p \in TimedProcs, Timed!Pass(p) PROVE BarrierOK'
  <2>1. PICK l : l \in {"join", "inc"} /\ Timed!Goto(p, l)
    BY <1>8 DEF Timed!Pass
  <2>2. /\ timedPc[p] = "wait" /\ arrived >= NumThreads + 1
        /\ UNCHANGED <<arrived, timer, timedI>>
    BY <1>8 DEF Timed!Pass
  <2>3. Come = TimedProcs
    BY <2>2, ComeAll
  <2> QED
    BY <1>4, <2>1, <2>2, <2>3
<1>9. CASE Timed!StartTimer
  <2>1. /\ timedPc[Timed!main] = "start" /\ timedPc'[Timed!main] = "arrive"
        /\ \A q \in TimedProcs \ {Timed!main} : timedPc'[q] = timedPc[q]
        /\ arrived' = arrived /\ timer' = "started" /\ timedI' = timedI
    BY <1>2, <1>9, TimedGoto DEF Timed!StartTimer
  <2>2. Come' = Come
    BY <2>1 DEF Come
  <2> QED
    BY <1>1, <1>2, <2>1, <2>2 DEF BarrierOK
<1>10. CASE Timed!JoinAndPrint
  <2>1. /\ timedPc[Timed!main] = "join" /\ Timed!Goto(Timed!main, "done")
        /\ UNCHANGED <<arrived, timer, timedI>>
    BY <1>10 DEF Timed!JoinAndPrint
  <2>2. Come = TimedProcs
    BY <1>1, <1>2, <2>1
  <2> QED
    BY <1>2, <1>4, <2>1, <2>2
<1>11. ASSUME NEW t \in Timed!Tids, Timed!Inc(t) \/ Timed!Look(t) \/ Timed!Report(t)
       PROVE  BarrierOK'
  <2>1. /\ timedPc[t] \in {"inc", "look", "report"}
        /\ UNCHANGED <<arrived, timer>>
        /\ timedI' = timedI \/ timedI' = [timedI EXCEPT ![t] = @ + 1]
    BY <1>11 DEF Timed!Inc, Timed!Look, Timed!Report
  <2>2. PICK l : l \in {"look", "report", "inc", "done"} /\ Timed!Goto(t, l)
    BY <1>11 DEF Timed!Inc, Timed!Look, Timed!Report
  <2>3. Come = TimedProcs
    BY <1>1, <1>2, <2>1
  <2>4. \A u \in Timed!Tids \ {t} : timedI'[u] = timedI[u]
    BY <2>1 DEF TimedTypeOK
  <2> QED
    BY <1>2, <1>4, <2>1, <2>2, <2>3, <2>4
<1>12. ASSUME NEW p \in TimedProcs, Timed!Step(p) PROVE BarrierOK'
  BY <1>7, <1>8, <1>9, <1>10, <1>11, <1>12 DEF Timed!Step
<1> QED
  BY <1>5, <1>6, <1>12 DEF Timed!Next, TimedProcs

LEMMA MadeOf ==
  ASSUME TimedTypeOK, NEW t \in Timed!Tids
  PROVE  /\ Timed!Made(t) \in Int /\ Reported(t) \in Int
         /\ timedPc[t] \in {"arrive", "wait"} => Timed!Made(t) = 0
         /\ timedPc[t] = "inc" => Timed!Made(t) = timedI[t]
         /\ timedPc[t] \in {"look", "report", "done"} => Timed!Made(t) = timedI[t] + 1
         /\ timedPc[t] # "done" => Reported(t) = 0
         /\ timedPc[t] = "done" => Reported(t) = timedI[t] + 1
<1>1. timedPc[t] \in TimedPlaces /\ timedI[t] \in Nat
  BY DEF TimedTypeOK
<1>2. /\ timedPc[t] \in {"arrive", "wait"} => Timed!Made(t) = 0
      /\ timedPc[t] = "inc" => Timed!Made(t) = timedI[t]
      /\ timedPc[t] \in {"look", "report", "done"} => Timed!Made(t) = timedI[t] + 1
  BY <1>1 DEF Timed!Made, TimedPlaces
<1>3. Timed!Made(t) \in Int
  BY <1>1, <1>2 DEF TimedPlaces
<1> QED
  BY <1>1, <1>2, <1>3 DEF Reported

LEMMA MadeLater ==
  ASSUME TimedTypeOK', NEW t \in Timed!Tids
  PROVE  /\ Timed!Made(t)' \in Int /\ Reported(t)' \in Int
         /\ timedPc'[t] \in {"arrive", "wait"} => Timed!Made(t)' = 0
         /\ timedPc'[t] = "inc" => Timed!Made(t)' = timedI'[t]
         /\ timedPc'[t] \in {"look", "report", "done"} => Timed!Made(t)' = timedI'[t] + 1
         /\ timedPc'[t] # "done" => Reported(t)' = 0
         /\ timedPc'[t] = "done" => Reported(t)' = timedI'[t] + 1
<1>1. timedPc'[t] \in TimedPlaces /\ timedI'[t] \in Nat
  BY DEF TimedTypeOK
<1>2. /\ timedPc'[t] \in {"arrive", "wait"} => Timed!Made(t)' = 0
      /\ timedPc'[t] = "inc" => Timed!Made(t)' = timedI'[t]
      /\ timedPc'[t] \in {"look", "report", "done"} => Timed!Made(t)' = timedI'[t] + 1
  BY <1>1 DEF Timed!Made, TimedPlaces
<1>3. Timed!Made(t)' \in Int
  BY <1>1, <1>2 DEF TimedPlaces
<1> QED
  BY <1>1, <1>2, <1>3 DEF Reported

(* The sums after a step. *)
LEMMA SumsLater ==
  /\ Timed!Sum(localCount)' = Timed!Sum(localCount')
  /\ Timed!Sum([u \in Timed!Tids |-> Reported(u)])' =
       Timed!Sum([u \in Timed!Tids |-> Reported(u)'])
  /\ Timed!TotalMade' = Timed!Sum([u \in Timed!Tids |-> Timed!Made(u)'])
<1> USE DEF Timed!Sum, Timed!FoldFunction, Timed!FoldFunctionOnSet, Timed!MapThenFoldSet
<1>1. Timed!Sum(localCount)' = Timed!Sum(localCount')
  BY Zenon
<1>2. Timed!Sum([u \in Timed!Tids |-> Reported(u)])' =
        Timed!Sum([u \in Timed!Tids |-> Reported(u)'])
  BY Zenon
<1>3. Timed!TotalMade' = Timed!Sum([u \in Timed!Tids |-> Timed!Made(u)'])
  BY Zenon DEF Timed!TotalMade
<1> HIDE DEF Timed!Sum, Timed!FoldFunction, Timed!FoldFunctionOnSet, Timed!MapThenFoldSet
<1> QED
  BY <1>1, <1>2, <1>3

(* What a step of one thread does to the totals. *)
LEMMA TotalsChange ==
  ASSUME TimedTypeOK, TimedTypeOK', NEW t \in Timed!Tids,
         \A u \in Timed!Tids \ {t} : timedPc'[u] = timedPc[u] /\ timedI'[u] = timedI[u]
  PROVE  /\ Timed!TotalMade' = (Timed!TotalMade - Timed!Made(t)) + Timed!Made(t)'
         /\ Timed!TotalMade \in Int
         /\ Timed!Sum([u \in Timed!Tids |-> Reported(u)])' =
              (Timed!Sum([u \in Timed!Tids |-> Reported(u)]) - Reported(t)) + Reported(t)'
         /\ Timed!Sum([u \in Timed!Tids |-> Reported(u)]) \in Int
<1> SUFFICES ASSUME NEW f, f = [u \in Timed!Tids |-> Timed!Made(u)],
                    NEW g, g = [u \in Timed!Tids |-> Timed!Made(u)'],
                    NEW r, r = [u \in Timed!Tids |-> Reported(u)],
                    NEW s, s = [u \in Timed!Tids |-> Reported(u)']
             PROVE  /\ Timed!Sum(g) = (Timed!Sum(f) - f[t]) + g[t] /\ Timed!Sum(f) \in Int
                    /\ Timed!Sum(s) = (Timed!Sum(r) - r[t]) + s[t] /\ Timed!Sum(r) \in Int
  BY SumsLater DEF Timed!TotalMade
<1>1. ASSUME NEW u \in Timed!Tids
      PROVE  f[u] \in Int /\ g[u] \in Int /\ r[u] \in Int /\ s[u] \in Int
  BY MadeOf, MadeLater
<1>2. ASSUME NEW u \in Timed!Tids \ {t} PROVE f[u] = g[u] /\ r[u] = s[u]
  BY DEF Timed!Made, Reported
<1>3. Timed!Sum(g) = (Timed!Sum(f) - f[t]) + g[t] /\ Timed!Sum(f) \in Int
  BY <1>1, <1>2, TimedSumChange
<1>4. Timed!Sum(s) = (Timed!Sum(r) - r[t]) + s[t] /\ Timed!Sum(r) \in Int
  BY <1>1, <1>2, TimedSumChange
<1> QED
  BY <1>3, <1>4

LEMMA TotalsStay ==
  ASSUME \A u \in Timed!Tids : Timed!Made(u)' = Timed!Made(u) /\ Reported(u)' = Reported(u)
  PROVE  /\ Timed!TotalMade' = Timed!TotalMade
         /\ Timed!Sum([u \in Timed!Tids |-> Reported(u)])' =
              Timed!Sum([u \in Timed!Tids |-> Reported(u)])
<1>1. /\ [u \in Timed!Tids |-> Timed!Made(u)'] = [u \in Timed!Tids |-> Timed!Made(u)]
      /\ [u \in Timed!Tids |-> Reported(u)'] = [u \in Timed!Tids |-> Reported(u)]
  OBVIOUS
<1> QED
  BY <1>1, SumsLater DEF Timed!TotalMade

LEMMA CountsQuiet ==
  ASSUME CountsOK, UNCHANGED <<localCount, global, performed, printed>>,
         \A u \in Timed!Tids : Timed!Made(u)' = Timed!Made(u) /\ Reported(u)' = Reported(u),
         timedPc'[Timed!main] = "done" =>
           printed = global /\ \A u \in Timed!Tids : timedPc'[u] = "done"
  PROVE  CountsOK'
<1>1. Timed!Sum(localCount)' = Timed!Sum(localCount)
  BY SumsLater
<1> QED
  BY <1>1, TotalsStay DEF CountsOK

LEMMA CountsStep ==
  TimedTypeOK /\ TimedTypeOK' /\ BarrierOK /\ CountsOK /\ [Timed!Next]_(Timed!vars) => CountsOK'
<1> SUFFICES ASSUME TimedTypeOK, TimedTypeOK', BarrierOK, CountsOK, [Timed!Next]_(Timed!vars)
             PROVE  CountsOK'
  OBVIOUS
<1>1. /\ global + Timed!Sum(localCount) = Timed!TotalMade
      /\ performed = Timed!Sum([t \in Timed!Tids |-> Reported(t)])
      /\ timedPc[Timed!main] = "done" =>
           printed = global /\ \A t \in Timed!Tids : timedPc[t] = "done"
  BY DEF CountsOK
<1>2. /\ Timed!main \in TimedProcs /\ Timed!Tids \subseteq TimedProcs
      /\ Timed!main \notin Timed!Tids
      /\ timedPc[Timed!main] \in MainPlaces
      /\ \A t \in Timed!Tids : timedPc[t] \in TimedPlaces /\ timedI[t] \in Nat
      /\ timedI \in [Timed!Tids -> Nat] /\ global \in Int /\ performed \in Int
      /\ localCount \in [Timed!Tids -> 0 .. Timed!Batch] /\ Timed!Batch \in Nat \ {0}
  BY TimedSets DEF TimedProcs, TimedTypeOK
<1>3. ASSUME timedI' = timedI, timedPc' = timedPc,
             UNCHANGED <<localCount, global, performed, printed>>
      PROVE  CountsOK'
  <2>1. \A u \in Timed!Tids : Timed!Made(u)' = Timed!Made(u) /\ Reported(u)' = Reported(u)
    BY <1>3 DEF Timed!Made, Reported
  <2> QED
    BY <1>1, <1>3, <2>1, CountsQuiet
<1>4. CASE UNCHANGED Timed!vars
  BY <1>3, <1>4 DEF Timed!vars, Timed!counter
<1>5. CASE Timed!TimeIsUp
  BY <1>3, <1>5 DEF Timed!TimeIsUp, Timed!counter
<1>6. ASSUME NEW l, Timed!Goto(Timed!main, l), timedI' = timedI, l # "done",
             UNCHANGED <<localCount, global, performed, printed>>
      PROVE  CountsOK'
  <2>1. /\ timedPc'[Timed!main] = l
        /\ \A q \in TimedProcs \ {Timed!main} : timedPc'[q] = timedPc[q]
    BY <1>2, <1>6, TimedGoto
  <2>2. \A u \in Timed!Tids : timedPc'[u] = timedPc[u]
    BY <1>2, <2>1
  <2>3. \A u \in Timed!Tids : Timed!Made(u)' = Timed!Made(u) /\ Reported(u)' = Reported(u)
    BY <1>6, <2>2 DEF Timed!Made, Reported
  <2> QED
    BY <1>6, <2>1, <2>3, CountsQuiet
<1>7. CASE Timed!StartTimer \/ Timed!Arrive(Timed!main) \/ Timed!Pass(Timed!main)
  <2>1. PICK l : l # "done" /\ Timed!Goto(Timed!main, l)
    BY <1>7 DEF Timed!StartTimer, Timed!Arrive, Timed!Pass
  <2>2. UNCHANGED <<timedI, localCount, global, performed, printed>>
    BY <1>7 DEF Timed!StartTimer, Timed!Arrive, Timed!Pass, Timed!counter
  <2> QED
    BY <1>6, <2>1, <2>2
<1>8. CASE Timed!JoinAndPrint
  <2>1. /\ \A t \in Timed!Tids : timedPc[t] = "done"
        /\ Timed!Goto(Timed!main, "done") /\ printed' = global
        /\ UNCHANGED <<timedI, localCount, global, performed>>
    BY <1>8 DEF Timed!JoinAndPrint, Timed!counter
  <2>2. \A u \in Timed!Tids : timedPc'[u] = timedPc[u]
    BY <1>2, <2>1, TimedGoto
  <2>3. \A u \in Timed!Tids : Timed!Made(u)' = Timed!Made(u) /\ Reported(u)' = Reported(u)
    BY <2>1, <2>2 DEF Timed!Made, Reported
  <2>4. Timed!Sum(localCount)' = Timed!Sum(localCount)
    BY <2>1, SumsLater
  <2> QED
    BY <1>1, <2>1, <2>2, <2>3, <2>4, TotalsStay DEF CountsOK
<1>9. ASSUME NEW t \in Timed!Tids, timedPc[t] # "done", NEW l, Timed!Goto(t, l)
      PROVE  /\ t # Timed!main /\ t \in TimedProcs /\ timedPc'[t] = l
             /\ timedPc'[Timed!main] # "done"
             /\ \A u \in Timed!Tids \ {t} : timedPc'[u] = timedPc[u]
  <2>1. timedPc[Timed!main] # "done"
    BY <1>1, <1>9
  <2> QED
    BY <1>2, <1>9, <2>1, TimedGoto
<1>10. ASSUME NEW t \in Timed!Tids, Timed!Arrive(t) \/ Timed!Pass(t) \/ Timed!Look(t)
       PROVE  CountsOK'
  <2>1. PICK l : l # "done" /\ Timed!Goto(t, l)
    BY <1>2, <1>10 DEF Timed!Arrive, Timed!Pass, Timed!Look
  <2>2. /\ UNCHANGED <<localCount, global, performed, printed>>
        /\ timedPc[t] # "done"
        /\ timedI' = timedI \/ timedI' = [timedI EXCEPT ![t] = @ + 1]
    BY <1>10 DEF Timed!Arrive, Timed!Pass, Timed!Look, Timed!counter
  <2>3. /\ timedPc'[t] = l /\ timedPc'[Timed!main] # "done"
        /\ \A u \in Timed!Tids \ {t} : timedPc'[u] = timedPc[u]
    BY <1>9, <2>1, <2>2
  <2>4. \A u \in Timed!Tids \ {t} : timedI'[u] = timedI[u]
    BY <1>2, <2>2
  <2>5. Timed!Made(t)' = Timed!Made(t)
    <3>1. CASE Timed!Arrive(t)
      <4>1. timedPc[t] = "arrive" /\ timedPc'[t] = "wait"
        BY <1>2, <3>1, TimedGoto DEF Timed!Arrive
      <4> QED
        BY <4>1, MadeOf, MadeLater
    <3>2. CASE Timed!Pass(t)
      <4>1. timedPc[t] = "wait" /\ timedPc'[t] = "inc" /\ timedI' = timedI
        BY <1>2, <3>2, TimedGoto DEF Timed!Pass
      <4>2. timedI[t] = 0
        BY <4>1 DEF BarrierOK
      <4> QED
        BY <4>1, <4>2, MadeOf, MadeLater
    <3>3. CASE Timed!Look(t)
      <4>1. /\ timedPc[t] = "look"
            /\ \/ timedPc'[t] = "report" /\ timedI' = timedI
               \/ timedPc'[t] = "inc" /\ timedI' = [timedI EXCEPT ![t] = @ + 1]
        BY <1>2, <3>3, TimedGoto DEF Timed!Look
      <4>2. \/ timedPc'[t] = "report" /\ timedI'[t] = timedI[t]
            \/ timedPc'[t] = "inc" /\ timedI'[t] = timedI[t] + 1
        BY <1>2, <4>1
      <4> QED
        BY <4>1, <4>2, MadeOf, MadeLater
    <3> QED
      BY <1>10, <3>1, <3>2, <3>3
  <2>6. Reported(t)' = Reported(t)
    BY <2>1, <2>2, <2>3, MadeOf, MadeLater
  <2>7. ASSUME NEW u \in Timed!Tids
        PROVE  Timed!Made(u)' = Timed!Made(u) /\ Reported(u)' = Reported(u)
    <3>1. CASE u = t
      BY <2>5, <2>6, <3>1
    <3>2. CASE u # t
      BY <2>3, <2>4, <3>2 DEF Timed!Made, Reported
    <3> QED
      BY <3>1, <3>2
  <2> QED
    BY <2>2, <2>3, <2>7, CountsQuiet
<1>11. ASSUME NEW t \in Timed!Tids, Timed!Inc(t) PROVE CountsOK'
  <2>1. /\ timedPc[t] = "inc" /\ Timed!Goto(t, "look")
        /\ UNCHANGED <<timedI, performed, printed>>
        /\ \/ /\ global' = global + localCount[t]
              /\ localCount' = [localCount EXCEPT ![t] = 1]
           \/ /\ global' = global
              /\ localCount' = [localCount EXCEPT ![t] = @ + 1]
    BY <1>11 DEF Timed!Inc
  <2>2. /\ timedPc'[t] = "look" /\ timedPc'[Timed!main] # "done"
        /\ \A u \in Timed!Tids \ {t} : timedPc'[u] = timedPc[u]
    BY <1>9, <2>1
  <2>3. Timed!Made(t)' = Timed!Made(t) + 1 /\ Reported(t)' = Reported(t)
    BY <1>2, <2>1, <2>2, MadeOf, MadeLater
  <2>4. /\ Timed!Made(t) \in Int /\ Reported(t) \in Int
    BY MadeOf
  <2>5. /\ Timed!TotalMade' = (Timed!TotalMade - Timed!Made(t)) + Timed!Made(t)'
        /\ Timed!TotalMade \in Int
        /\ Timed!Sum([u \in Timed!Tids |-> Reported(u)])' =
             (Timed!Sum([u \in Timed!Tids |-> Reported(u)]) - Reported(t)) + Reported(t)'
        /\ Timed!Sum([u \in Timed!Tids |-> Reported(u)]) \in Int
    BY <2>1, <2>2, TotalsChange
  <2>6. /\ Timed!TotalMade' = Timed!TotalMade + 1
        /\ Timed!Sum([u \in Timed!Tids |-> Reported(u)])' =
             Timed!Sum([u \in Timed!Tids |-> Reported(u)])
    BY <2>3, <2>4, <2>5
  <2>7. /\ Timed!Sum(localCount)' = (Timed!Sum(localCount) - localCount[t]) + localCount'[t]
        /\ Timed!Sum(localCount) \in Int
    <3>1. /\ DOMAIN localCount = Timed!Tids /\ DOMAIN localCount' = Timed!Tids
          /\ \A u \in Timed!Tids : localCount[u] \in Int /\ localCount'[u] \in Int
      BY TimedSets DEF TimedTypeOK
    <3>2. \A u \in Timed!Tids \ {t} : localCount[u] = localCount'[u]
      BY <1>2, <2>1
    <3>3. Timed!Sum(localCount') = (Timed!Sum(localCount) - localCount[t]) + localCount'[t]
      BY <3>1, <3>2, TimedSumChange
    <3>4. Timed!Sum(localCount) \in Int
      BY <3>1, <3>2, TimedSumChange
    <3>5. Timed!Sum(localCount)' = Timed!Sum(localCount')
      BY SumsLater
    <3> QED
      BY <3>3, <3>4, <3>5
  <2>8. /\ localCount[t] \in Int
        /\ \/ global' = global + localCount[t] /\ localCount'[t] = 1
           \/ global' = global /\ localCount'[t] = localCount[t] + 1
    BY <1>2, <2>1
  <2>9. global' + Timed!Sum(localCount)' = Timed!TotalMade'
    BY <1>1, <1>2, <2>6, <2>7, <2>8
  <2> QED
    BY <1>1, <2>1, <2>2, <2>6, <2>9 DEF CountsOK
<1>12. ASSUME NEW t \in Timed!Tids, Timed!Report(t) PROVE CountsOK'
  <2>1. /\ timedPc[t] = "report" /\ Timed!Goto(t, "done")
        /\ performed' = performed + timedI[t] + 1
        /\ UNCHANGED <<timedI, localCount, global, printed>>
    BY <1>12 DEF Timed!Report, Timed!counter
  <2>2. /\ timedPc'[t] = "done" /\ timedPc'[Timed!main] # "done"
        /\ \A u \in Timed!Tids \ {t} : timedPc'[u] = timedPc[u]
    BY <1>9, <2>1
  <2>3. Timed!Made(t)' = Timed!Made(t) /\ Reported(t)' = timedI[t] + 1 /\ Reported(t) = 0
    BY <1>2, <2>1, <2>2, MadeOf, MadeLater
  <2>4. Timed!Made(t) \in Int /\ timedI[t] \in Int
    BY <1>2, MadeOf
  <2>5. /\ Timed!TotalMade' = (Timed!TotalMade - Timed!Made(t)) + Timed!Made(t)'
        /\ Timed!TotalMade \in Int
        /\ Timed!Sum([u \in Timed!Tids |-> Reported(u)])' =
             (Timed!Sum([u \in Timed!Tids |-> Reported(u)]) - Reported(t)) + Reported(t)'
        /\ Timed!Sum([u \in Timed!Tids |-> Reported(u)]) \in Int
    BY <2>1, <2>2, TotalsChange
  <2>6. Timed!TotalMade' = Timed!TotalMade
    BY <2>3, <2>4, <2>5
  <2>7. performed' = Timed!Sum([u \in Timed!Tids |-> Reported(u)])'
    BY <1>1, <1>2, <2>1, <2>3, <2>4, <2>5
  <2>8. Timed!Sum(localCount)' = Timed!Sum(localCount)
    BY <2>1, SumsLater
  <2>9. global' + Timed!Sum(localCount)' = Timed!TotalMade'
    BY <1>1, <2>1, <2>6, <2>8
  <2> QED
    BY <2>2, <2>7, <2>9 DEF CountsOK
<1>13. ASSUME NEW p \in TimedProcs, Timed!Step(p) PROVE CountsOK'
  <2>1. CASE p = Timed!main
    BY <1>2, <1>7, <1>8, <1>13, <2>1 DEF Timed!Step
  <2>2. CASE p \in Timed!Tids
    BY <1>2, <1>10, <1>11, <1>12, <1>13, <2>2 DEF Timed!Step
  <2> QED
    BY <2>1, <2>2 DEF TimedProcs
<1> QED
  BY <1>4, <1>5, <1>13 DEF Timed!Next, TimedProcs

(* No increment is lost in a local count, and nobody passes the barrier    *)
(* before main has started the timer: by induction on the steps of the     *)
(* timed run (counters_impl.h:85, workload_timed.cpp:85).                  *)
LEMMA TimedInvariant == Timed!Spec => []TimedInv
<1>1. TimedInv /\ [Timed!Next]_(Timed!vars) => TimedInv'
  BY TimedTypeStep, BarrierStep, CountsStep DEF TimedInv
<1> QED
  BY <1>1, TimedInit, PTL DEF Timed!Spec

LEMMA TimedImplies ==
  ASSUME TimedInv
  PROVE  Timed!TimerIsStarted /\ Timed!LagBounded /\ Timed!FinalReport
<1>1. TimedTypeOK /\ BarrierOK /\ CountsOK
  BY DEF TimedInv
<1>2. Timed!TimerIsStarted
  <2> SUFFICES ASSUME NEW t \in Timed!Tids, timedPc[t] = "look" PROVE timer # "new"
    BY DEF Timed!TimerIsStarted
  <2>1. t \in TimedProcs /\ Timed!main \in TimedProcs
    BY DEF TimedProcs
  <2>2. Timed!main \in Come
    BY <1>1, <2>1 DEF BarrierOK
  <2> QED
    BY <1>1, <2>2 DEF BarrierOK, Come
<1>3. /\ Timed!TotalMade - global \in 0 .. NumThreads * Timed!Batch
      /\ Timed!TotalMade \in Int /\ global \in Int
  <2>1. Timed!Sum(localCount) = SumFunctionOnSet(localCount, 0 .. NumThreads - 1)
    <3>1. DOMAIN localCount = 0 .. NumThreads - 1
      BY <1>1, TimedSets DEF TimedTypeOK
    <3> QED
      BY <3>1, TimedSum
  <2>2. \A u \in 0 .. NumThreads - 1 : localCount[u] \in 0 .. Timed!Batch
    BY <1>1, TimedSets DEF TimedTypeOK
  <2>3. Timed!Sum(localCount) \in 0 .. NumThreads * Timed!Batch
    BY <2>1, <2>2, TimedSets, SumAtMost
  <2> SUFFICES ASSUME NEW n, n = NumThreads * Timed!Batch
               PROVE  /\ Timed!TotalMade - global \in 0 .. n
                      /\ Timed!TotalMade \in Int /\ global \in Int
    OBVIOUS
  <2>4. n \in Int
    BY TimedSets
  <2>5. global \in Int /\ global + Timed!Sum(localCount) = Timed!TotalMade
    BY <1>1 DEF CountsOK, TimedTypeOK
  <2> QED
    BY <2>3, <2>4, <2>5
<1>4. Timed!LagBounded
  BY <1>3 DEF Timed!LagBounded
<1>5. Timed!FinalReport
  <2> SUFFICES ASSUME timedPc[Timed!main] = "done"
               PROVE  /\ performed = Timed!TotalMade
                      /\ performed - printed \in 0 .. NumThreads * Timed!Batch
    BY DEF Timed!FinalReport
  <2>1. printed = global /\ \A t \in Timed!Tids : timedPc[t] = "done"
    BY <1>1 DEF CountsOK
  <2>2. \A t \in Timed!Tids : Reported(t) = Timed!Made(t)
    BY <1>1, <2>1, MadeOf
  <2>3. [t \in Timed!Tids |-> Reported(t)] = [t \in Timed!Tids |-> Timed!Made(t)]
    BY <2>2
  <2>4. performed = Timed!TotalMade
    BY <1>1, <2>3 DEF CountsOK, Timed!TotalMade
  <2> QED
    BY <1>3, <2>1, <2>4
<1> QED
  BY <1>2, <1>4, <1>5

-----------------------------------------------------------------------------
(* The sharded counters.  The shards that a read has added.                *)
Passed(p) == 0 .. shardI[p] - 1

ShardTypeOK ==
  /\ locked \in BOOLEAN
  /\ count \in [Sharded!Tids -> Nat]
  /\ lock \in [Sharded!Tids -> Sharded!Procs \cup {Nobody}]
  /\ shardPc \in [Sharded!Procs -> {"idle", "inc", "read"}]
  /\ shardI \in [Sharded!Procs -> 0 .. NumThreads]
  /\ sum \in [Sharded!Procs -> Nat]
  /\ DOMAIN answer = Sharded!Procs
  /\ DOMAIN seen = Sharded!Procs

(* The mutexes held, and what a read with all its mutexes has added up.    *)
LocksHeld(p) ==
  /\ shardPc[p] = "inc" => p \in Sharded!Tids /\ lock[p] = p
  /\ locked /\ shardPc[p] = "read" /\ shardI[p] < NumThreads =>
       /\ \A t \in Passed(p) : lock[t] = p
       /\ sum[p] = SumFunctionOnSet(count, Passed(p))

(* A read was called when the shards held first, and has seen every total  *)
(* since then.  What it has added up lies between what the shards it has   *)
(* passed held at the call and what they hold now.                         *)
Between(p, first) ==
  /\ \A t \in Sharded!Tids : first[t] <= count[t]
  /\ seen[p] = SumFunctionOnSet(first, Sharded!Tids) .. Sharded!Total
  /\ SumFunctionOnSet(first, Passed(p)) <= sum[p]
  /\ sum[p] <= SumFunctionOnSet(count, Passed(p))

ReadOK(p) ==
  /\ shardPc[p] # "read" => shardI[p] = 0 /\ sum[p] = 0 /\ seen[p] = {}
  /\ shardPc[p] = "read" => \E first \in [Sharded!Tids -> Nat] : Between(p, first)

ShardInv ==
  ShardTypeOK /\ \A p \in Sharded!Procs : LocksHeld(p) /\ ReadOK(p)

LEMMA ShardSets ==
  /\ NumThreads \in Nat \ {0} /\ Nobody \notin Sharded!Procs
  /\ Sharded!Tids = 0 .. NumThreads - 1 /\ Sharded!Procs = 0 .. NumThreads
  /\ Sharded!Tids \subseteq Sharded!Procs /\ IsFiniteSet(Sharded!Tids)
<1>1. NumThreads \in Nat \ {0}
  BY CountingAssumption
<1>2. IsFiniteSet(0 .. NumThreads - 1)
  BY <1>1, FS_Interval
<1> QED
  BY <1>1, <1>2, CountingAssumption DEF Sharded!Tids, Sharded!Procs

LEMMA TotalIs == DOMAIN count = Sharded!Tids => Sharded!Total = SumFunctionOnSet(count, Sharded!Tids)
<1>1. Sharded!Total = SumFunctionOnSet(count, DOMAIN count)
  BY Zenon DEF Sharded!Total, Sharded!FoldFunction, Sharded!FoldFunctionOnSet,
     Sharded!MapThenFoldSet, SumFunctionOnSet, FoldFunctionOnSet, MapThenFoldSet
<1> QED
  BY <1>1

LEMMA TotalLater ==
  DOMAIN count' = Sharded!Tids => Sharded!Total' = SumFunctionOnSet(count', Sharded!Tids)
<1>1. Sharded!Total' = SumFunctionOnSet(count', DOMAIN count')
  BY Zenon DEF Sharded!Total, Sharded!FoldFunction, Sharded!FoldFunctionOnSet,
     Sharded!MapThenFoldSet, SumFunctionOnSet, FoldFunctionOnSet, MapThenFoldSet
<1> QED
  BY <1>1

LEMMA CountSumLater ==
  \A S : SumFunctionOnSet(count, S)' = SumFunctionOnSet(count', S)
BY Zenon DEF SumFunctionOnSet, FoldFunctionOnSet, MapThenFoldSet

(* The shards passed are finitely many. *)
LEMMA PassedShards ==
  ASSUME NEW n \in 0 .. NumThreads
  PROVE  /\ IsFiniteSet(0 .. n - 1) /\ 0 .. n - 1 \subseteq Sharded!Tids
         /\ n < NumThreads => /\ n \in Sharded!Tids /\ n \notin 0 .. n - 1
                              /\ 0 .. (n + 1) - 1 = (0 .. n - 1) \cup {n}
<1>1. n \in Nat /\ NumThreads \in Nat
  BY ShardSets
<1>2. IsFiniteSet(0 .. n - 1)
  BY <1>1, FS_Interval
<1> QED
  BY <1>1, <1>2, ShardSets

LEMMA ShardSums ==
  ASSUME NEW f \in [Sharded!Tids -> Nat], NEW n \in 0 .. NumThreads
  PROVE  /\ SumFunctionOnSet(f, 0 .. n - 1) \in Int
         /\ SumFunctionOnSet(f, Sharded!Tids) \in Int
         /\ n < NumThreads =>
              SumFunctionOnSet(f, 0 .. (n + 1) - 1) = f[n] + SumFunctionOnSet(f, 0 .. n - 1)
<1>1. \A t \in Sharded!Tids : f[t] \in Int
  OBVIOUS
<1>2. IsFiniteSet(0 .. n - 1) /\ 0 .. n - 1 \subseteq Sharded!Tids
  BY PassedShards
<1>3. SumFunctionOnSet(f, 0 .. n - 1) \in Int
  BY <1>1, <1>2, SumType
<1>4. SumFunctionOnSet(f, Sharded!Tids) \in Int
  BY <1>1, ShardSets, SumType
<1>5. ASSUME n < NumThreads
      PROVE  SumFunctionOnSet(f, 0 .. (n + 1) - 1) = f[n] + SumFunctionOnSet(f, 0 .. n - 1)
  <2>1. n \notin 0 .. n - 1 /\ 0 .. (n + 1) - 1 = (0 .. n - 1) \cup {n} /\ n \in Sharded!Tids
    BY <1>5, PassedShards
  <2>2. \A t \in (0 .. n - 1) \cup {n} : f[t] \in Int
    BY <1>1, <1>2, <2>1
  <2>3. SumFunctionOnSet(f, (0 .. n - 1) \cup {n}) = f[n] + SumFunctionOnSet(f, 0 .. n - 1)
    BY <1>2, <2>1, <2>2, SumAdd
  <2> QED
    BY <2>1, <2>3
<1> QED
  BY <1>3, <1>4, <1>5

LEMMA ShardInit == Sharded!Init => ShardInv /\ Sharded!Abstract!CounterInit
<1> SUFFICES ASSUME Sharded!Init PROVE ShardInv /\ Sharded!Abstract!CounterInit
  OBVIOUS
<1>1. /\ locked \in BOOLEAN /\ count = [t \in Sharded!Tids |-> 0]
      /\ lock = [t \in Sharded!Tids |-> Nobody]
      /\ shardPc = [p \in Sharded!Procs |-> "idle"]
      /\ shardI = [p \in Sharded!Procs |-> 0] /\ sum = [p \in Sharded!Procs |-> 0]
      /\ answer = [p \in Sharded!Procs |-> 0] /\ seen = [p \in Sharded!Procs |-> {}]
  BY DEF Sharded!Init
<1>2. ShardTypeOK
  BY <1>1, ShardSets DEF ShardTypeOK
<1>3. \A p \in Sharded!Procs : LocksHeld(p) /\ ReadOK(p)
  BY <1>1 DEF LocksHeld, ReadOK
<1>4. Sharded!Total = 0
  BY <1>1, ShardSets, TotalIs, SumZero
<1> QED
  BY <1>1, <1>2, <1>3, <1>4 DEF ShardInv, Sharded!Abstract!CounterInit

LEMMA ShardTypeStep == ShardTypeOK /\ [Sharded!Next]_(Sharded!vars) => ShardTypeOK'
<1> SUFFICES ASSUME ShardTypeOK, [Sharded!Next]_(Sharded!vars) PROVE ShardTypeOK'
  OBVIOUS
<1>1. NumThreads \in Nat /\ Sharded!Tids \subseteq Sharded!Procs
  BY ShardSets
<1> USE DEF ShardTypeOK
<1>2. CASE UNCHANGED Sharded!vars
  BY <1>2 DEF Sharded!vars
<1>3. ASSUME NEW t \in Sharded!Tids, Sharded!Increment(t),
             lock' \in [Sharded!Tids -> Sharded!Procs \cup {Nobody}],
             shardPc' \in [Sharded!Procs -> {"idle", "inc", "read"}]
      PROVE  ShardTypeOK'
  <2>1. /\ count' = [count EXCEPT ![t] = @ + 1] /\ DOMAIN seen' = Sharded!Procs
        /\ UNCHANGED <<locked, shardI, sum, answer>>
    BY <1>3 DEF Sharded!Increment
  <2>2. count' \in [Sharded!Tids -> Nat]
    BY <2>1
  <2> QED
    BY <1>3, <2>1, <2>2
<1>4. ASSUME NEW p \in Sharded!Procs, Sharded!Call(p) PROVE ShardTypeOK'
  <2>1. CASE Sharded!ReadCall(p)
    BY <2>1 DEF Sharded!ReadCall, Sharded!Goto
  <2>2. CASE p \in Sharded!Tids /\ Sharded!IncAtomic(p)
    BY <1>3, <2>2 DEF Sharded!IncAtomic
  <2>3. CASE p \in Sharded!Tids /\ Sharded!IncLock(p)
    BY <2>3 DEF Sharded!IncLock, Sharded!Acquire, Sharded!Goto
  <2> QED
    BY <1>4, <2>1, <2>2, <2>3 DEF Sharded!Call
<1>5. ASSUME NEW p \in Sharded!Procs, Sharded!Step(p) PROVE ShardTypeOK'
  <2>1. CASE Sharded!ReadShard(p)
    <3>1. /\ shardI[p] < NumThreads /\ shardI[p] \in Nat /\ sum[p] \in Nat
          /\ sum' = [sum EXCEPT ![p] = @ + count[shardI[p]]]
          /\ shardI' = [shardI EXCEPT ![p] = @ + 1]
          /\ UNCHANGED <<locked, count, shardPc, answer, seen>>
      BY <1>1, <2>1 DEF Sharded!ReadShard, Sharded!AddShard
    <3>2. count[shardI[p]] \in Nat
      <4>1. shardI[p] \in Sharded!Tids
        BY <1>1, <3>1, ShardSets
      <4>2. count \in [Sharded!Tids -> Nat]
        OBVIOUS
      <4> QED
        BY <4>1, <4>2
    <3>3. shardI' \in [Sharded!Procs -> 0 .. NumThreads] /\ sum' \in [Sharded!Procs -> Nat]
      BY <1>1, <3>1, <3>2
    <3>4. lock' \in [Sharded!Tids -> Sharded!Procs \cup {Nobody}]
      BY <2>1 DEF Sharded!ReadShard, Sharded!Acquire
    <3> QED
      BY <3>1, <3>3, <3>4
  <2>2. CASE Sharded!ReadUnlock(p)
    BY <2>2 DEF Sharded!ReadUnlock, Sharded!Release
  <2>3. CASE Sharded!ReadReturn(p)
    BY <1>1, <2>3 DEF Sharded!ReadReturn, Sharded!Goto
  <2>4. CASE p \in Sharded!Tids /\ Sharded!IncLocked(p)
    BY <1>3, <2>4 DEF Sharded!IncLocked, Sharded!Release, Sharded!Goto
  <2> QED
    BY <1>5, <2>1, <2>2, <2>3, <2>4 DEF Sharded!Step
<1> QED
  BY <1>2, <1>4, <1>5 DEF Sharded!Next

(* One increment raises the total by one. *)
LEMMA TotalStep ==
  ASSUME ShardTypeOK, NEW t \in Sharded!Tids, Sharded!Increment(t)
  PROVE  Sharded!Total' = Sharded!Total + 1 /\ Sharded!Total \in Int
<1>1. /\ count \in [Sharded!Tids -> Nat] /\ count' = [count EXCEPT ![t] = @ + 1]
  BY DEF ShardTypeOK, Sharded!Increment
<1>2. \A x \in Sharded!Tids : count[x] \in Int /\ count'[x] \in Int
  BY <1>1
<1>3. \A x \in Sharded!Tids \ {t} : count[x] = count'[x]
  BY <1>1
<1>4. SumFunctionOnSet(count', Sharded!Tids) =
        (SumFunctionOnSet(count, Sharded!Tids) - count[t]) + count'[t]
  BY <1>2, <1>3, ShardSets, SumChange
<1>5. SumFunctionOnSet(count, Sharded!Tids) \in Int
  BY <1>2, ShardSets, SumType
<1>6. count'[t] = count[t] + 1 /\ count[t] \in Int
  BY <1>1
<1>7. DOMAIN count = Sharded!Tids /\ DOMAIN count' = Sharded!Tids
  BY <1>1
<1> QED
  BY <1>4, <1>5, <1>6, <1>7, TotalIs, TotalLater

LEMMA TotalStays ==
  ASSUME ShardTypeOK, count' = count
  PROVE  Sharded!Total' = Sharded!Total
<1>1. DOMAIN count = Sharded!Tids /\ DOMAIN count' = Sharded!Tids
  BY DEF ShardTypeOK
<1> QED
  BY <1>1, TotalIs, TotalLater

(* A read that goes on while an increment is made. *)
LEMMA ReadAndIncrement ==
  ASSUME ShardTypeOK, ShardTypeOK', NEW t \in Sharded!Tids, Sharded!Increment(t),
         NEW q \in Sharded!Procs, ReadOK(q),
         shardPc'[q] = shardPc[q] \/ (shardPc[q] # "read" /\ shardPc'[q] # "read")
  PROVE  ReadOK(q)'
<1>1. /\ count \in [Sharded!Tids -> Nat] /\ count' = [count EXCEPT ![t] = @ + 1]
      /\ count' \in [Sharded!Tids -> Nat]
      /\ shardI' = shardI /\ sum' = sum
      /\ seen'[q] = IF seen[q] = {} THEN {} ELSE seen[q] \cup {Sharded!Total + 1}
      /\ shardI[q] \in 0 .. NumThreads /\ sum[q] \in Int
  BY DEF ShardTypeOK, Sharded!Increment
<1>2. CASE shardPc[q] # "read"
  BY <1>1, <1>2 DEF ReadOK
<1>3. CASE shardPc[q] = "read"
  <2>1. PICK first \in [Sharded!Tids -> Nat] : Between(q, first)
    BY <1>3 DEF ReadOK
  <2> SUFFICES ASSUME NEW a, a = SumFunctionOnSet(first, Sharded!Tids),
                      NEW n, n = Sharded!Total
               PROVE  ReadOK(q)'
    OBVIOUS
  <2>2. \A x \in Sharded!Tids : first[x] \in Int /\ count[x] \in Int /\ count'[x] \in Int
                                /\ first[x] <= count[x] /\ count[x] <= count'[x]
    BY <1>1, <2>1 DEF Between
  <2>3. a <= n /\ a \in Int /\ n \in Int
    <3>1. a <= SumFunctionOnSet(count, Sharded!Tids)
      BY <2>2, ShardSets, SumMonotone
    <3>2. DOMAIN count = Sharded!Tids
      BY <1>1
    <3>3. a \in Int
      BY <2>2, ShardSets, SumType
    <3> QED
      BY <3>1, <3>2, <3>3, TotalIs, TotalStep
  <2>4. seen[q] = a .. n
    BY <2>1 DEF Between
  <2>5. seen'[q] = a .. Sharded!Total'
    <3>1. seen[q] # {}
      BY <2>3, <2>4
    <3>2. (a .. n) \cup {n + 1} = a .. n + 1
      BY <2>3
    <3> QED
      BY <1>1, <2>4, <3>1, <3>2, TotalStep
  <2>6. \A x \in Sharded!Tids : first[x] <= count'[x]
    BY <2>2
  <2>7. SumFunctionOnSet(first, Passed(q)) <= sum[q] /\ sum[q] <= SumFunctionOnSet(count, Passed(q))
    BY <2>1 DEF Between
  <2>8. sum[q] <= SumFunctionOnSet(count', Passed(q))
    <3>1. IsFiniteSet(Passed(q)) /\ Passed(q) \subseteq Sharded!Tids
      BY <1>1, PassedShards DEF Passed
    <3>2. \A x \in Passed(q) : count[x] \in Int /\ count'[x] \in Int /\ count[x] <= count'[x]
      BY <2>2, <3>1
    <3>3. SumFunctionOnSet(count, Passed(q)) <= SumFunctionOnSet(count', Passed(q))
      BY <3>1, <3>2, SumMonotone
    <3>4. SumFunctionOnSet(count, Passed(q)) \in Int /\ SumFunctionOnSet(count', Passed(q)) \in Int
      BY <3>1, <3>2, SumType
    <3> QED
      BY <1>1, <2>7, <3>3, <3>4
  <2>9. Passed(q)' = Passed(q)
    BY <1>1 DEF Passed
  <2>10. SumFunctionOnSet(count, Passed(q))' = SumFunctionOnSet(count', Passed(q))
    BY <2>9, CountSumLater
  <2> QED
    BY <1>1, <1>3, <2>5, <2>6, <2>7, <2>8, <2>9, <2>10 DEF ReadOK, Between
<1> QED
  BY <1>2, <1>3

(* A read whose call, shards and sums a step leaves alone.                 *)
LEMMA ReadAndOther ==
  ASSUME ShardTypeOK, count' = count, NEW q \in Sharded!Procs, ReadOK(q),
         shardPc'[q] = shardPc[q] \/ (shardPc[q] # "read" /\ shardPc'[q] # "read"),
         shardI'[q] = shardI[q], sum'[q] = sum[q], seen'[q] = seen[q]
  PROVE  ReadOK(q)'
<1>1. CASE shardPc[q] # "read"
  BY <1>1 DEF ReadOK
<1>2. CASE shardPc[q] = "read"
  <2>1. PICK first \in [Sharded!Tids -> Nat] : Between(q, first)
    BY <1>2 DEF ReadOK
  <2>2. Passed(q)' = Passed(q) /\ Sharded!Total' = Sharded!Total
    BY TotalStays DEF Passed
  <2>3. SumFunctionOnSet(count, Passed(q))' = SumFunctionOnSet(count, Passed(q))
    BY <2>2, CountSumLater
  <2>4. Between(q, first)'
    BY <2>1, <2>2, <2>3 DEF Between
  <2> QED
    BY <1>2, <2>4 DEF ReadOK
<1> QED
  BY <1>1, <1>2

(* A read is called: it has passed no shard. *)
LEMMA ReadBegins ==
  ASSUME ShardTypeOK, NEW p \in Sharded!Procs, ReadOK(p), Sharded!ReadCall(p)
  PROVE  ReadOK(p)'
<1>1. /\ shardPc[p] = "idle" /\ shardPc'[p] = "read" /\ seen'[p] = {Sharded!Total}
      /\ UNCHANGED <<count, shardI, sum>>
      /\ count \in [Sharded!Tids -> Nat]
  BY DEF Sharded!ReadCall, Sharded!Goto, ShardTypeOK
<1>2. shardI[p] = 0 /\ sum[p] = 0
  BY <1>1 DEF ReadOK
<1>3. Passed(p)' = {}
  BY <1>1, <1>2 DEF Passed
<1>4. SumFunctionOnSet(count, {}) = 0 /\ Sharded!Total' = Sharded!Total
  BY <1>1, SumEmpty, TotalStays
<1>5. /\ Sharded!Total = SumFunctionOnSet(count, Sharded!Tids)
      /\ SumFunctionOnSet(count, Sharded!Tids) \in Int
  <2>1. DOMAIN count = Sharded!Tids /\ \A t \in Sharded!Tids : count[t] \in Int
    BY <1>1
  <2> QED
    BY <2>1, TotalIs, ShardSets, SumType
<1> SUFFICES ASSUME NEW first, first = count PROVE ReadOK(p)'
  OBVIOUS
<1>6. \A t \in Sharded!Tids : first[t] <= count'[t]
  BY <1>1
<1>7. seen'[p] = SumFunctionOnSet(first, Sharded!Tids) .. Sharded!Total'
  BY <1>1, <1>4, <1>5
<1>8. SumFunctionOnSet(first, Passed(p)') = 0
  BY <1>3, <1>4
<1>9. SumFunctionOnSet(count, Passed(p))' = 0
  BY <1>1, <1>3, <1>4, CountSumLater
<1>10. sum'[p] = 0
  BY <1>1, <1>2
<1>11. /\ SumFunctionOnSet(first, Passed(p)') <= sum'[p]
       /\ sum'[p] <= SumFunctionOnSet(count, Passed(p))'
  BY <1>8, <1>9, <1>10
<1>12. Between(p, first)'
  BY <1>6, <1>7, <1>11 DEF Between
<1>13. first \in [Sharded!Tids -> Nat]
  BY <1>1
<1> QED
  BY <1>1, <1>12, <1>13 DEF ReadOK

(* One shard is added. *)
LEMMA Adding ==
  ASSUME ShardTypeOK, NEW p \in Sharded!Procs, Sharded!AddShard(p), NEW n, n = shardI[p]
  PROVE  /\ n \in 0 .. NumThreads /\ n < NumThreads /\ n \in Nat /\ sum[p] \in Int
         /\ sum'[p] = sum[p] + count[n] /\ shardI'[p] = n + 1
         /\ shardPc[p] = "read" /\ UNCHANGED <<count, shardPc, seen>>
         /\ count \in [Sharded!Tids -> Nat]
<1>1. /\ shardPc[p] = "read" /\ shardI[p] < NumThreads
      /\ sum' = [sum EXCEPT ![p] = @ + count[shardI[p]]]
      /\ shardI' = [shardI EXCEPT ![p] = @ + 1]
      /\ UNCHANGED <<count, shardPc, seen>>
  BY DEF Sharded!AddShard
<1>2. /\ sum \in [Sharded!Procs -> Nat] /\ shardI \in [Sharded!Procs -> 0 .. NumThreads]
      /\ count \in [Sharded!Tids -> Nat]
  BY DEF ShardTypeOK
<1>3. n \in 0 .. NumThreads /\ n \in Nat /\ sum[p] \in Int
  BY <1>2, ShardSets
<1>4. sum'[p] = sum[p] + count[n] /\ shardI'[p] = n + 1
  BY <1>1, <1>2
<1> QED
  BY <1>1, <1>2, <1>3, <1>4

(* What it adds lies between what the shard held at the call and holds now. *)
LEMMA ReadGoesOn ==
  ASSUME ShardTypeOK, NEW p \in Sharded!Procs, ReadOK(p), Sharded!AddShard(p)
  PROVE  ReadOK(p)'
<1> SUFFICES ASSUME NEW n, n = shardI[p] PROVE ReadOK(p)'
  OBVIOUS
<1>1. /\ n \in 0 .. NumThreads /\ n < NumThreads /\ n \in Nat /\ sum[p] \in Int
      /\ sum'[p] = sum[p] + count[n] /\ shardI'[p] = n + 1
      /\ shardPc[p] = "read" /\ UNCHANGED <<count, shardPc, seen>>
      /\ count \in [Sharded!Tids -> Nat]
  BY Adding
<1>2. PICK first \in [Sharded!Tids -> Nat] : Between(p, first)
  BY <1>1 DEF ReadOK
<1>3. n \in Sharded!Tids
  BY <1>1, PassedShards
<1>4. first[n] <= count[n] /\ first[n] \in Int /\ count[n] \in Int
  BY <1>1, <1>2, <1>3 DEF Between
<1>5. Passed(p) = 0 .. n - 1 /\ Passed(p)' = 0 .. (n + 1) - 1
  BY <1>1 DEF Passed
<1>6. /\ SumFunctionOnSet(first, Passed(p)') = first[n] + SumFunctionOnSet(first, Passed(p))
      /\ SumFunctionOnSet(first, Passed(p)) \in Int
  BY <1>1, <1>5, ShardSums
<1>7. /\ SumFunctionOnSet(count, Passed(p)') = count[n] + SumFunctionOnSet(count, Passed(p))
      /\ SumFunctionOnSet(count, Passed(p)) \in Int
  BY <1>1, <1>5, ShardSums
<1>8. SumFunctionOnSet(first, Passed(p)) <= sum[p] /\ sum[p] <= SumFunctionOnSet(count, Passed(p))
  BY <1>2 DEF Between
<1>9. /\ SumFunctionOnSet(first, Passed(p)') <= sum'[p]
      /\ sum'[p] <= SumFunctionOnSet(count, Passed(p)')
  BY <1>1, <1>4, <1>6, <1>7, <1>8
<1>10. SumFunctionOnSet(count, Passed(p))' = SumFunctionOnSet(count, Passed(p)')
  BY <1>1, <1>5, CountSumLater
<1>11. Between(p, first)'
  BY <1>1, <1>2, <1>9, <1>10, TotalStays DEF Between
<1> QED
  BY <1>1, <1>11 DEF ReadOK

(* The sum that a locked read has while it takes the mutexes.              *)
LEMMA LockedReadGoesOn ==
  ASSUME ShardTypeOK, NEW p \in Sharded!Procs, LocksHeld(p), Sharded!ReadShard(p)
  PROVE  /\ LocksHeld(p)'
         /\ locked /\ shardI'[p] = NumThreads => sum'[p] = Sharded!Total
<1> SUFFICES ASSUME NEW n, n = shardI[p], locked
             PROVE  /\ LocksHeld(p)'
                    /\ shardI'[p] = NumThreads => sum'[p] = Sharded!Total
  BY DEF LocksHeld, Sharded!ReadShard, Sharded!AddShard, ShardTypeOK
<1>0. Sharded!AddShard(p) /\ lock' = [lock EXCEPT ![n] = p] /\ DOMAIN lock = Sharded!Tids
  BY DEF Sharded!ReadShard, Sharded!Acquire, ShardTypeOK
<1>1. /\ n \in 0 .. NumThreads /\ n < NumThreads /\ n \in Nat /\ sum[p] \in Int
      /\ sum'[p] = sum[p] + count[n] /\ shardI'[p] = n + 1
      /\ shardPc[p] = "read" /\ UNCHANGED <<count, shardPc, seen>>
      /\ count \in [Sharded!Tids -> Nat]
  BY <1>0, Adding
<1>2. n \in Sharded!Tids
  BY <1>1, PassedShards
<1>3. (\A t \in Passed(p) : lock[t] = p) /\ sum[p] = SumFunctionOnSet(count, Passed(p))
  BY <1>1 DEF LocksHeld
<1>4. /\ Passed(p) = 0 .. n - 1 /\ Passed(p)' = 0 .. (n + 1) - 1
      /\ Passed(p)' = Passed(p) \cup {n} /\ Passed(p) \subseteq Sharded!Tids
  BY <1>1, PassedShards DEF Passed
<1>5. \A t \in Passed(p)' : lock'[t] = p
  BY <1>0, <1>2, <1>3, <1>4
<1>6. /\ SumFunctionOnSet(count, Passed(p)') = count[n] + SumFunctionOnSet(count, Passed(p))
      /\ SumFunctionOnSet(count, Passed(p)) \in Int
  BY <1>1, <1>4, ShardSums
<1>7. count[n] \in Int
  BY <1>1, <1>2
<1>8. sum'[p] = SumFunctionOnSet(count, Passed(p)')
  BY <1>1, <1>3, <1>6, <1>7
<1>9. SumFunctionOnSet(count, Passed(p))' = SumFunctionOnSet(count, Passed(p)')
  BY <1>1, <1>4, CountSumLater
<1>10. LocksHeld(p)'
  BY <1>1, <1>5, <1>8, <1>9 DEF LocksHeld
<1>11. ASSUME shardI'[p] = NumThreads PROVE sum'[p] = Sharded!Total
  <2>1. Passed(p)' = Sharded!Tids
    BY <1>11, ShardSets DEF Passed
  <2>2. DOMAIN count = Sharded!Tids
    BY <1>1
  <2> QED
    BY <1>8, <2>1, <2>2, TotalIs
<1> QED
  BY <1>10, <1>11

(* Nobody else touches the shards whose mutexes a thread holds.            *)
LEMMA LocksLeft ==
  ASSUME ShardTypeOK, NEW q \in Sharded!Procs, LocksHeld(q),
         shardPc'[q] = shardPc[q], shardI'[q] = shardI[q], sum'[q] = sum[q], locked' = locked,
         \A t \in Sharded!Tids : lock[t] = q => lock'[t] = q,
         locked => \A t \in Sharded!Tids : lock[t] = q => count'[t] = count[t]
  PROVE  LocksHeld(q)'
<1>1. shardPc[q] = "inc" => q \in Sharded!Tids /\ lock'[q] = q
  BY DEF LocksHeld
<1>2. ASSUME locked, shardPc[q] = "read", shardI[q] < NumThreads
      PROVE  /\ \A t \in Passed(q)' : lock'[t] = q
             /\ sum'[q] = SumFunctionOnSet(count, Passed(q))'
  <2>1. (\A t \in Passed(q) : lock[t] = q) /\ sum[q] = SumFunctionOnSet(count, Passed(q))
    BY <1>2 DEF LocksHeld
  <2>2. /\ Passed(q)' = Passed(q) /\ IsFiniteSet(Passed(q))
        /\ Passed(q) \subseteq Sharded!Tids
    BY PassedShards DEF Passed, ShardTypeOK
  <2>3. \A t \in Passed(q) : lock'[t] = q /\ count[t] = count'[t]
    BY <1>2, <2>1, <2>2
  <2>4. SumFunctionOnSet(count, Passed(q)) = SumFunctionOnSet(count', Passed(q))
    BY <2>2, <2>3, SumAgree
  <2>5. SumFunctionOnSet(count, Passed(q))' = SumFunctionOnSet(count', Passed(q))
    BY <2>2, CountSumLater
  <2> QED
    BY <2>1, <2>2, <2>3, <2>4, <2>5
<1> QED
  BY <1>1, <1>2 DEF LocksHeld

(* What a step of one process leaves to the others: their place, their     *)
(* loop counter and what they have added up.                               *)
LEMMA OthersStay ==
  ASSUME ShardTypeOK, NEW p \in Sharded!Procs, NEW q \in Sharded!Procs \ {p},
         Sharded!Call(p) \/ Sharded!Step(p)
  PROVE  /\ shardPc'[q] = shardPc[q] /\ shardI'[q] = shardI[q] /\ sum'[q] = sum[q]
         /\ locked' = locked
<1> USE DEF ShardTypeOK
<1>1. CASE Sharded!ReadCall(p)
  BY <1>1 DEF Sharded!ReadCall, Sharded!Goto
<1>2. CASE Sharded!IncAtomic(p)
  BY <1>2 DEF Sharded!IncAtomic, Sharded!Increment
<1>3. CASE Sharded!IncLock(p)
  BY <1>3 DEF Sharded!IncLock, Sharded!Goto
<1>4. CASE Sharded!ReadShard(p)
  BY <1>4 DEF Sharded!ReadShard, Sharded!AddShard
<1>5. CASE Sharded!ReadUnlock(p)
  BY <1>5 DEF Sharded!ReadUnlock
<1>6. CASE Sharded!ReadReturn(p)
  BY <1>6 DEF Sharded!ReadReturn, Sharded!Goto
<1>7. CASE Sharded!IncLocked(p)
  BY <1>7 DEF Sharded!IncLocked, Sharded!Increment, Sharded!Goto
<1> QED
  BY <1>1, <1>2, <1>3, <1>4, <1>5, <1>6, <1>7 DEF Sharded!Call, Sharded!Step

(* A thread that increments holds the mutex of its shard, if there are     *)
(* mutexes, so a read that holds some has none of the shard that changes.  *)
LEMMA ShardStepInc ==
  ASSUME ShardInv, ShardTypeOK', NEW p \in Sharded!Procs, p \in Sharded!Tids,
         Sharded!IncAtomic(p) \/ Sharded!IncLocked(p)
  PROVE  \A q \in Sharded!Procs : LocksHeld(q)' /\ ReadOK(q)'
<1>1. /\ ShardTypeOK /\ Sharded!Increment(p)
      /\ \A q \in Sharded!Procs : LocksHeld(q) /\ ReadOK(q)
  BY DEF ShardInv, Sharded!IncAtomic, Sharded!IncLocked
<1>2. shardPc[p] # "read" /\ shardPc'[p] = "idle"
  BY <1>1 DEF Sharded!IncAtomic, Sharded!IncLocked, Sharded!Goto, ShardTypeOK
<1>3. \A q \in Sharded!Procs \ {p} :
        /\ shardPc'[q] = shardPc[q] /\ shardI'[q] = shardI[q] /\ sum'[q] = sum[q]
        /\ locked' = locked
  BY <1>1, OthersStay DEF Sharded!Call, Sharded!Step
<1>4. TAKE q \in Sharded!Procs
<1>5. ReadOK(q)'
  BY <1>1, <1>2, <1>3, ReadAndIncrement
<1>6. CASE q = p
  BY <1>2, <1>5, <1>6 DEF LocksHeld
<1>7. CASE q # p
  <2>1. \A t \in Sharded!Tids : lock[t] = q => lock'[t] = q
    <3>1. CASE Sharded!IncAtomic(p)
      BY <3>1 DEF Sharded!IncAtomic
    <3>2. CASE Sharded!IncLocked(p)
      <4>1. lock[p] = p /\ lock' = [lock EXCEPT ![p] = Nobody]
        BY <1>1, <3>2 DEF LocksHeld, Sharded!IncLocked, Sharded!Release
      <4> QED
        BY <1>1, <1>7, <4>1 DEF ShardTypeOK
    <3> QED
      BY <3>1, <3>2
  <2>2. locked => \A t \in Sharded!Tids : lock[t] = q => count'[t] = count[t]
    <3>1. locked => lock[p] = p
      BY <1>1 DEF LocksHeld, Sharded!IncAtomic, Sharded!IncLocked
    <3>2. \A t \in Sharded!Tids : t # p => count'[t] = count[t]
      BY <1>1 DEF Sharded!Increment, ShardTypeOK
    <3> QED
      BY <1>7, <3>1, <3>2
  <2> QED
    BY <1>1, <1>3, <1>5, <1>7, <2>1, <2>2, LocksLeft
<1> QED
  BY <1>6, <1>7

(* The next mutex that a read unlocks is one that it holds. *)
LEMMA FirstHeld ==
  ASSUME NEW p \in Sharded!Procs, Sharded!Held(p) # {}
  PROVE  (CHOOSE t \in Sharded!Held(p) : \A u \in Sharded!Held(p) : t <= u)
           \in Sharded!Held(p)
<1>1. Sharded!Held(p) \subseteq Nat
  BY ShardSets DEF Sharded!Held
<1>2. PICK n \in Sharded!Held(p) : \A u \in Sharded!Held(p) : n <= u
  <2> DEFINE H == Sharded!Held(p)
  <2>1. \E m \in H : \A k \in H : ~ (<<k, m>> \in OpToRel(<, Nat))
    BY <1>1, NatLessThanWellFounded, WFMin
  <2>2. PICK m \in H : \A k \in H : ~ (<<k, m>> \in OpToRel(<, Nat))
    BY <2>1
  <2> HIDE DEF H
  <2>3. H \subseteq Nat
    BY <1>1 DEF H
  <2>4. \A k \in H : ~ (k < m)
    BY <2>2, <2>3, Zenon DEF OpToRel
  <2>5. \A k \in H : m <= k
    BY <2>3, <2>4
  <2> QED
    BY <2>5 DEF H
<1> QED
  BY <1>2

(* The other steps leave the counts alone. *)
LEMMA ShardStepRead ==
  ASSUME ShardInv, NEW p \in Sharded!Procs,
         Sharded!ReadCall(p) \/ (p \in Sharded!Tids /\ Sharded!IncLock(p))
           \/ Sharded!ReadShard(p) \/ Sharded!ReadUnlock(p) \/ Sharded!ReadReturn(p)
  PROVE  \A q \in Sharded!Procs : LocksHeld(q)' /\ ReadOK(q)'
<1>1. /\ ShardTypeOK /\ count' = count
      /\ \A q \in Sharded!Procs : LocksHeld(q) /\ ReadOK(q)
  BY DEF ShardInv, Sharded!ReadCall, Sharded!IncLock, Sharded!ReadShard, Sharded!AddShard,
     Sharded!ReadUnlock, Sharded!ReadReturn
<1>2. \A q \in Sharded!Procs \ {p} :
        /\ shardPc'[q] = shardPc[q] /\ shardI'[q] = shardI[q] /\ sum'[q] = sum[q]
        /\ locked' = locked
  BY <1>1, OthersStay DEF Sharded!Call, Sharded!Step
<1>3. ASSUME NEW q \in Sharded!Procs \ {p} PROVE LocksHeld(q)' /\ ReadOK(q)'
  <2>1. seen'[q] = seen[q]
    BY <1>1 DEF Sharded!ReadCall, Sharded!IncLock, Sharded!ReadShard, Sharded!AddShard,
       Sharded!ReadUnlock, Sharded!ReadReturn, ShardTypeOK
  <2>2. ReadOK(q)'
    BY <1>1, <1>2, <2>1, ReadAndOther
  <2>3. \A t \in Sharded!Tids : lock[t] = q => lock'[t] = q
    <3>1. CASE Sharded!ReadCall(p) \/ Sharded!ReadReturn(p)
      BY <3>1 DEF Sharded!ReadCall, Sharded!ReadReturn
    <3>2. CASE Sharded!IncLock(p) \/ Sharded!ReadShard(p)
      <4>1. q # Nobody
        BY ShardSets
      <4>2. lock' = lock \/ \E t : lock[t] = Nobody /\ lock' = [lock EXCEPT ![t] = p]
        BY <3>2 DEF Sharded!IncLock, Sharded!ReadShard, Sharded!Acquire
      <4> QED
        BY <1>1, <4>1, <4>2 DEF ShardTypeOK
    <3>3. CASE Sharded!ReadUnlock(p)
      <4> DEFINE Lowest == CHOOSE t \in Sharded!Held(p) : \A u \in Sharded!Held(p) : t <= u
      <4>1. lock' = [lock EXCEPT ![Lowest] = Nobody]
        BY <3>3 DEF Sharded!ReadUnlock, Sharded!Release
      <4>2. Lowest \in Sharded!Held(p)
        BY <3>3, FirstHeld DEF Sharded!ReadUnlock
      <4>3. Lowest \in Sharded!Tids /\ lock[Lowest] = p
        BY <4>2 DEF Sharded!Held
      <4> HIDE DEF Lowest
      <4> QED
        BY <1>1, <4>1, <4>3 DEF ShardTypeOK
    <3> QED
      BY <3>1, <3>2, <3>3
  <2> QED
    BY <1>1, <1>2, <2>2, <2>3, LocksLeft
<1>4. LocksHeld(p)' /\ ReadOK(p)'
  <2>1. CASE Sharded!ReadCall(p)
    <3>1. ReadOK(p)'
      BY <1>1, <2>1, ReadBegins
    <3>2. LocksHeld(p)'
      <4>1. /\ shardPc[p] = "idle" /\ shardPc'[p] = "read" /\ UNCHANGED <<count, shardI, sum>>
        BY <1>1, <2>1 DEF Sharded!ReadCall, Sharded!Goto, ShardTypeOK
      <4>2. shardI'[p] = 0 /\ sum'[p] = 0
        BY <1>1, <4>1 DEF ReadOK
      <4>3. Passed(p)' = {}
        BY <4>2 DEF Passed
      <4>4. SumFunctionOnSet(count, Passed(p))' = 0
        BY <4>3, CountSumLater, SumEmpty
      <4> QED
        BY <4>1, <4>2, <4>3, <4>4 DEF LocksHeld
    <3> QED
      BY <3>1, <3>2
  <2>2. CASE p \in Sharded!Tids /\ Sharded!IncLock(p)
    <3>1. /\ shardPc[p] = "idle" /\ shardPc'[p] = "inc" /\ UNCHANGED <<seen, shardI, sum>>
          /\ lock'[p] = p
      BY <1>1, <2>2 DEF Sharded!IncLock, Sharded!Acquire, Sharded!Goto, ShardTypeOK
    <3>2. LocksHeld(p)'
      BY <2>2, <3>1 DEF LocksHeld
    <3>3. ReadOK(p)'
      BY <1>1, <3>1 DEF ReadOK
    <3> QED
      BY <3>2, <3>3
  <2>3. CASE Sharded!ReadShard(p)
    <3>1. ReadOK(p)'
      BY <1>1, <2>3, ReadGoesOn DEF Sharded!ReadShard
    <3> QED
      BY <1>1, <2>3, <3>1, LockedReadGoesOn
  <2>4. CASE Sharded!ReadUnlock(p)
    <3>1. /\ shardI[p] = NumThreads /\ shardPc[p] = "read"
          /\ UNCHANGED <<locked, count, shardPc, shardI, sum, seen>>
      BY <2>4 DEF Sharded!ReadUnlock
    <3>2. LocksHeld(p)'
      BY <3>1, ShardSets DEF LocksHeld
    <3> QED
      BY <1>1, <3>1, <3>2, ReadAndOther
  <2>5. CASE Sharded!ReadReturn(p)
    <3>1. shardPc'[p] = "idle" /\ shardI'[p] = 0 /\ sum'[p] = 0 /\ seen'[p] = {}
      BY <1>1, <2>5 DEF Sharded!ReadReturn, Sharded!Goto, ShardTypeOK
    <3> QED
      BY <3>1 DEF LocksHeld, ReadOK
  <2> QED
    BY <2>1, <2>2, <2>3, <2>4, <2>5
<1> QED
  BY <1>3, <1>4

LEMMA ShardStep == ShardInv /\ [Sharded!Next]_(Sharded!vars) => ShardInv'
<1> SUFFICES ASSUME ShardInv, [Sharded!Next]_(Sharded!vars) PROVE ShardInv'
  OBVIOUS
<1>1. ShardTypeOK'
  BY ShardTypeStep DEF ShardInv
<1>2. CASE UNCHANGED Sharded!vars
  <2>1. /\ UNCHANGED <<locked, count, lock, shardPc, shardI, sum, seen>>
        /\ ShardTypeOK /\ \A q \in Sharded!Procs : LocksHeld(q) /\ ReadOK(q)
    BY <1>2 DEF Sharded!vars, ShardInv
  <2>2. \A q \in Sharded!Procs : LocksHeld(q)' /\ ReadOK(q)'
    BY <2>1, LocksLeft, ReadAndOther
  <2> QED
    BY <1>1, <2>2 DEF ShardInv
<1>3. ASSUME NEW p \in Sharded!Procs, Sharded!Call(p) \/ Sharded!Step(p)
      PROVE  \A q \in Sharded!Procs : LocksHeld(q)' /\ ReadOK(q)'
  BY <1>1, <1>3, ShardStepInc, ShardStepRead DEF Sharded!Call, Sharded!Step
<1> QED
  BY <1>1, <1>2, <1>3 DEF ShardInv, Sharded!Next

(* The last mutex that a locked read takes tells it the total.             *)
LEMMA LockedSumStep ==
  ASSUME ShardInv, [Sharded!Next]_(Sharded!vars), NEW q \in Sharded!Procs,
         locked, shardI[q] < NumThreads, shardI'[q] = NumThreads
  PROVE  sum'[q] = Sharded!Total
<1>1. ShardTypeOK /\ \A p \in Sharded!Procs : LocksHeld(p) /\ ReadOK(p)
  BY DEF ShardInv
<1>2. shardI'[q] # shardI[q] /\ NumThreads # 0 /\ DOMAIN shardI = Sharded!Procs
  BY <1>1, ShardSets DEF ShardTypeOK
<1>3. ~ UNCHANGED Sharded!vars
  BY <1>2 DEF Sharded!vars
<1>4. PICK p \in Sharded!Procs : Sharded!Call(p) \/ Sharded!Step(p)
  BY <1>3 DEF Sharded!Next
<1>5. p = q
  BY <1>1, <1>2, <1>4, OthersStay
<1>6. shardI' # shardI
  BY <1>2
<1>7. Sharded!ReadShard(q)
  <2>1. CASE Sharded!ReadReturn(q)
    <3>1. shardI'[q] = 0
      BY <1>2, <2>1 DEF Sharded!ReadReturn
    <3> QED
      BY <1>2, <3>1
  <2> QED
    BY <1>4, <1>5, <1>6, <2>1 DEF Sharded!Call, Sharded!Step, Sharded!ReadCall,
       Sharded!IncAtomic, Sharded!IncLock, Sharded!ReadUnlock, Sharded!IncLocked,
       Sharded!Increment
<1> QED
  BY <1>1, <1>7, LockedReadGoesOn

(* A read that has passed every shard returns a total it has seen.         *)
LEMMA AnswerSeen ==
  ASSUME ShardTypeOK, NEW p \in Sharded!Procs, ReadOK(p), shardPc[p] = "read",
         shardI[p] = NumThreads
  PROVE  sum[p] \in seen[p]
<1>1. PICK first \in [Sharded!Tids -> Nat] : Between(p, first)
  BY DEF ReadOK
<1>2. Passed(p) = Sharded!Tids
  BY ShardSets DEF Passed
<1>3. DOMAIN count = Sharded!Tids /\ sum[p] \in Int /\ count \in [Sharded!Tids -> Nat]
  BY DEF ShardTypeOK
<1> SUFFICES ASSUME NEW a, a = SumFunctionOnSet(first, Sharded!Tids),
                    NEW n, n = Sharded!Total
             PROVE  sum[p] \in seen[p]
  OBVIOUS
<1>4. n = SumFunctionOnSet(count, Sharded!Tids)
  BY <1>3, TotalIs
<1>5. seen[p] = a .. n /\ a <= sum[p] /\ sum[p] <= n
  BY <1>1, <1>2, <1>4 DEF Between
<1>6. a \in Int /\ n \in Int
  <2>1. \A t \in Sharded!Tids : first[t] \in Int /\ count[t] \in Int
    BY <1>3
  <2> QED
    BY <1>4, <2>1, ShardSets, SumType
<1> QED
  BY <1>3, <1>5, <1>6

(* An increment is Inc of the linearizable counter, the call and the       *)
(* return of read are its own, and the other steps change nothing of it.   *)
LEMMA AbstractStep ==
  ShardInv /\ [Sharded!Next]_(Sharded!vars)
    => [Sharded!Abstract!CounterNext]_(Sharded!Abstract!counterVars)
<1> SUFFICES ASSUME ShardInv, [Sharded!Next]_(Sharded!vars)
             PROVE  [Sharded!Abstract!CounterNext]_(Sharded!Abstract!counterVars)
  OBVIOUS
<1>1. ShardTypeOK /\ \A p \in Sharded!Procs : LocksHeld(p) /\ ReadOK(p)
  BY DEF ShardInv
<1>2. ASSUME UNCHANGED <<count, seen, answer>>
      PROVE  UNCHANGED Sharded!Abstract!counterVars
  BY <1>1, <1>2, TotalStays DEF Sharded!Abstract!counterVars
<1>3. CASE UNCHANGED Sharded!vars
  BY <1>2, <1>3 DEF Sharded!vars
<1>4. ASSUME NEW p \in Sharded!Procs, Sharded!Call(p) \/ Sharded!Step(p)
      PROVE  [Sharded!Abstract!CounterNext]_(Sharded!Abstract!counterVars)
  <2>1. CASE Sharded!ReadCall(p)
    <3>1. /\ shardPc[p] = "idle" /\ seen' = [seen EXCEPT ![p] = {Sharded!Total}]
          /\ UNCHANGED <<count, answer>>
      BY <2>1 DEF Sharded!ReadCall
    <3>2. seen[p] = {}
      BY <1>1, <3>1 DEF ReadOK
    <3>3. Sharded!Total' = Sharded!Total
      BY <1>1, <3>1, TotalStays
    <3>4. Sharded!Abstract!ReadCall(p)
      BY <3>1, <3>2, <3>3 DEF Sharded!Abstract!ReadCall
    <3> QED
      BY <3>4 DEF Sharded!Abstract!CounterNext
  <2>2. CASE p \in Sharded!Tids /\ (Sharded!IncAtomic(p) \/ Sharded!IncLocked(p))
    <3>1. Sharded!Increment(p)
      BY <2>2 DEF Sharded!IncAtomic, Sharded!IncLocked
    <3>2. Sharded!Total' = Sharded!Total + 1
      BY <1>1, <2>2, <3>1, TotalStep
    <3>3. /\ UNCHANGED answer
          /\ seen' = [q \in Sharded!Procs |->
                        IF seen[q] = {} THEN {} ELSE seen[q] \cup {Sharded!Total + 1}]
      BY <3>1 DEF Sharded!Increment
    <3>4. Sharded!Abstract!Inc
      BY <3>2, <3>3 DEF Sharded!Abstract!Inc
    <3> QED
      BY <3>4 DEF Sharded!Abstract!CounterNext
  <2>3. CASE Sharded!ReadReturn(p)
    <3>1. /\ shardPc[p] = "read" /\ shardI[p] = NumThreads
          /\ answer' = [answer EXCEPT ![p] = sum[p]]
          /\ seen' = [seen EXCEPT ![p] = {}] /\ UNCHANGED count
      BY <2>3 DEF Sharded!ReadReturn
    <3>2. sum[p] \in seen[p]
      BY <1>1, <3>1, AnswerSeen
    <3>3. Sharded!Total' = Sharded!Total
      BY <1>1, <3>1, TotalStays
    <3>4. Sharded!Abstract!ReadReturn(p)
      BY <3>1, <3>2, <3>3 DEF Sharded!Abstract!ReadReturn
    <3> QED
      BY <3>4 DEF Sharded!Abstract!CounterNext
  <2>4. CASE \/ p \in Sharded!Tids /\ Sharded!IncLock(p)
             \/ Sharded!ReadShard(p) \/ Sharded!ReadUnlock(p)
    <3>1. UNCHANGED <<count, seen, answer>>
      BY <2>4 DEF Sharded!IncLock, Sharded!ReadShard, Sharded!AddShard, Sharded!ReadUnlock
    <3> QED
      BY <1>2, <3>1
  <2> QED
    BY <1>4, <2>1, <2>2, <2>3, <2>4 DEF Sharded!Call, Sharded!Step
<1> QED
  BY <1>3, <1>4 DEF Sharded!Next

(* So every run of the sharded counters keeps the invariant, is a run of   *)
(* the linearizable counter, and gives a locked read the exact total.      *)
LEMMA ShardInvariant == Sharded!Spec => []ShardInv
<1>1. Sharded!Init => ShardInv
  BY ShardInit
<1> QED
  BY <1>1, ShardStep, PTL DEF Sharded!Spec

LEMMA ShardedRefines == Sharded!Spec => Sharded!ImplementsCounter
<1>1. Sharded!Init => Sharded!Abstract!CounterInit
  BY ShardInit
<1>2. Sharded!Spec => Sharded!Init /\ [][Sharded!Next]_(Sharded!vars)
  BY PTL DEF Sharded!Spec
<1> QED
  BY <1>1, <1>2, ShardInvariant, AbstractStep, PTL
     DEF Sharded!ImplementsCounter, Sharded!Abstract!CounterSpec

LEMMA ShardedSumIsTotal == Sharded!Spec => Sharded!LockedSumIsTotal
<1> DEFINE LastShard == [\A p \in Sharded!Procs :
                           locked /\ shardI[p] < NumThreads /\ shardI'[p] = NumThreads
                             => sum'[p] = Sharded!Total]_(Sharded!vars)
<1>1. ShardInv /\ [Sharded!Next]_(Sharded!vars) => LastShard
  BY LockedSumStep
<1>2. Sharded!Spec => [][Sharded!Next]_(Sharded!vars)
  BY PTL DEF Sharded!Spec
<1> QED
  BY <1>1, <1>2, ShardInvariant, PTL DEF Sharded!LockedSumIsTotal

-----------------------------------------------------------------------------
(* A run is a run of the program that runs; the others do not begin.       *)
LEMMA RunOfEach == MCSpec => Spec /\ Fenced!Spec /\ Sharded!Spec /\ Timed!Spec
<1>1. MCInit => Init /\ Fenced!Init /\ Sharded!Init /\ Timed!Init
  BY DEF MCInit
<1>2. [MCNext]_mcVars => /\ [Next]_vars /\ [Fenced!Next]_(Fenced!vars)
                         /\ [Sharded!Next]_(Sharded!vars) /\ [Timed!Next]_(Timed!vars)
  <2> SUFFICES ASSUME [MCNext]_mcVars
               PROVE  /\ [Next]_vars /\ [Fenced!Next]_(Fenced!vars)
                      /\ [Sharded!Next]_(Sharded!vars) /\ [Timed!Next]_(Timed!vars)
    OBVIOUS
  <2>1. /\ UNCHANGED fencedVars => UNCHANGED Fenced!vars
        /\ UNCHANGED shardVars => UNCHANGED Sharded!vars
        /\ UNCHANGED timedVars => UNCHANGED Timed!vars
    BY DEF fencedVars, shardVars, timedVars, Fenced!vars, Sharded!vars, Timed!vars,
           Timed!counter
  <2>2. CASE UNCHANGED mcVars
    BY <2>1, <2>2 DEF mcVars
  <2>3. CASE MCNext
    BY <2>1, <2>3 DEF MCNext, Run
  <2> QED
    BY <2>2, <2>3
<1>3. MCSpec => MCInit /\ [][MCNext]_mcVars
  BY PTL DEF MCSpec
<1> QED
  BY <1>1, <1>2, <1>3, PTL DEF Spec, Fenced!Spec, Sharded!Spec, Timed!Spec

(* Main and the threads meet at the barrier before anybody asks the timer, *)
(* and what read of the approximate counter returns is never more than the *)
(* increments made and at most c * numThreads of each thread behind them;  *)
(* so is the counter that main prints, and incrementsPerformed is exact by *)
(* then (counters_impl.h:85, workload_timed.cpp:85).                       *)
THEOREM ReportsBounded == MCSpec => []ReportsLagBounded
<1>1. TimedInv => ReportsLagBounded
  BY TimedImplies DEF ReportsLagBounded
<1> QED
  BY <1>1, RunOfEach, TimedInvariant, PTL

(* With the fences of q3_3.cpp the two threads are never both inside, and  *)
(* whoever is about to read v finds in memory every increment made, in     *)
(* whatever order the store buffers drain (q3_3.cpp:27).                   *)
THEOREM FencesDoTheirWork == MCSpec => []FencesSuffice
<1>1. Fenced!FencesSuffice => FencesSuffice
  BY DEF FencesSuffice
<1> QED
  BY <1>1, RunOfEach, FencesHold, PTL

(* Both sharded counters are linearizable although read adds the shards up *)
(* one by one while they grow: it returns a total that the counter had     *)
(* between the call and the return.  With the mutexes, what a read has     *)
(* added when it locks the last shard is the total of that moment          *)
(* (counters_impl.h:122 and 159).                                          *)
THEOREM ShardsCount == MCSpec => ImplementsCounter
  BY RunOfEach, ShardedRefines, ShardedSumIsTotal, PTL DEF ImplementsCounter
=============================================================================
