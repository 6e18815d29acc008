---------------------------- MODULE LockedTables ----------------------------
(***************************************************************************)
(* Algorithms A and B of assignment-4 side by side.  They have their state *)
(* in common, so a behaviour is one of either, and what is said of both is *)
(* said once.                                                              *)
(***************************************************************************)
EXTENDS HashTableA

VARIABLE algorithm       \* "A" or "B", and never changes

eitherVars == <<lockVars, algorithm>>

AlgB == INSTANCE HashTableB

EitherInit == Init /\ algorithm \in {"A", "B"}

Run(A, B) ==
  /\ \/ algorithm = "A" /\ A
     \/ algorithm = "B" /\ B
  /\ UNCHANGED algorithm

EitherNext == Run(Next, AlgB!Next)

EitherSpec == EitherInit /\ [][EitherNext]_eitherVars

(* Threads are scheduled while they run an operation. *)
FairEitherSpec ==
  EitherSpec /\ \A t \in Threads : WF_eitherVars(Run(Step(t), AlgB!Step(t)))

-----------------------------------------------------------------------------
(* A thread locks one bucket at a time, or all in order in getSumOfKeys    *)
(* (alg_a.h:59, alg_b.h:60).                                               *)
LocksInOrder == IF algorithm = "A" THEN LocksOrdered ELSE AlgB!LocksOrdered

(* What erase of algorithm B finds under the lock is the key or a          *)
(* tombstone: the fall through at alg_b.h:102 is dead code.                *)
EraseSeesKeyOrTombstone == algorithm = "B" => AlgB!EraseSeesKeyOrTombstone
=============================================================================
