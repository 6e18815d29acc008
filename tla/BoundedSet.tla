----------------------------- MODULE BoundedSet -----------------------------
(***************************************************************************)
(* What the fixed-capacity hash tables A, B and C of assignment-4 promise: *)
(* the linearizable set of LinSet, except that a bucket is never reused,   *)
(* so an insert may be refused although its key is absent.  That may only  *)
(* happen once room[k] inserts have succeeded, where room[k] is the number *)
(* of buckets the probe sequence of k reaches.                             *)
(***************************************************************************)
EXTENDS LinSet

CONSTANT room          \* buckets that the probe sequence of each key reaches

VARIABLE spent         \* the number of inserts that have succeeded so far

boundedVars == <<setVars, spent>>

BoundedInit == SetInit /\ spent = 0

(* An insertIfAbsent that finds no bucket left for its key. *)
Refuse(t) ==
  /\ call[t].op = "insert" /\ spent >= room[call[t].key]
  /\ Return(t, FALSE, members)

BoundedStep(t) ==
  \/ Insert(t) /\ spent' = spent + 1
  \/ /\ \/ \E o \in {"insert", "erase"}, k \in Keys : Call(t, o, k)
        \/ Erase(t) \/ InsertFails(t) \/ EraseFails(t) \/ Refuse(t)
     /\ UNCHANGED spent

BoundedNext == \E t \in Threads : BoundedStep(t)

BoundedSpec == BoundedInit /\ [][BoundedNext]_boundedVars
=============================================================================
