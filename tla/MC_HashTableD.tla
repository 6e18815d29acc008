--------------------------- MODULE MC_HashTableD ----------------------------
(***************************************************************************)
(* Two threads on a table that starts with one or two buckets, so that it  *)
(* expands within a few operations, and while another thread is anywhere.  *)
(***************************************************************************)
EXTENDS HashTableD

MCHash == [k \in Keys |-> k]
MCHashCollide == [k \in Keys |-> 0]

(* Operations of thread 0 and of thread 1. *)
MCOps22 == [t \in Threads |-> 2]
MCOps31 == [t \in Threads |-> IF t = 0 THEN 3 ELSE 1]
=============================================================================
