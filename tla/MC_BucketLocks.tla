--------------------------- MODULE MC_BucketLocks ---------------------------
(***************************************************************************)
(* Small instances of algorithms A and B.                                  *)
(***************************************************************************)
EXTENDS LockedTables

(* All keys collide. *)
MCHash == [k \in Keys |-> 0]
=============================================================================
