--------------------------- MODULE MC_HashTableC ---------------------------
(* Small instances of HashTableC. *)
EXTENDS HashTableC, TLC

CONSTANTS t1, t2, t3

MCThreads3 == {t1, t2, t3}
Symmetry == Permutations(Threads)

(* With Word = 3 and two buckets key 1 probes words 0 and 1: buckets 0 and *)
(* 1.  Key 2 probes words 2 and 0, where the sum has wrapped around: bucket *)
(* 0 twice, and bucket 1 is never reached.                                 *)
MCHashWrap == [k \in Keys |-> IF k = 1 THEN 0 ELSE 2]
=============================================================================
