------------------------------ MODULE MC_KCAS -------------------------------
(***************************************************************************)
(* Two words, one of two sets of entry lists.                              *)
(***************************************************************************)
EXTENDS KCAS

(* Threads 1 and 2 count both words up, and add their entries in opposite  *)
(* orders.  Thread 3 sets word 2 back to 0, so that a value returns while  *)
(* others are delayed, or names its word twice.                            *)
Up(a) == {Entry(a, n, n + 1) : n \in 0 .. 1}
MCUp == [t \in Threads |->
          IF t = 1 THEN {<<e, f>> : e \in Up(1), f \in Up(2)} \cup {<<e>> : e \in Up(2)}
          ELSE IF t = 2 THEN {<<f, e>> : e \in Up(1), f \in Up(2)}
          ELSE {<<Entry(2, 1, 0)>>, <<Entry(2, 0, 2), Entry(2, 1, 1)>>}]
MCUpReads == [t \in Threads |-> IF t = 1 THEN Words ELSE {}]

(* A thread that makes two operations uses its descriptors twice. *)
MCUpBudgets == {<<2, 1, 0>>, <<1, 2, 0>>, <<1, 1, 1>>}

(* Word 2 goes back from 1 to 0 and thread 2 uses its descriptor again. *)
MCBack == [t \in Threads |->
            IF t = 1 THEN {<<Entry(2, 1, 0)>>}
            ELSE {<<Entry(2, 0, 1)>>, <<Entry(1, 0, 1), Entry(2, 0, 1)>>,
                  <<Entry(1, 0, 1)>>}]
MCBackReads == [t \in Threads |-> IF t = 1 THEN Words ELSE {}]
MCBackBudgets == {<<3, 3>>}
=============================================================================
