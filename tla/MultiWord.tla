------------------------------ MODULE MultiWord ------------------------------
(***************************************************************************)
(* What a multi-word compare-and-swap does to a memory, an array of words. *)
(* Its entries say of some words what they must hold and what they get.    *)
(* Several entries may name the same word: execute of kcas.h sorts by      *)
(* address without swapping equals, the first entry locks the word, and    *)
(* the others find it locked already, so only the first one counts.        *)
(***************************************************************************)
EXTENDS Integers, Sequences

Entry(a, old, new) == [addr |-> a, old |-> old, new |-> new]

WordsOf(es) == {es[n].addr : n \in DOMAIN es}

(* The entry of es that counts for word a. *)
Counting(es, a) ==
  es[CHOOSE n \in DOMAIN es :
       es[n].addr = a /\ \A m \in DOMAIN es : es[m].addr = a => n <= m]

(* Every word of the entries holds what it must. *)
Holds(mem, es) == \A a \in WordsOf(es) : mem[a] = Counting(es, a).old

(* The memory after the compare-and-swap succeeded. *)
Swapped(mem, es) ==
  [a \in DOMAIN mem |-> IF a \in WordsOf(es) THEN Counting(es, a).new ELSE mem[a]]
=============================================================================
