----------------------------- MODULE MC_Elided ------------------------------
(***************************************************************************)
(* Small instances of the two structures of assignment-7: the tree, which  *)
(* starts empty or full, or the hash table.  The threads, and what they    *)
(* do, are the same variables of both.                                     *)
(***************************************************************************)
EXTENDS ElidedTree, FiniteSets

CONSTANTS TreeBudgets, TableBudgets,   \* the operations each thread may make
          InitCap, Flush, ProbeLimit, Word, Hash, Nobody

VARIABLES data, old, approxInserts, approxDeletes, holder, at, outcome,
          structure                    \* "tree" or "table"

(* Keys are int, and EMPTY and TOMBSTONE are no keys; murmur3 and h + i are *)
(* uint32_t.                                                                *)
ASSUME TableAssumption ==
  /\ IsFiniteSet(Threads) /\ Nobody \notin Threads /\ InitCap \in Nat
  /\ Word \in Nat /\ Keys \subseteq 1 .. Word - 1 /\ Hash \in [Keys -> 0 .. Word - 1]

Table == INSTANCE ElidedTable

MCHash == [k \in Keys |-> k % 2]

tableOnly == <<data, old, approxInserts, approxDeletes, holder, at, outcome>>
treeOnly == <<heap, used, held, pc, loc, reads, retriesLeft>>
mcVars == <<vars, tableOnly, structure>>

MCTreeBudgets == {<<2, 1>>}
MCTableBudgets == {<<3, 2>>, <<5, 0>>}

(* Only the table, and one thread that uses it. *)
MCNoBudgets == {}
MCAloneBudgets == {<<5, 0>>}

(* The next larger key of S, or the sentinel's, and the next smaller one. *)
After(S, k) == IF \A j \in S : j <= k THEN maxKey + 1
               ELSE CHOOSE j \in S : j > k /\ \A i \in S : i > k => i >= j
Before(S, k) == CHOOSE j \in S : j < k /\ \A i \in S : i < k => i <= j

(* The tree after the keys of S were inserted: leaf k at address k, under  *)
(* an internal node at 10 + k.                                             *)
Filled(S) ==
  [n \in Nodes |->
    IF n = root THEN createInternal(minKey - 1, low,
      IF S = {} THEN high ELSE 10 + (CHOOSE k \in S : \A j \in S : j <= k))
    ELSE IF n \in S THEN createLeaf(n)
    ELSE IF n - 10 \in S THEN
      LET k == n - 10
      IN createInternal(After(S, k), IF \A j \in S : j >= k THEN k ELSE 10 + Before(S, k),
                        IF After(S, k) \in S THEN After(S, k) ELSE high)
    ELSE createLeaf(IF n = low THEN minKey - 1 ELSE maxKey + 1)]

AllDone == /\ \A t \in Threads : pc[t] = "idle" /\ left[t] = 0
           /\ UNCHANGED vars

MCInit ==
  \E S \in {{}, Keys} :
    /\ heap = Filled(S)
    /\ used = {root, low, high} \cup S \cup {k + 10 : k \in S}
    /\ \/ structure = "tree" /\ left \in TreeBudgets
       \/ structure = "table" /\ S = {} /\ left \in TableBudgets
    /\ Quiet /\ Table!Init

MCNext ==
  \/ structure = "tree" /\ (Next \/ AllDone) /\ UNCHANGED <<tableOnly, structure>>
  \/ structure = "table" /\ Table!Next /\ UNCHANGED <<treeOnly, structure>>

MCSpec == MCInit /\ [][MCNext]_mcVars
          /\ \A t \in Threads : WF_mcVars(structure = "tree" /\ Step(t) /\ UNCHANGED <<tableOnly, structure>>)

Contents == IF structure = "tree" THEN Elements ELSE Table!Elements

Abstract == INSTANCE LinSet
  WITH members <- Contents,
       call <- [t \in Threads |-> [op |-> op[t], key |-> key[t]]]

(* The tree and the table are linearizable sets: the tree although a thread *)
(* under the lock runs next to transactions, the table through every        *)
(* expansion.                                                               *)
ImplementsSet == Abstract!FilledSpec

(* An expansion of the hash table finds room for every key that it moves,   *)
(* and for the insert that asked for it unless the counters say that the    *)
(* table is empty (hashtable.h:82).                                         *)
TableFits == Table!TableFits

(* An insert into the hash table never comes to its assert(false)           *)
(* (hashtable.h:128).                                                       *)
InsertsFindRoom == structure = "table" => Table!InsertsFindRoom
=============================================================================
