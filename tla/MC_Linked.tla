----------------------------- MODULE MC_Linked ------------------------------
(***************************************************************************)
(* Small instances of the two structures over multi-word compare-and-swap: *)
(* one behaviour is a run of the list or of the tree, which starts with    *)
(* some keys in it.                                                        *)
(***************************************************************************)
EXTENDS LinkedList, FiniteSetsExt, TLC

CONSTANTS ListBudgets, TreeBudgets,      \* the operations each thread may make
          Fills,                         \* the keys it finds
          TreeNodes, NULL, root, low, high

VARIABLES treeHeap, treeUsed, treePc, treeOp, treeKey, treeLoc, treeLeft,
          treeResult, treeSeen, checksum,
          structure                      \* "list" or "tree"

Tree == INSTANCE ExternalTree
  WITH heap <- treeHeap, used <- treeUsed, pc <- treePc, op <- treeOp,
       key <- treeKey, loc <- treeLoc, left <- treeLeft, result <- treeResult,
       seen <- treeSeen, Nodes <- TreeNodes

treeVars == <<treeHeap, treeUsed, treePc, treeOp, treeKey, treeLoc, treeLeft,
              treeResult, treeSeen, checksum>>
mcVars == <<vars, treeVars, structure>>

MCFills == SUBSET Keys
MCFill2 == {{2}}
MCBudgets111 == {[t \in Threads |-> 1]}
MCBudgets13 == {<<1, 3>>}
MCNoBudgets == {}

(* The neighbours of key k among those of S. *)
Below(S, k) == Max({head} \cup {j \in S : j < k})
Above(S, k) == Min({tail} \cup {j \in S : j > k})

(* The list after the keys of S were inserted: node k holds key k. *)
FilledList(S) ==
  [n \in Nodes |->
    IF n = head THEN Node(minKey - 1, head, Above(S, head))
    ELSE IF n = tail THEN Node(maxKey + 1, Below(S, tail), tail)
    ELSE IF n \in S THEN Node(n, Below(S, n), Above(S, n))
    ELSE Node(maxKey + 1, head, tail)]

(* The tree after the keys of S were inserted in ascending order: leaf k   *)
(* under the internal node 10 + k.                                         *)
RightOf(S, k) ==
  IF \E j \in S : j > k THEN 10 + Min({j \in S : j > k}) ELSE high

FilledTree(S) ==
  [n \in TreeNodes |->
    IF n = root THEN Tree!createInternal(minKey - 1, low, RightOf(S, 0))
    ELSE IF n \in S THEN Tree!createLeaf(n)
    ELSE IF n - 10 \in S THEN Tree!createInternal(n - 10, n - 10, RightOf(S, n - 10))
    ELSE Tree!createLeaf(IF n = low THEN minKey - 1 ELSE maxKey + 1)]

MCSymmetry == Permutations(Threads)

NoCalls == [t \in Threads |-> 0]

MCInit ==
  /\ structure \in {"list", "tree"}
  /\ \E S \in Fills :
       /\ heap = FilledList(IF structure = "list" THEN S ELSE {})
       /\ used = {head, tail} \cup (IF structure = "list" THEN S ELSE {})
       /\ treeHeap = FilledTree(IF structure = "tree" THEN S ELSE {})
       /\ treeUsed = {root, low, high}
            \cup (IF structure = "tree" THEN S \cup {k + 10 : k \in S} ELSE {})
       /\ checksum = IF structure = "tree" THEN SumSet(S) ELSE 0
  /\ left \in IF structure = "list" THEN ListBudgets ELSE {NoCalls}
  /\ treeLeft \in IF structure = "tree" THEN TreeBudgets ELSE {NoCalls}
  /\ Quiet /\ Tree!Quiet

(* The threads have made all their operations. *)
AllDone ==
  /\ \A t \in Threads : /\ pc[t] = "idle" /\ left[t] = 0
                         /\ treePc[t] = "idle" /\ treeLeft[t] = 0
  /\ UNCHANGED mcVars

MCNext ==
  \/ Next /\ UNCHANGED <<treeVars, structure>>
  \/ Tree!Next /\ UNCHANGED <<vars, structure>>
  \/ AllDone

MCSpec == MCInit /\ [][MCNext]_mcVars

(* The list is a linearizable set, although searches walk through nodes    *)
(* erased behind them (doubly_linked_list_kcas.h:86), and so is the tree,  *)
(* although erase reads the fields of its nodes again and again, as long   *)
(* as each thread makes one operation: three operations next to one erase  *)
(* are enough to lose a key (ChecksumAgrees).                              *)
ImplementSets == ImplementsSet /\ Tree!ImplementsSet

(* The nodes of the tree that are not marked form one tree. *)
OneTree == Tree!OneTree

(* The validation of benchmark.cpp: when no operation runs the keys in the *)
(* tree add up to what the threads inserted less what they erased.         *)
ChecksumAgrees == Tree!ChecksumAgrees
=============================================================================
