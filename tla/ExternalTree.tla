---------------------------- MODULE ExternalTree ----------------------------
(***************************************************************************)
(* The external binary search tree of assignment-6 (external_tree_kcas.h)  *)
(* over multi-word compare-and-swap: reading a casword and kcas::execute   *)
(* are atomic here, as AtomicKCAS specifies.  Keys are in the leaves; an   *)
(* insert replaces a leaf by an internal node with two leaves, an erase    *)
(* replaces the parent of its leaf by the sibling of the leaf, and the two *)
(* nodes taken out are marked.  They stay in memory.                       *)
(***************************************************************************)
EXTENDS Integers, MultiWord, FiniteSets, FiniteSetsExt

CONSTANTS Threads,         \* the threads that use the tree
          minKey, maxKey,  \* the range of the keys
          Nodes,           \* the addresses of nodes
          NULL,            \* no node
          root, low, high  \* the three nodes of the constructor

Keys == minKey .. maxKey

VARIABLES heap,        \* the fields of each node
          used,        \* the nodes that are or were in the tree
          pc,          \* where each thread is
          op, key,     \* the operation it executes, and on which key
          loc,         \* its locals
          left,        \* the operations it may still make
          result,      \* what its last operation returned
          seen,        \* history: the keys in the tree since the call
          checksum     \* keyChecksum of the benchmark: what threads inserted

vars == <<heap, used, pc, op, key, loc, left, result, seen, checksum>>

createInternal(k, l, r) == [key |-> k, left |-> l, right |-> r, marked |-> FALSE]
createLeaf(k) == createInternal(k, NULL, NULL)

isLeaf(h, n) == h[n].left = NULL

(* The child of n on the way to key k. *)
ChildDir(h, n, k) == IF k <= h[n].key THEN "left" ELSE "right"

(* The leaf that a search for k ends at when nobody changes the tree: the  *)
(* path is no longer than the number of nodes.                             *)
LeafFor(h, k) ==
  LET at[d \in Nat] ==
        IF d = 0 THEN root
        ELSE LET n == at[d - 1]
             IN IF isLeaf(h, n) THEN n ELSE h[n][ChildDir(h, n, k)]
  IN at[Cardinality(used)]

(* What getSumOfKeys adds up: the keys that are found. *)
Found == {k \in Keys : heap[LeafFor(heap, k)].key = k}

(* The abstract set: the keys of the leaves that are not marked. *)
ElementsOf(h, U) ==
  Keys \cap {h[n].key : n \in {m \in U : isLeaf(h, m) /\ ~ h[m].marked}}
Elements == ElementsOf(heap, used)

(* The locals: the nodes of SearchRecord, and the fields that erase and    *)
(* insert find to be the ones to change.                                   *)
NoLoc == [gp |-> NULL, p |-> NULL, n |-> root,
          parent |-> "none", sibling |-> "none", node |-> "none", sib |-> NULL]

(* No operation is running. *)
Quiet ==
  /\ pc = [t \in Threads |-> "idle"]
  /\ op = [t \in Threads |-> "none"]
  /\ key = [t \in Threads |-> minKey]
  /\ loc = [t \in Threads |-> NoLoc]
  /\ left \in [Threads -> Nat]
  /\ result = [t \in Threads |-> FALSE]
  /\ seen = [t \in Threads |-> {}]

Init ==
  /\ heap = [n \in Nodes |-> IF n = root THEN createInternal(minKey - 1, low, high)
                             ELSE createLeaf(IF n = low THEN minKey - 1 ELSE maxKey + 1)]
  /\ used = {root, low, high}
  /\ checksum = 0
  /\ Quiet

-----------------------------------------------------------------------------
Goto(t, p) == pc' = [pc EXCEPT ![t] = p]

opVars == <<op, key, left, result, seen, checksum>>

(* contains, insertIfAbsent or erase starts its search at the root. *)
Call(t, o, k) ==
  /\ pc[t] = "idle" /\ left[t] > 0
  /\ left' = [left EXCEPT ![t] = @ - 1]
  /\ Goto(t, "search")
  /\ op' = [op EXCEPT ![t] = o]
  /\ key' = [key EXCEPT ![t] = k]
  /\ seen' = [seen EXCEPT ![t] = {Elements}]
  /\ UNCHANGED <<heap, used, loc, result, checksum>>

(* The operation of t returns r, leaving the nodes h, of which U are used; *)
(* the benchmark then adds what it changed, c, to its checksum.            *)
Return(t, r, h, U, c) ==
  /\ heap' = h
  /\ used' = U
  /\ Goto(t, "idle")
  /\ op' = [op EXCEPT ![t] = "none"]
  /\ key' = [key EXCEPT ![t] = minKey]
  /\ loc' = [loc EXCEPT ![t] = NoLoc]
  /\ result' = [result EXCEPT ![t] = r]
  /\ seen' = [u \in Threads |-> IF u = t \/ pc[u] = "idle"
                                THEN {} ELSE seen[u] \cup {ElementsOf(h, U)}]
  /\ checksum' = checksum + c
  /\ UNCHANGED left

(* search: one node further, and what the operation does at a leaf *)
Search(t) ==
  /\ pc[t] = "search"
  /\ LET n == loc[t].n
         c == heap[n][ChildDir(heap, n, key[t])]
         hit == heap[c].key = key[t]
         here == [loc EXCEPT ![t].gp = loc[t].p, ![t].p = n, ![t].n = c]
     IN \/ /\ ~ isLeaf(heap, c)
           /\ loc' = here
           /\ UNCHANGED <<heap, used, pc, opVars>>
        \/ /\ isLeaf(heap, c)
           /\ \/ op[t] = "contains" /\ Return(t, hit, heap, used, 0)
              \/ op[t] = "insert" /\ hit /\ Return(t, FALSE, heap, used, 0)
              \/ op[t] = "erase" /\ ~ hit /\ Return(t, FALSE, heap, used, 0)
              \/ /\ \/ op[t] = "insert" /\ ~ hit /\ Goto(t, "readChild")
                    \/ op[t] = "erase" /\ hit /\ Goto(t, "readParent")
                 /\ loc' = here
                 /\ UNCHANGED <<heap, used, opVars>>

(* Back to the start of the loop: search again. *)
Retry(t) ==
  /\ Goto(t, "search")
  /\ loc' = [loc EXCEPT ![t] = NoLoc]
  /\ UNCHANGED <<heap, used, opVars>>

(* The words of the nodes, and the nodes after words were written. *)
WordsIn(h) == [a \in {"left", "right", "marked"} \X Nodes |-> h[a[2]][a[1]]]
WithWords(h, w) ==
  [n \in Nodes |-> [key |-> h[n].key, left |-> w[<<"left", n>>],
                    right |-> w[<<"right", n>>], marked |-> w[<<"marked", n>>]]]

(* kcas::execute with the entries es, on nodes of which h holds new ones   *)
(* too: the operation returns true or starts again.                        *)
Execute(t, es, h, U, c) ==
  \/ /\ Holds(WordsIn(heap), es)
     /\ Return(t, TRUE, WithWords(h, Swapped(WordsIn(h), es)), U, c)
  \/ ~ Holds(WordsIn(heap), es) /\ Retry(t)

-----------------------------------------------------------------------------
(* insertIfAbsent reads which child of p its leaf is: if not the left one, *)
(* it takes it to be the right one.                                        *)
ReadChild(t) ==
  /\ pc[t] = "readChild"
  /\ loc' = [loc EXCEPT ![t].node =
               IF heap[loc[t].p].left = loc[t].n THEN "left" ELSE "right"]
  /\ Goto(t, "insert")
  /\ UNCHANGED <<heap, used, opVars>>

(* Mutant of Insert: the k-CAS leaves out the mark of p. *)
InsertUnmarked(t) ==
  /\ pc[t] = "insert"
  /\ LET p == loc[t].p
         n == loc[t].n
         k == key[t]
         na == CHOOSE m \in Nodes : m \notin used
         n1 == CHOOSE m \in Nodes : m \notin used \cup {na}
         l == IF k <= heap[n].key THEN na ELSE n
         r == IF k <= heap[n].key THEN n ELSE na
     IN Execute(t, <<Entry(<<loc[t].node, p>>, n, n1)>>,
                [heap EXCEPT ![na] = createLeaf(k),
                             ![n1] = createInternal(Min({k, heap[n].key}), l, r)],
                used \cup {na, n1}, k)
  /\ Cardinality(Nodes \ used) >= 2

(* A new leaf na, a new internal node n1 over it and the leaf n, and the   *)
(* k-CAS that puts n1 in the place of n.  When it fails nobody has seen    *)
(* them, and they are deleted.                                             *)
Insert(t) ==
  /\ pc[t] = "insert" /\ Cardinality(Nodes \ used) >= 2
  /\ LET p == loc[t].p
         n == loc[t].n
         k == key[t]
         na == CHOOSE m \in Nodes : m \notin used
         n1 == CHOOSE m \in Nodes : m \notin used \cup {na}
         l == IF k <= heap[n].key THEN na ELSE n
         r == IF k <= heap[n].key THEN n ELSE na
     IN Execute(t, <<Entry(<<"marked", p>>, FALSE, FALSE),
                     Entry(<<loc[t].node, p>>, n, n1)>>,
                [heap EXCEPT ![na] = createLeaf(k),
                             ![n1] = createInternal(Min({k, heap[n].key}), l, r)],
                used \cup {na, n1}, k)

(* erase reads which child of gp is p, *)
ReadParent(t) ==
  /\ pc[t] = "readParent"
  /\ loc' = [loc EXCEPT ![t].parent =
               IF heap[loc[t].gp].left = loc[t].p THEN "left" ELSE "right"]
  /\ Goto(t, "readSibling")
  /\ UNCHANGED <<heap, used, opVars>>

(* which child of p is the sibling of its leaf, *)
ReadSibling(t) ==
  /\ pc[t] = "readSibling"
  /\ loc' = [loc EXCEPT ![t].sibling =
               IF heap[loc[t].p].left = loc[t].n THEN "right" ELSE "left"]
  /\ Goto(t, "readNode")
  /\ UNCHANGED <<heap, used, opVars>>

(* which one is the leaf, *)
ReadNode(t) ==
  /\ pc[t] = "readNode"
  /\ loc' = [loc EXCEPT ![t].node =
               IF heap[loc[t].p].left = loc[t].n THEN "left" ELSE "right"]
  /\ Goto(t, "readSide")
  /\ UNCHANGED <<heap, used, opVars>>

(* on which side to look for the sibling, *)
ReadSide(t) ==
  /\ pc[t] = "readSide"
  /\ Goto(t, IF heap[loc[t].p].left = loc[t].n THEN "readRight" ELSE "readLeft")
  /\ UNCHANGED <<heap, used, loc, opVars>>

(* and the sibling there. *)
ReadSib(t) ==
  /\ pc[t] \in {"readRight", "readLeft"}
  /\ loc' = [loc EXCEPT ![t].sib = IF pc[t] = "readRight" THEN heap[loc[t].p].right
                                   ELSE heap[loc[t].p].left]
  /\ Goto(t, "erase")
  /\ UNCHANGED <<heap, used, opVars>>

(* Mutant of Erase: the k-CAS leaves out the sibling. *)
EraseNoSibling(t) ==
  /\ pc[t] = "erase"
  /\ LET l == loc[t]
     IN Execute(t, <<Entry(<<"marked", l.gp>>, FALSE, FALSE),
                     Entry(<<"marked", l.p>>, FALSE, TRUE),
                     Entry(<<"marked", l.n>>, FALSE, TRUE),
                     Entry(<<l.parent, l.gp>>, l.p, l.sib),
                     Entry(<<l.node, l.p>>, l.n, l.n)>>,
                heap, used, - key[t])

(* The k-CAS of erase: it marks p and n, and puts the sibling in the place *)
(* of p if neither child of p has changed.                                 *)
Erase(t) ==
  /\ pc[t] = "erase"
  /\ LET l == loc[t]
     IN Execute(t, <<Entry(<<"marked", l.gp>>, FALSE, FALSE),
                     Entry(<<"marked", l.p>>, FALSE, TRUE),
                     Entry(<<"marked", l.n>>, FALSE, TRUE),
                     Entry(<<l.parent, l.gp>>, l.p, l.sib),
                     Entry(<<l.node, l.p>>, l.n, l.n),
                     Entry(<<l.sibling, l.p>>, l.sib, l.sib)>>,
                heap, used, - key[t])

-----------------------------------------------------------------------------
CallStep(t) == \E o \in {"insert", "erase", "contains"}, k \in Keys : Call(t, o, k)

Step(t) ==
  \/ Search(t) \/ ReadChild(t) \/ Insert(t)
  \/ ReadParent(t) \/ ReadSibling(t) \/ ReadNode(t) \/ ReadSide(t) \/ ReadSib(t)
  \/ Erase(t)

Next == \E t \in Threads : CallStep(t) \/ Step(t)

Spec == Init /\ [][Next]_vars

-----------------------------------------------------------------------------
(* The nodes that are not marked form one tree: every internal one has two *)
(* unmarked children, and every one but the root has one unmarked parent.  *)
Live == {n \in used : ~ heap[n].marked}
Parents(n) == {m \in Live : n \in {heap[m].left, heap[m].right}}

OneTree ==
  \A n \in Live :
    /\ ~ isLeaf(heap, n) => /\ heap[n].left \in Live /\ heap[n].right \in Live
                            /\ heap[n].left # heap[n].right
    /\ Cardinality(Parents(n)) = IF n = root THEN 0 ELSE 1

(* The validation of the benchmark: when all threads are done, the keys in *)
(* the tree add up to what the threads inserted less what they erased.     *)
ChecksumAgrees ==
  (\A t \in Threads : pc[t] = "idle") => SumSet(Found) = checksum

Abstract == INSTANCE LinSet
  WITH members <- Elements,
       call <- [t \in Threads |-> IF pc[t] = "idle" THEN [op |-> "none", key |-> 0]
                                  ELSE [op |-> op[t], key |-> key[t]]]

(* The tree is a linearizable set. *)
ImplementsSet == Abstract!FilledSpec
=============================================================================
