----------------------------- MODULE LinkedList -----------------------------
(***************************************************************************)
(* The sorted doubly linked list of assignment-5                           *)
(* (doubly_linked_list_kcas.h) over the multi-word compare-and-swap that   *)
(* AtomicKCAS specifies and KCAS implements: readPtr and execute are       *)
(* atomic here.  One k-CAS marks a node and unlinks it; the node stays in  *)
(* memory, and searches may still walk through it.                         *)
(***************************************************************************)
EXTENDS Integers

CONSTANTS Threads,         \* the threads that use the list
          minKey, maxKey,  \* the range of the keys
          Nodes,           \* the addresses of nodes
          head, tail       \* the two sentinel nodes

Keys == minKey .. maxKey

ASSUME ListAssumption ==
  /\ minKey \in Int /\ maxKey \in Int /\ minKey <= maxKey
  /\ head \in Nodes /\ tail \in Nodes /\ head # tail

VARIABLES heap,        \* the fields of each node
          used,        \* the nodes that are or were in the list
          pc,          \* where each thread is
          op, key,     \* the operation it executes, and on which key
          loc,         \* its pred, succ and after
          left,        \* the operations it may still make
          result,      \* what its last operation returned
          seen         \* history: the keys in the list since the call

vars == <<heap, used, pc, op, key, loc, left, result, seen>>

Node(v, p, n) == [val |-> v, prev |-> p, next |-> n, mark |-> FALSE]

(* The nodes after n is linked between p and s, and after s is unlinked    *)
(* between p and a.                                                        *)
Inserted(n, k, p, s) ==
  [x \in Nodes |-> IF x = n THEN Node(k, p, s)
                   ELSE [val |-> heap[x].val,
                         prev |-> IF x = s THEN n ELSE heap[x].prev,
                         next |-> IF x = p THEN n ELSE heap[x].next,
                         mark |-> heap[x].mark]]

(* Mutant of Erased: the node that is taken out points back to pred. *)
ErasedBackwards(s, p, a) ==
  [x \in Nodes |-> [val |-> heap[x].val,
                    prev |-> IF x = a THEN p ELSE heap[x].prev,
                    next |-> IF x = p THEN a ELSE IF x = s THEN p ELSE heap[x].next,
                    mark |-> x = s \/ heap[x].mark]]

Erased(s, p, a) ==
  [x \in Nodes |-> [val |-> heap[x].val,
                    prev |-> IF x = a THEN p ELSE heap[x].prev,
                    next |-> IF x = p THEN a ELSE heap[x].next,
                    mark |-> x = s \/ heap[x].mark]]

(* The keys in the list are those of the nodes that are not marked. *)
InList == {n \in used \ {head, tail} : ~ heap[n].mark}
Elements == {heap[n].val : n \in InList}

Loc(p, s, a) == [pred |-> p, succ |-> s, after |-> a]
NoLoc == Loc(head, head, head)

(* No operation is running. *)
Quiet ==
  /\ pc = [t \in Threads |-> "idle"]
  /\ op = [t \in Threads |-> "none"]
  /\ key = [t \in Threads |-> minKey]
  /\ loc = [t \in Threads |-> NoLoc]
  /\ left \in [Threads -> Nat]
  /\ result = [t \in Threads |-> FALSE]
  /\ seen = [t \in Threads |-> {}]

(* DoublyLinkedList: two sentinels, linked to each other.  Nothing reads   *)
(* the prev of the head or the next of the tail, which are NULL there.     *)
Init ==
  /\ heap = [n \in Nodes |-> IF n = head THEN Node(minKey - 1, head, tail)
                             ELSE Node(maxKey + 1, head, tail)]
  /\ used = {head, tail}
  /\ Quiet

-----------------------------------------------------------------------------
Goto(t, p) == pc' = [pc EXCEPT ![t] = p]

(* contains, insertIfAbsent or erase starts its search at the head. *)
Call(t, o, k) ==
  /\ pc[t] = "idle" /\ left[t] > 0
  /\ left' = [left EXCEPT ![t] = @ - 1]
  /\ Goto(t, "search")
  /\ op' = [op EXCEPT ![t] = o]
  /\ key' = [key EXCEPT ![t] = k]
  /\ seen' = [seen EXCEPT ![t] = {Elements}]
  /\ UNCHANGED <<heap, used, loc, result>>

(* The operation of t returns r, the nodes being h and the used ones U. *)
Return(t, r, h, U) ==
  LET now == {h[n].val : n \in {m \in U \ {head, tail} : ~ h[m].mark}}
  IN /\ heap' = h
     /\ used' = U
     /\ Goto(t, "idle")
     /\ op' = [op EXCEPT ![t] = "none"]
     /\ key' = [key EXCEPT ![t] = minKey]
     /\ loc' = [loc EXCEPT ![t] = NoLoc]
     /\ result' = [result EXCEPT ![t] = r]
     /\ seen' = [u \in Threads |-> IF u = t \/ pc[u] = "idle"
                                   THEN {} ELSE seen[u] \cup {now}]
     /\ UNCHANGED left

(* internalSearch: one node further *)
Search(t) ==
  /\ pc[t] = "search"
  /\ LET s == heap[loc[t].succ].next
         v == heap[s].val
         here == [loc EXCEPT ![t] = Loc(loc[t].succ, s, loc[t].after)]
     IN \/ /\ v < key[t] /\ s # tail
           /\ loc' = here
           /\ UNCHANGED <<heap, used, pc, op, key, left, result, seen>>
        \/ /\ v >= key[t] \/ s = tail
           /\ \/ op[t] = "contains" /\ Return(t, v = key[t], heap, used)
              \/ op[t] = "insert" /\ v = key[t] /\ Return(t, FALSE, heap, used)
              \/ op[t] = "erase" /\ v # key[t] /\ Return(t, FALSE, heap, used)
              \/ /\ \/ op[t] = "insert" /\ v # key[t] /\ Goto(t, "insert")
                    \/ op[t] = "erase" /\ v = key[t] /\ Goto(t, "readAfter")
                 /\ loc' = here
                 /\ UNCHANGED <<heap, used, op, key, left, result, seen>>

(* Back to the start of the loop: search again. *)
Retry(t) ==
  /\ Goto(t, "search")
  /\ loc' = [loc EXCEPT ![t] = NoLoc]
  /\ UNCHANGED <<heap, used, op, key, left, result, seen>>

(* insertIfAbsent: a new node n, and the k-CAS that links it between pred  *)
(* and succ.  When the k-CAS fails nobody has seen n, and it is deleted.   *)
Insert(t) ==
  /\ pc[t] = "insert" /\ used # Nodes
  /\ LET p == loc[t].pred
         s == loc[t].succ
         n == CHOOSE m \in Nodes : m \notin used
         asExpected == /\ ~ heap[p].mark /\ ~ heap[s].mark
                       /\ heap[p].next = s /\ heap[s].prev = p
     IN \/ /\ asExpected
           /\ Return(t, TRUE, Inserted(n, key[t], p, s), used \cup {n})
        \/ ~ asExpected /\ Retry(t)

(* erase reads the node after succ, *)
ReadAfter(t) ==
  /\ pc[t] = "readAfter"
  /\ loc' = [loc EXCEPT ![t] = Loc(loc[t].pred, loc[t].succ, heap[loc[t].succ].next)]
  /\ Goto(t, "erase")
  /\ UNCHANGED <<heap, used, op, key, left, result, seen>>

(* Mutant of Erase: the k-CAS leaves out the mark and the prev of after. *)
EraseAfterUnchecked(t) ==
  /\ pc[t] = "erase"
  /\ LET p == loc[t].pred
         s == loc[t].succ
         a == loc[t].after
         asExpected == /\ ~ heap[p].mark /\ ~ heap[s].mark
                       /\ heap[p].next = s
     IN \/ /\ asExpected
           /\ Return(t, TRUE, Erased(s, p, a), used)
        \/ ~ asExpected /\ Retry(t)

(* and the k-CAS that marks succ and links pred and after to each other.   *)
(* It does not ask whether succ still points to after.                     *)
Erase(t) ==
  /\ pc[t] = "erase"
  /\ LET p == loc[t].pred
         s == loc[t].succ
         a == loc[t].after
         asExpected == /\ ~ heap[p].mark /\ ~ heap[s].mark /\ ~ heap[a].mark
                       /\ heap[p].next = s /\ heap[a].prev = s
     IN \/ /\ asExpected
           /\ Return(t, TRUE, Erased(s, p, a), used)
        \/ ~ asExpected /\ Retry(t)

-----------------------------------------------------------------------------
CallStep(t) == \E o \in {"insert", "erase", "contains"}, k \in Keys : Call(t, o, k)

Step(t) == Search(t) \/ Insert(t) \/ ReadAfter(t) \/ Erase(t)

Next == \E t \in Threads : CallStep(t) \/ Step(t)

Spec == Init /\ [][Next]_vars

-----------------------------------------------------------------------------
(* The nodes that are not marked form one sorted list: next and prev agree, *)
(* and no such node points to a marked one.                                 *)
LinksAgree ==
  \A n \in used : ~ heap[n].mark =>
    /\ n # tail => LET m == heap[n].next
                   IN /\ m \in used /\ ~ heap[m].mark /\ heap[m].prev = n
                      /\ heap[n].val < heap[m].val
    /\ n # head => LET m == heap[n].prev
                   IN m \in used /\ ~ heap[m].mark /\ heap[m].next = n

(* A marked node still leads a search on towards the tail. *)
MarkedLeadOn ==
  \A n \in used : heap[n].mark =>
    heap[n].next \in used /\ heap[n].val < heap[heap[n].next].val

(* The operations in progress, as the abstract set sees them. *)
absCall == [t \in Threads |-> IF pc[t] = "idle" THEN [op |-> "none", key |-> 0]
                              ELSE [op |-> op[t], key |-> key[t]]]

Abstract == INSTANCE LinSet WITH members <- Elements, call <- absCall

(* The list is a linearizable set. *)
ImplementsSet == Abstract!FilledSpec
=============================================================================
