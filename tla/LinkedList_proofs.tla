------------------------- MODULE LinkedList_proofs -------------------------
(***************************************************************************)
(* Proofs about LinkedList: the nodes that are not marked form one sorted  *)
(* list, marked nodes lead on, and the list implements LinSet, whatever    *)
(* the threads, keys and nodes.                                            *)
(***************************************************************************)
EXTENDS LinkedList, TLAPS

Places == {"idle", "search", "insert", "readAfter", "erase"}

TypeOK ==
  /\ heap \in [Nodes -> [val : Int, prev : Nodes, next : Nodes, mark : BOOLEAN]]
  /\ used \in SUBSET Nodes
  /\ pc \in [Threads -> Places]
  /\ key \in [Threads -> Keys]
  /\ loc \in [Threads -> [pred : Nodes, succ : Nodes, after : Nodes]]

(* The sentinels are never marked, and lie outside the range of the keys. *)
Sentinels ==
  /\ head \in used /\ tail \in used
  /\ ~ heap[head].mark /\ ~ heap[tail].mark
  /\ heap[head].val = minKey - 1 /\ heap[tail].val = maxKey + 1

(* Only used nodes are reached from used nodes. *)
Closed == \A n \in used : n # tail => heap[n].next \in used

(* What a thread remembers is in the order that its search found. *)
RememberedBy(t) ==
  /\ loc[t].pred \in used /\ loc[t].succ \in used /\ loc[t].after \in used
  /\ pc[t] = "idle" => loc[t] = NoLoc
  /\ pc[t] = "search" => heap[loc[t].succ].val < key[t]
  /\ pc[t] \in {"insert", "readAfter", "erase"} => heap[loc[t].pred].val < key[t]
  /\ pc[t] = "insert" => key[t] < heap[loc[t].succ].val
  /\ pc[t] \in {"readAfter", "erase"} => heap[loc[t].succ].val = key[t]
  /\ pc[t] = "erase" => heap[loc[t].succ].val < heap[loc[t].after].val

Remembered == \A t \in Threads : RememberedBy(t)

ListInv == TypeOK /\ Sentinels /\ Closed /\ LinksAgree /\ MarkedLeadOn /\ Remembered

-----------------------------------------------------------------------------
LEMMA InitList == Init => ListInv
<1> SUFFICES ASSUME Init PROVE ListInv
  OBVIOUS
<1> USE ListAssumption DEF Init, Quiet, Node, NoLoc, Loc, Keys
<1>1. TypeOK
  BY DEF TypeOK, Places
<1>2. Sentinels /\ Closed
  BY DEF Sentinels, Closed
<1>3. LinksAgree /\ MarkedLeadOn
  BY DEF LinksAgree, MarkedLeadOn
<1>4. Remembered
  BY DEF Remembered, RememberedBy
<1> QED
  BY <1>1, <1>2, <1>3, <1>4 DEF ListInv

(* Steps that leave the nodes alone. *)
LEMMA SameNodes ==
  ASSUME ListInv, UNCHANGED <<heap, used>>,
         pc' \in [Threads -> Places], key' \in [Threads -> Keys],
         loc' \in [Threads -> [pred : Nodes, succ : Nodes, after : Nodes]],
         Remembered'
  PROVE  ListInv'
BY DEF ListInv, TypeOK, Sentinels, Closed, LinksAgree, MarkedLeadOn

(* A thread that is idle, or starts at the head, remembers nothing else. *)
LEMMA Forgotten ==
  ASSUME ListInv, NEW t \in Threads, NEW p \in {"idle", "search"}, NEW k \in Keys,
         pc' = [pc EXCEPT ![t] = p], key' = [key EXCEPT ![t] = k],
         loc' = [loc EXCEPT ![t] = NoLoc], UNCHANGED <<heap, used>>
  PROVE  ListInv'
<1>1. /\ pc' \in [Threads -> Places] /\ key' \in [Threads -> Keys]
      /\ loc' \in [Threads -> [pred : Nodes, succ : Nodes, after : Nodes]]
  BY ListAssumption DEF ListInv, TypeOK, Places, NoLoc, Loc
<1>2. minKey - 1 < k
  BY ListAssumption DEF Keys
<1>3. Remembered'
  <2> SUFFICES ASSUME NEW u \in Threads
               PROVE  RememberedBy(u)'
    BY DEF Remembered
  <2>1. CASE u = t
    BY <2>1, <1>2 DEF ListInv, TypeOK, Sentinels, RememberedBy, NoLoc, Loc
  <2>2. CASE u # t
    BY <2>2 DEF ListInv, TypeOK, Remembered, RememberedBy
  <2> QED
    BY <2>1, <2>2
<1> QED
  BY <1>1, <1>3, SameNodes

LEMMA CallList ==
  ASSUME ListInv, NEW t \in Threads, NEW o, NEW k \in Keys, Call(t, o, k)
  PROVE  ListInv'
<1>1. /\ pc[t] = "idle" /\ pc' = [pc EXCEPT ![t] = "search"]
      /\ key' = [key EXCEPT ![t] = k] /\ UNCHANGED <<heap, used, loc>>
  BY DEF Call, Goto
<1>2. loc[t] = NoLoc
  BY <1>1 DEF ListInv, Remembered, RememberedBy, Loc
<1>3. loc' = [loc EXCEPT ![t] = NoLoc]
  BY <1>1, <1>2 DEF ListInv, TypeOK
<1> QED
  BY <1>1, <1>3, Forgotten

(* An operation that returns with the nodes as they are, or tries again. *)
LEMMA QuietReturn ==
  ASSUME ListInv, NEW t \in Threads, NEW r, Return(t, r, heap, used)
  PROVE  ListInv'
<1>1. /\ pc' = [pc EXCEPT ![t] = "idle"] /\ key' = [key EXCEPT ![t] = minKey]
      /\ loc' = [loc EXCEPT ![t] = NoLoc] /\ UNCHANGED <<heap, used>>
  BY DEF Return, Goto
<1>2. minKey \in Keys
  BY ListAssumption DEF Keys
<1> QED
  BY <1>1, <1>2, Forgotten

LEMMA RetryList ==
  ASSUME ListInv, NEW t \in Threads, Retry(t)
  PROVE  ListInv'
<1>1. /\ pc' = [pc EXCEPT ![t] = "search"] /\ key' = [key EXCEPT ![t] = key[t]]
      /\ loc' = [loc EXCEPT ![t] = NoLoc] /\ UNCHANGED <<heap, used>>
  BY DEF Retry, Goto, ListInv, TypeOK
<1>2. key[t] \in Keys
  BY DEF ListInv, TypeOK
<1> QED
  BY <1>1, <1>2, Forgotten

(* A node whose value a thread compares lies before the tail. *)
LEMMA BeforeTail ==
  ASSUME ListInv, NEW t \in Threads, NEW n \in used,
         heap[n].val < key[t] \/ heap[n].val = key[t]
  PROVE  n # tail /\ heap[n].next \in used
<1>1. key[t] \in Int /\ key[t] <= maxKey /\ heap[tail].val = maxKey + 1
  BY ListAssumption DEF ListInv, TypeOK, Sentinels, Keys
<1>2. n # tail
  BY <1>1, ListAssumption
<1> QED
  BY <1>2 DEF ListInv, Closed

LEMMA SearchList ==
  ASSUME ListInv, NEW t \in Threads, Search(t)
  PROVE  ListInv'
<1> DEFINE s == heap[loc[t].succ].next
           v == heap[s].val
           here == [loc EXCEPT ![t] = Loc(loc[t].succ, s, loc[t].after)]
<1>1. pc[t] = "search"
  BY DEF Search
<1>2. loc[t].succ \in used /\ heap[loc[t].succ].val < key[t] /\ s \in used
  BY <1>1, BeforeTail DEF ListInv, Remembered, RememberedBy, Loc
<1>3. /\ here \in [Threads -> [pred : Nodes, succ : Nodes, after : Nodes]]
      /\ here[t].pred = loc[t].succ /\ here[t].succ = s /\ here[t].after = loc[t].after
      /\ \A u \in Threads \ {t} : here[u] = loc[u]
  BY <1>2 DEF ListInv, TypeOK, Loc
<1>4. CASE /\ v < key[t] /\ loc' = here
           /\ UNCHANGED <<heap, used, pc, key>>
  <2>1. Remembered'
    <3> SUFFICES ASSUME NEW u \in Threads
                 PROVE  RememberedBy(u)'
      BY DEF Remembered
    <3>1. CASE u = t
      BY <3>1, <1>1, <1>2, <1>3, <1>4 DEF ListInv, Remembered, RememberedBy, Loc
    <3>2. CASE u # t
      BY <3>2, <1>3, <1>4 DEF ListInv, Remembered, RememberedBy, Loc
    <3> QED
      BY <3>1, <3>2
  <2> QED
    BY <1>3, <1>4, <2>1, SameNodes DEF ListInv, TypeOK
<1>5. CASE \E r : Return(t, r, heap, used)
  BY <1>5, QuietReturn
<1>6. CASE /\ \/ v # key[t] /\ pc' = [pc EXCEPT ![t] = "insert"]
              \/ v = key[t] /\ pc' = [pc EXCEPT ![t] = "readAfter"]
           /\ v >= key[t] \/ s = tail
           /\ loc' = here /\ UNCHANGED <<heap, used, key>>
  <2>1. v # key[t] => key[t] < v
    <3>1. v \in Int /\ key[t] \in Int /\ key[t] <= maxKey
      BY <1>2, ListAssumption DEF ListInv, TypeOK, Keys
    <3>2. s = tail => v = maxKey + 1
      BY DEF ListInv, Sentinels
    <3> QED
      BY <3>1, <3>2, <1>6, ListAssumption
  <2>2. Remembered'
    <3> SUFFICES ASSUME NEW u \in Threads
                 PROVE  RememberedBy(u)'
      BY DEF Remembered
    <3>1. CASE u = t
      BY <3>1, <1>1, <1>2, <1>3, <1>6, <2>1 DEF ListInv, TypeOK, Remembered, RememberedBy, Loc
    <3>2. CASE u # t
      BY <3>2, <1>3, <1>6 DEF ListInv, TypeOK, Remembered, RememberedBy, Loc
    <3> QED
      BY <3>1, <3>2
  <2>3. pc' \in [Threads -> Places]
    BY <1>6 DEF ListInv, TypeOK, Places
  <2> QED
    BY <1>3, <1>6, <2>2, <2>3, SameNodes DEF ListInv, TypeOK
<1> QED
  BY <1>4, <1>5, <1>6 DEF Search, Goto

LEMMA ReadAfterList ==
  ASSUME ListInv, NEW t \in Threads, ReadAfter(t)
  PROVE  ListInv'
<1> DEFINE a == heap[loc[t].succ].next
<1>1. /\ pc[t] = "readAfter" /\ pc' = [pc EXCEPT ![t] = "erase"]
      /\ loc' = [loc EXCEPT ![t] = Loc(loc[t].pred, loc[t].succ, a)] /\ UNCHANGED <<heap, used, key>>
  BY DEF ReadAfter, Goto
<1>2. /\ loc[t].succ \in used /\ heap[loc[t].succ].val = key[t]
      /\ loc[t].succ # tail /\ a \in used
  BY <1>1, BeforeTail DEF ListInv, Remembered, RememberedBy, Loc
<1>3. heap[loc[t].succ].val < heap[a].val
  BY <1>2 DEF ListInv, LinksAgree, MarkedLeadOn
<1>4. /\ loc' \in [Threads -> [pred : Nodes, succ : Nodes, after : Nodes]]
      /\ loc'[t].pred = loc[t].pred /\ loc'[t].succ = loc[t].succ /\ loc'[t].after = a
      /\ \A u \in Threads \ {t} : loc'[u] = loc[u]
  BY <1>1, <1>2 DEF ListInv, TypeOK, Loc
<1>5. Remembered'
  <2> SUFFICES ASSUME NEW u \in Threads
               PROVE  RememberedBy(u)'
    BY DEF Remembered
  <2>1. CASE u = t
    BY <2>1, <1>1, <1>2, <1>3, <1>4 DEF ListInv, TypeOK, Remembered, RememberedBy, Loc
  <2>2. CASE u # t
    BY <2>2, <1>1, <1>4 DEF ListInv, TypeOK, Remembered, RememberedBy, Loc
  <2> QED
    BY <2>1, <2>2
<1>6. pc' \in [Threads -> Places]
  BY <1>1 DEF ListInv, TypeOK, Places
<1> QED
  BY <1>1, <1>4, <1>5, <1>6, SameNodes DEF ListInv, TypeOK

(***************************************************************************)
(* The two k-CASes.                                                        *)
(***************************************************************************)

(* A thread returns from a k-CAS that kept the values of the used nodes. *)
LEMMA ReturnRemembered ==
  ASSUME ListInv, NEW t \in Threads, NEW r, NEW h, NEW U \in SUBSET Nodes,
         Return(t, r, h, U), used \subseteq U, \A n \in used : h[n].val = heap[n].val
  PROVE  /\ pc' \in [Threads -> Places] /\ key' \in [Threads -> Keys]
         /\ loc' \in [Threads -> [pred : Nodes, succ : Nodes, after : Nodes]]
         /\ Remembered'
<1>1. /\ pc' = [pc EXCEPT ![t] = "idle"] /\ key' = [key EXCEPT ![t] = minKey]
      /\ loc' = [loc EXCEPT ![t] = NoLoc] /\ heap' = h /\ used' = U
  BY DEF Return, Goto
<1>2. minKey \in Keys
  BY ListAssumption DEF Keys
<1>3. NoLoc \in [pred : Nodes, succ : Nodes, after : Nodes]
  BY ListAssumption DEF NoLoc, Loc
<1>4. Remembered'
  <2> SUFFICES ASSUME NEW u \in Threads
               PROVE  RememberedBy(u)'
    BY DEF Remembered
  <2>1. CASE u = t
    BY <2>1, <1>1 DEF ListInv, TypeOK, Sentinels, RememberedBy, NoLoc, Loc
  <2>2. CASE u # t
    <3>1. RememberedBy(u)
      BY DEF ListInv, Remembered
    <3>2. pc'[u] = pc[u] /\ key'[u] = key[u] /\ loc'[u] = loc[u]
      BY <2>2, <1>1 DEF ListInv, TypeOK
    <3> QED
      BY <3>1, <3>2, <1>1 DEF RememberedBy
  <2> QED
    BY <2>1, <2>2
<1> QED
  BY <1>1, <1>2, <1>3, <1>4 DEF ListInv, TypeOK, Places

(* Linking a new node between two neighbours keeps the list. *)
LEMMA InsertKeepsLinks ==
  ASSUME ListInv, NEW p \in used, NEW s \in used, NEW n \in Nodes \ used, NEW k \in Keys,
         ~ heap[p].mark, ~ heap[s].mark, heap[p].next = s, heap[s].prev = p,
         heap[p].val < k, k < heap[s].val,
         heap' = Inserted(n, k, p, s), used' = used \cup {n}
  PROVE  /\ heap' \in [Nodes -> [val : Int, prev : Nodes, next : Nodes, mark : BOOLEAN]]
         /\ Sentinels' /\ Closed' /\ LinksAgree' /\ MarkedLeadOn'
<1>1. /\ k \in Int /\ minKey <= k /\ k <= maxKey /\ n # head /\ n # tail
      /\ n # p /\ n # s /\ p # s
  BY ListAssumption DEF ListInv, Sentinels, TypeOK, Keys
<1>2. heap' \in [Nodes -> [val : Int, prev : Nodes, next : Nodes, mark : BOOLEAN]]
  BY <1>1 DEF ListInv, TypeOK, Inserted, Node
<1>3. /\ heap'[n].val = k /\ heap'[n].prev = p /\ heap'[n].next = s /\ ~ heap'[n].mark
      /\ \A x \in used : /\ heap'[x].val = heap[x].val
                         /\ heap'[x].mark = heap[x].mark
                         /\ heap'[x].prev = IF x = s THEN n ELSE heap[x].prev
                         /\ heap'[x].next = IF x = p THEN n ELSE heap[x].next
  BY <1>1 DEF ListInv, TypeOK, Inserted, Node
<1>4. \A x \in used : heap[x].val \in Int
  BY DEF ListInv, TypeOK
<1>5. p # tail /\ s # head
  BY <1>1, ListAssumption DEF ListInv, Sentinels
<1>6. Sentinels'
  BY <1>3 DEF ListInv, Sentinels
<1>7. Closed'
  BY <1>3 DEF ListInv, Closed
<1>8. MarkedLeadOn'
  BY <1>3 DEF ListInv, MarkedLeadOn
<1>9. LinksAgree'
  <2> SUFFICES ASSUME NEW x \in used', ~ heap'[x].mark
               PROVE  /\ x # tail => LET m == heap'[x].next
                                     IN /\ m \in used' /\ ~ heap'[m].mark /\ heap'[m].prev = x
                                        /\ heap'[x].val < heap'[m].val
                      /\ x # head => LET m == heap'[x].prev
                                     IN m \in used' /\ ~ heap'[m].mark /\ heap'[m].next = x
    BY DEF LinksAgree
  <2>1. CASE x = n
    BY <2>1, <1>1, <1>3
  <2>2. CASE x \in used
    <3>1. x # tail => LET m == heap'[x].next
                      IN /\ m \in used' /\ ~ heap'[m].mark /\ heap'[m].prev = x
                         /\ heap'[x].val < heap'[m].val
      <4>1. CASE x = p
        BY <4>1, <1>1, <1>3
      <4>2. CASE x # p
        BY <4>2, <2>2, <1>1, <1>3, <1>4 DEF ListInv, LinksAgree
      <4> QED
        BY <4>1, <4>2
    <3>2. x # head => LET m == heap'[x].prev
                      IN m \in used' /\ ~ heap'[m].mark /\ heap'[m].next = x
      <4>1. CASE x = s
        BY <4>1, <1>1, <1>3
      <4>2. CASE x # s
        BY <4>2, <2>2, <1>1, <1>3, <1>4 DEF ListInv, LinksAgree
      <4> QED
        BY <4>1, <4>2
    <3> QED
      BY <3>1, <3>2
  <2> QED
    BY <2>1, <2>2
<1> QED
  BY <1>2, <1>6, <1>7, <1>8, <1>9

(* Marking s and linking its neighbours keeps the list.  The k-CAS asks for *)
(* a.prev = s; that s.next = a follows, since a is not marked.              *)
LEMMA EraseKeepsLinks ==
  ASSUME ListInv, NEW p \in used, NEW s \in used, NEW a \in used, NEW k \in Keys,
         ~ heap[p].mark, ~ heap[s].mark, ~ heap[a].mark,
         heap[p].next = s, heap[a].prev = s,
         heap[p].val < k, heap[s].val = k, k < heap[a].val,
         heap' = Erased(s, p, a), used' = used
  PROVE  /\ heap' \in [Nodes -> [val : Int, prev : Nodes, next : Nodes, mark : BOOLEAN]]
         /\ Sentinels' /\ Closed' /\ LinksAgree' /\ MarkedLeadOn'
<1>1. /\ k \in Int /\ minKey <= k /\ k <= maxKey /\ s # head /\ s # tail
      /\ p # tail /\ a # head /\ p # s /\ p # a /\ s # a
  BY ListAssumption DEF ListInv, Sentinels, TypeOK, Keys
<1>2. heap' \in [Nodes -> [val : Int, prev : Nodes, next : Nodes, mark : BOOLEAN]]
  BY <1>1 DEF ListInv, TypeOK, Erased
<1>3. \A x \in used : /\ heap'[x].val = heap[x].val
                      /\ heap'[x].mark = (x = s \/ heap[x].mark)
                      /\ heap'[x].prev = IF x = a THEN p ELSE heap[x].prev
                      /\ heap'[x].next = IF x = p THEN a ELSE heap[x].next
  BY <1>1 DEF ListInv, TypeOK, Erased
<1>4. heap[s].next = a /\ heap[s].prev = p
  BY <1>1 DEF ListInv, LinksAgree
<1>5. \A x \in used : heap[x].val \in Int
  BY DEF ListInv, TypeOK
<1>6. Sentinels'
  BY <1>1, <1>3 DEF ListInv, Sentinels
<1>7. Closed'
  BY <1>3 DEF ListInv, Closed
<1>8. MarkedLeadOn'
  <2> SUFFICES ASSUME NEW x \in used, heap'[x].mark
               PROVE  heap'[x].next \in used /\ heap'[x].val < heap'[heap'[x].next].val
    BY DEF MarkedLeadOn
  <2>1. CASE x = s
    BY <2>1, <1>1, <1>3, <1>4
  <2>2. CASE x # s
    <3>1. heap[x].mark /\ x # p
      BY <2>2, <1>3
    <3>2. heap[x].next \in used /\ heap[x].val < heap[heap[x].next].val
      BY <3>1 DEF ListInv, MarkedLeadOn
    <3> QED
      BY <3>1, <3>2, <1>3
  <2> QED
    BY <2>1, <2>2
<1>9. LinksAgree'
  <2> SUFFICES ASSUME NEW x \in used, ~ heap'[x].mark
               PROVE  /\ x # tail => LET m == heap'[x].next
                                     IN /\ m \in used /\ ~ heap'[m].mark /\ heap'[m].prev = x
                                        /\ heap'[x].val < heap'[m].val
                      /\ x # head => LET m == heap'[x].prev
                                     IN m \in used /\ ~ heap'[m].mark /\ heap'[m].next = x
    BY DEF LinksAgree
  <2>1. x # s /\ ~ heap[x].mark
    BY <1>3
  <2>2. x # tail => LET m == heap'[x].next
                    IN /\ m \in used /\ ~ heap'[m].mark /\ heap'[m].prev = x
                       /\ heap'[x].val < heap'[m].val
    <3>1. CASE x = p
      BY <3>1, <1>1, <1>3, <1>5
    <3>2. CASE x # p /\ x # tail
      <4>1. /\ heap[x].next \in used /\ ~ heap[heap[x].next].mark
            /\ heap[heap[x].next].prev = x /\ heap[x].val < heap[heap[x].next].val
        BY <3>2, <2>1 DEF ListInv, LinksAgree
      <4>2. heap[x].next # s /\ heap[x].next # a
        BY <4>1, <3>2, <2>1, <1>4
      <4>3. heap'[x].next = heap[x].next /\ heap'[x].val = heap[x].val
        BY <2>1, <3>2, <1>3
      <4>4. ASSUME NEW m, m = heap[x].next
            PROVE  ~ heap'[m].mark /\ heap'[m].prev = x /\ heap'[m].val = heap[m].val
        BY <4>1, <4>2, <4>4, <1>3
      <4> QED
        BY <4>1, <4>3, <4>4
    <3> QED
      BY <3>1, <3>2
  <2>3. x # head => LET m == heap'[x].prev
                    IN m \in used /\ ~ heap'[m].mark /\ heap'[m].next = x
    <3>1. CASE x = a
      BY <3>1, <1>1, <1>3
    <3>2. CASE x # a /\ x # head
      <4>1. /\ heap[x].prev \in used /\ ~ heap[heap[x].prev].mark
            /\ heap[heap[x].prev].next = x
        BY <3>2, <2>1 DEF ListInv, LinksAgree
      <4>2. heap[x].prev # s /\ heap[x].prev # p
        BY <4>1, <3>2, <2>1, <1>4
      <4> QED
        BY <4>1, <4>2, <3>2, <1>3
    <3> QED
      BY <3>1, <3>2
  <2> QED
    BY <2>2, <2>3
<1> QED
  BY <1>2, <1>6, <1>7, <1>8, <1>9

-----------------------------------------------------------------------------
LEMMA InsertList ==
  ASSUME ListInv, NEW t \in Threads, Insert(t)
  PROVE  ListInv'
<1> DEFINE p == loc[t].pred
           s == loc[t].succ
           n == CHOOSE m \in Nodes : m \notin used
<1>1. CASE Retry(t)
  BY <1>1, RetryList
<1>2. CASE /\ ~ heap[p].mark /\ ~ heap[s].mark /\ heap[p].next = s /\ heap[s].prev = p
           /\ Return(t, TRUE, Inserted(n, key[t], p, s), used \cup {n})
  <2>1. pc[t] = "insert" /\ n \in Nodes \ used
    <3>1. used # Nodes /\ used \subseteq Nodes
      BY DEF Insert, ListInv, TypeOK
    <3> QED
      BY <3>1 DEF Insert
  <2>2. /\ p \in used /\ s \in used /\ heap[p].val < key[t] /\ key[t] < heap[s].val
        /\ key[t] \in Keys
    BY <2>1 DEF ListInv, TypeOK, Remembered, RememberedBy
  <2> HIDE DEF p, s, n
  <2>3. heap' = Inserted(n, key[t], p, s) /\ used' = used \cup {n}
    BY <1>2 DEF Return
  <2>4. /\ heap' \in [Nodes -> [val : Int, prev : Nodes, next : Nodes, mark : BOOLEAN]]
        /\ Sentinels' /\ Closed' /\ LinksAgree' /\ MarkedLeadOn'
    BY <1>2, <2>1, <2>2, <2>3, InsertKeepsLinks
  <2>5. \A x \in used : Inserted(n, key[t], p, s)[x].val = heap[x].val
    BY <2>1 DEF Inserted, ListInv, TypeOK
  <2>6. used \cup {n} \in SUBSET Nodes
    BY <2>1 DEF ListInv, TypeOK
  <2>7. /\ pc' \in [Threads -> Places] /\ key' \in [Threads -> Keys]
        /\ loc' \in [Threads -> [pred : Nodes, succ : Nodes, after : Nodes]]
        /\ Remembered'
    BY <1>2, <2>5, <2>6, ReturnRemembered
  <2> QED
    BY <2>3, <2>4, <2>6, <2>7 DEF ListInv, TypeOK
<1> QED
  BY <1>1, <1>2 DEF Insert

LEMMA EraseList ==
  ASSUME ListInv, NEW t \in Threads, Erase(t)
  PROVE  ListInv'
<1> DEFINE p == loc[t].pred
           s == loc[t].succ
           a == loc[t].after
<1>1. CASE Retry(t)
  BY <1>1, RetryList
<1>2. CASE /\ ~ heap[p].mark /\ ~ heap[s].mark /\ ~ heap[a].mark
           /\ heap[p].next = s /\ heap[a].prev = s
           /\ Return(t, TRUE, Erased(s, p, a), used)
  <2>1. /\ p \in used /\ s \in used /\ a \in used /\ key[t] \in Keys
        /\ heap[p].val < key[t] /\ heap[s].val = key[t] /\ key[t] < heap[a].val
    BY DEF Erase, ListInv, TypeOK, Remembered, RememberedBy
  <2> HIDE DEF p, s, a
  <2>2. heap' = Erased(s, p, a) /\ used' = used
    BY <1>2 DEF Return
  <2>3. /\ heap' \in [Nodes -> [val : Int, prev : Nodes, next : Nodes, mark : BOOLEAN]]
        /\ Sentinels' /\ Closed' /\ LinksAgree' /\ MarkedLeadOn'
    BY <1>2, <2>1, <2>2, EraseKeepsLinks
  <2>4. used \in SUBSET Nodes /\ \A x \in used : Erased(s, p, a)[x].val = heap[x].val
    BY DEF Erased, ListInv, TypeOK
  <2>5. /\ pc' \in [Threads -> Places] /\ key' \in [Threads -> Keys]
        /\ loc' \in [Threads -> [pred : Nodes, succ : Nodes, after : Nodes]]
        /\ Remembered'
    BY <1>2, <2>4, ReturnRemembered
  <2> QED
    BY <2>2, <2>3, <2>4, <2>5 DEF ListInv, TypeOK
<1> QED
  BY <1>1, <1>2 DEF Erase

LEMMA NextList == ListInv /\ [Next]_vars => ListInv'
<1> SUFFICES ASSUME ListInv, [Next]_vars PROVE ListInv'
  OBVIOUS
<1>1. CASE UNCHANGED vars
  BY <1>1 DEF vars, ListInv, TypeOK, Sentinels, Closed, LinksAgree, MarkedLeadOn,
              Remembered, RememberedBy
<1>2. CASE Next
  <2> SUFFICES ASSUME NEW t \in Threads, CallStep(t) \/ Step(t) PROVE ListInv'
    BY <1>2 DEF Next
  <2> QED
    BY CallList, SearchList, InsertList, ReadAfterList, EraseList DEF CallStep, Step
<1> QED
  BY <1>1, <1>2

-----------------------------------------------------------------------------
(* The invariant that makes LinksAgree inductive. *)
THEOREM ListInvariant == Spec => []ListInv
<1> QED
  BY InitList, NextList, PTL DEF Spec

(* The nodes that are not marked always form one sorted list: an erase that *)
(* races with an insert or another erase next to it never loses a node or   *)
(* leaves one linked to an erased node (doubly_linked_list_kcas.h:109-150). *)
THEOREM ListLinksAgree == Spec => []LinksAgree
<1>1. ListInv => LinksAgree
  BY DEF ListInv
<1> QED
  BY <1>1, ListInvariant, PTL

(* A search that stands on an erased node still comes nearer to the tail    *)
(* with every step (doubly_linked_list_kcas.h:76-93).                       *)
THEOREM SearchLeadsOn == Spec => []MarkedLeadOn
<1>1. ListInv => MarkedLeadOn
  BY DEF ListInv
<1> QED
  BY <1>1, ListInvariant, PTL

-----------------------------------------------------------------------------
(***************************************************************************)
(* LinkedList is a linearizable set.  What has to be shown is that a       *)
(* search may walk through nodes that were erased, some of them before it  *)
(* came to them: it never stands on a node that had left the list before   *)
(* its operation was called.                                               *)
(***************************************************************************)

(* Nodes between the sentinels hold keys; those of the list are different, *)
(* and none lies between a node and its next one.                          *)
ValuesAreKeys == \A n \in used \ {head, tail} : heap[n].val \in Keys

Dense ==
  /\ \A n, m \in used : ~ heap[n].mark /\ ~ heap[m].mark /\ heap[n].val = heap[m].val => n = m
  /\ \A n \in used \ {tail}, m \in used : ~ heap[n].mark /\ ~ heap[m].mark =>
       ~ (heap[n].val < heap[m].val /\ heap[m].val < heap[heap[n].next].val)

(* The locals agree with the label, and the history includes the present. *)
LocalsAgree ==
  /\ op \in [Threads -> {"none", "insert", "erase", "contains"}]
  /\ \A t \in Threads :
       /\ op[t] = "none" <=> pc[t] = "idle"
       /\ pc[t] = "insert" => op[t] = "insert"
       /\ pc[t] \in {"readAfter", "erase"} => op[t] = "erase"
       /\ pc[t] # "idle" => Elements \in seen[t]
  /\ seen \in [Threads -> SUBSET SUBSET Int]

(* S is the contents of a list in which n and the node after it are neighbours. *)
Neighbours(S, n) ==
  /\ heap[n].next # tail => heap[heap[n].next].val \in S
  /\ \A k \in S : ~ (heap[n].val < k /\ k < heap[heap[n].next].val)

(* F holds the nodes that were in the list at some moment since the call of *)
(* t.  Those that have left it did so when they had the next node that they *)
(* still have.                                                             *)
SinceCall(t, F) ==
  /\ F \subseteq used
  /\ \A n \in used : ~ heap[n].mark => n \in F
  /\ \A n \in F \ {tail} : heap[n].next \in F
  /\ \A n \in F : heap[n].mark => \E S \in seen[t] : Neighbours(S, n)
  /\ pc[t] = "search" => loc[t].succ \in F

(* A search never stands on a node that had left before its call. *)
OnFreshNode ==
  \A t \in Threads : pc[t] # "idle" => \E F \in SUBSET Nodes : SinceCall(t, F)

SetInv == ListInv /\ ValuesAreKeys /\ Dense /\ LocalsAgree /\ OnFreshNode

-----------------------------------------------------------------------------
(* What the list looks like around a node. *)
LEMMA Surroundings ==
  ASSUME ListInv, ValuesAreKeys
  PROVE  /\ \A n \in used : heap[n].val \in Int /\ (n # tail => heap[n].next \in used)
         /\ \A n \in used \ {head} : minKey - 1 < heap[n].val
         /\ \A n \in used \ {tail} : heap[n].val < maxKey + 1
         /\ heap[head].val = minKey - 1 /\ heap[tail].val = maxKey + 1
         /\ head \in used /\ tail \in used /\ head # tail
         /\ ~ heap[head].mark /\ ~ heap[tail].mark
BY ListAssumption DEF ListInv, TypeOK, Sentinels, Closed, ValuesAreKeys, Keys

LEMMA ElementsAreKeys == ASSUME ListInv, ValuesAreKeys PROVE Elements \in SUBSET Keys
BY DEF Elements, InList, ValuesAreKeys

(* A node of the list and the one after it are neighbours now. *)
LEMMA NeighboursNow ==
  ASSUME ListInv, ValuesAreKeys, Dense, NEW n \in used \ {tail}, ~ heap[n].mark
  PROVE  Neighbours(Elements, n)
<1> DEFINE s == heap[n].next
<1>1. /\ s \in used /\ ~ heap[s].mark /\ heap[n].val < heap[s].val
  BY DEF ListInv, LinksAgree
<1>2. s # head
  BY <1>1, Surroundings, ListAssumption
<1>3. s # tail => heap[s].val \in Elements
  BY <1>1, <1>2 DEF Elements, InList
<1>4. \A k \in Elements : ~ (heap[n].val < k /\ k < heap[s].val)
  BY DEF Dense, Elements, InList
<1> QED
  BY <1>3, <1>4 DEF Neighbours

(* The key of an operation whose search ends: the answer that the node it  *)
(* found gives was right at some moment since the call.                    *)
LEMMA SearchIsRight ==
  ASSUME SetInv, NEW t \in Threads, pc[t] = "search",
         LET s == heap[loc[t].succ].next IN heap[s].val >= key[t] \/ s = tail
  PROVE  \E S \in seen[t] : (key[t] \in S) = (heap[heap[loc[t].succ].next].val = key[t])
<1> DEFINE n == loc[t].succ
           s == heap[n].next
<1>1. PICK F \in SUBSET Nodes : SinceCall(t, F)
  BY DEF SetInv, OnFreshNode
<1>2. n \in F /\ n \in used /\ n # tail /\ heap[n].val < key[t] /\ key[t] \in Keys
  <2>1. n \in F /\ n \in used /\ heap[n].val < key[t]
    BY <1>1 DEF SinceCall, SetInv, ListInv, Remembered, RememberedBy
  <2> QED
    BY <2>1, BeforeTail DEF SetInv, ListInv, TypeOK
<1>3. \E S \in seen[t] : Neighbours(S, n)
  <2>1. CASE heap[n].mark
    BY <1>1, <1>2, <2>1 DEF SinceCall
  <2>2. CASE ~ heap[n].mark
    BY <1>2, <2>2, NeighboursNow DEF SetInv, LocalsAgree
  <2> QED
    BY <2>1, <2>2
<1>4. /\ s \in used /\ heap[s].val \in Int /\ key[t] \in Int /\ key[t] < maxKey + 1
      /\ heap[tail].val = maxKey + 1 /\ heap[n].val \in Int
  BY <1>2, Surroundings, ListAssumption DEF SetInv, Keys
<1>5. PICK S \in seen[t] : Neighbours(S, n)
  BY <1>3
<1>6. heap[s].val = key[t] => key[t] \in S
  BY <1>4, <1>5 DEF Neighbours
<1>7. heap[s].val # key[t] => key[t] < heap[s].val
  BY <1>4
<1>8. heap[s].val # key[t] => key[t] \notin S
  BY <1>2, <1>5, <1>7 DEF Neighbours
<1> QED
  BY <1>6, <1>8

-----------------------------------------------------------------------------
(* Steps that leave the nodes alone, and take no search to another node    *)
(* than those its operation may know.                                      *)
LEMMA SameNodesSet ==
  ASSUME SetInv, ListInv', LocalsAgree', UNCHANGED <<heap, used>>,
         \A t \in Threads : pc'[t] # "idle" =>
           /\ pc[t] # "idle" /\ seen[t] \subseteq seen'[t]
           /\ pc'[t] = "search" => \A F \in SUBSET Nodes : SinceCall(t, F) => loc'[t].succ \in F
  PROVE  SetInv'
<1>1. ValuesAreKeys' /\ Dense'
  BY DEF SetInv, ValuesAreKeys, Dense
<1>2. OnFreshNode'
  <2> SUFFICES ASSUME NEW t \in Threads, pc'[t] # "idle"
               PROVE  \E F \in SUBSET Nodes : SinceCall(t, F)'
    BY DEF OnFreshNode
  <2>1. PICK F \in SUBSET Nodes : SinceCall(t, F)
    BY DEF SetInv, OnFreshNode
  <2>2. SinceCall(t, F)'
    BY <2>1 DEF SinceCall, Neighbours
  <2> QED
    BY <2>2
<1> QED
  BY <1>1, <1>2 DEF SetInv

LEMMA CallSet ==
  ASSUME SetInv, NEW t \in Threads, NEW o \in {"insert", "erase", "contains"}, NEW k \in Keys,
         Call(t, o, k)
  PROVE  SetInv'
<1>1. /\ pc[t] = "idle" /\ pc' = [pc EXCEPT ![t] = "search"]
      /\ op' = [op EXCEPT ![t] = o] /\ seen' = [seen EXCEPT ![t] = {Elements}]
      /\ UNCHANGED <<heap, used, loc>>
  BY DEF Call, Goto
<1>2. ListInv'
  BY CallList DEF SetInv
<1>3. ValuesAreKeys' /\ Dense'
  BY <1>1 DEF SetInv, ValuesAreKeys, Dense
<1>4. Elements' = Elements /\ Elements \in SUBSET Int
  BY <1>1, ElementsAreKeys, ListAssumption DEF SetInv, Elements, InList, Keys
<1>5. /\ pc'[t] = "search" /\ op'[t] = o /\ seen'[t] = {Elements}
      /\ \A u \in Threads \ {t} : pc'[u] = pc[u] /\ op'[u] = op[u] /\ seen'[u] = seen[u]
  BY <1>1 DEF SetInv, ListInv, TypeOK, LocalsAgree
<1>6. LocalsAgree'
  <2>1. op' \in [Threads -> {"none", "insert", "erase", "contains"}]
        /\ seen' \in [Threads -> SUBSET SUBSET Int]
    BY <1>1, <1>4 DEF SetInv, LocalsAgree
  <2> QED
    BY <1>4, <1>5, <2>1 DEF SetInv, LocalsAgree
<1>7. OnFreshNode'
  <2> SUFFICES ASSUME NEW u \in Threads, pc'[u] # "idle"
               PROVE  \E F \in SUBSET Nodes : SinceCall(u, F)'
    BY DEF OnFreshNode
  <2>1. CASE u = t
    <3>1. PICK F \in SUBSET Nodes : F = {n \in used : ~ heap[n].mark}
      BY DEF SetInv, ListInv, TypeOK
    <3>2. \A n \in F \ {tail} : heap[n].next \in F
      BY <3>1 DEF SetInv, ListInv, LinksAgree
    <3>3. loc[t].succ = head /\ head \in F
      BY <1>1, <3>1 DEF SetInv, ListInv, Remembered, RememberedBy, NoLoc, Loc, Sentinels
    <3>4. SinceCall(u, F)'
      BY <1>1, <2>1, <3>1, <3>2, <3>3 DEF SinceCall
    <3> QED
      BY <3>4
  <2>2. CASE u # t
    <3>1. PICK F \in SUBSET Nodes : SinceCall(u, F)
      BY <1>5, <2>2 DEF SetInv, OnFreshNode
    <3>2. SinceCall(u, F)'
      BY <1>1, <1>5, <2>2, <3>1 DEF SinceCall, Neighbours
    <3> QED
      BY <3>2
  <2> QED
    BY <2>1, <2>2
<1> QED
  BY <1>2, <1>3, <1>6, <1>7 DEF SetInv

(* What a return does to the locals and to the history. *)
LEMMA ReturnLocals ==
  ASSUME SetInv, NEW t \in Threads, NEW r, NEW h, NEW U, Return(t, r, h, U),
         Elements' \in SUBSET Int
  PROVE  /\ LocalsAgree'
         /\ heap' = h /\ used' = U /\ pc'[t] = "idle"
         /\ \A u \in Threads \ {t} : pc'[u] = pc[u] /\ loc'[u] = loc[u]
         /\ \A u \in Threads \ {t} : pc[u] # "idle" => seen'[u] = seen[u] \cup {Elements'}
<1>1. /\ pc' = [pc EXCEPT ![t] = "idle"] /\ op' = [op EXCEPT ![t] = "none"]
      /\ loc' = [loc EXCEPT ![t] = NoLoc] /\ heap' = h /\ used' = U
  BY DEF Return, Goto
<1>2. seen' = [u \in Threads |-> IF u = t \/ pc[u] = "idle" THEN {} ELSE seen[u] \cup {Elements'}]
  BY <1>1 DEF Return, Elements, InList
<1>3. /\ pc'[t] = "idle" /\ op'[t] = "none" /\ seen'[t] = {}
      /\ \A u \in Threads \ {t} : pc'[u] = pc[u] /\ op'[u] = op[u] /\ loc'[u] = loc[u]
  BY <1>1, <1>2 DEF SetInv, ListInv, TypeOK, LocalsAgree
<1>4. \A u \in Threads \ {t} : pc[u] # "idle" => seen'[u] = seen[u] \cup {Elements'}
  BY <1>2
<1>5. op' \in [Threads -> {"none", "insert", "erase", "contains"}]
  BY <1>1 DEF SetInv, LocalsAgree
<1>6. seen' \in [Threads -> SUBSET SUBSET Int]
  BY <1>2 DEF SetInv, LocalsAgree
<1>7. LocalsAgree'
  BY <1>3, <1>4, <1>5, <1>6 DEF SetInv, LocalsAgree
<1> QED
  BY <1>1, <1>3, <1>4, <1>7

LEMMA QuietReturnSet ==
  ASSUME SetInv, NEW t \in Threads, NEW r, Return(t, r, heap, used)
  PROVE  SetInv'
<1>1. ListInv' /\ UNCHANGED <<heap, used>>
  BY QuietReturn DEF SetInv, Return
<1>2. Elements' = Elements /\ Elements \in SUBSET Int
  BY <1>1, ElementsAreKeys, ListAssumption DEF SetInv, Elements, InList, Keys
<1>3. /\ LocalsAgree' /\ pc'[t] = "idle"
      /\ \A u \in Threads \ {t} : pc'[u] = pc[u] /\ loc'[u] = loc[u]
      /\ \A u \in Threads \ {t} : pc[u] # "idle" => seen'[u] = seen[u] \cup {Elements'}
  BY <1>2, ReturnLocals
<1>4. \A u \in Threads : pc'[u] # "idle" =>
        /\ pc[u] # "idle" /\ seen[u] \subseteq seen'[u]
        /\ pc'[u] = "search" => \A F \in SUBSET Nodes : SinceCall(u, F) => loc'[u].succ \in F
  BY <1>3 DEF SinceCall
<1> QED
  BY <1>1, <1>3, <1>4, SameNodesSet

(* Steps inside an operation that read one node, or start the search again. *)
LEMMA InsideSet ==
  ASSUME SetInv, ListInv', NEW t \in Threads, pc[t] # "idle", NEW p \in Places \ {"idle"},
         UNCHANGED <<heap, used, op, seen>>, pc' = [pc EXCEPT ![t] = p],
         \A u \in Threads \ {t} : loc'[u] = loc[u],
         p = "insert" => op[t] = "insert",
         p \in {"readAfter", "erase"} => op[t] = "erase",
         p = "search" => \A F \in SUBSET Nodes : SinceCall(t, F) => loc'[t].succ \in F
  PROVE  SetInv'
<1>1. Elements' = Elements
  BY DEF Elements, InList
<1>2. pc'[t] = p /\ \A u \in Threads \ {t} : pc'[u] = pc[u]
  BY DEF SetInv, ListInv, TypeOK
<1>3. LocalsAgree'
  BY <1>1, <1>2 DEF SetInv, LocalsAgree
<1>4. \A u \in Threads : pc'[u] # "idle" =>
        /\ pc[u] # "idle" /\ seen[u] \subseteq seen'[u]
        /\ pc'[u] = "search" => \A F \in SUBSET Nodes : SinceCall(u, F) => loc'[u].succ \in F
  BY <1>2 DEF SinceCall
<1> QED
  BY <1>3, <1>4, SameNodesSet

LEMMA RetrySet ==
  ASSUME SetInv, NEW t \in Threads, pc[t] # "idle", Retry(t)
  PROVE  SetInv'
<1>1. /\ pc' = [pc EXCEPT ![t] = "search"] /\ loc' = [loc EXCEPT ![t] = NoLoc]
      /\ UNCHANGED <<heap, used, op, seen>>
  BY DEF Retry, Goto
<1>2. loc'[t] = NoLoc /\ \A u \in Threads \ {t} : loc'[u] = loc[u]
  BY <1>1 DEF SetInv, ListInv, TypeOK
<1>3. ListInv'
  BY RetryList DEF SetInv
<1>4. \A F \in SUBSET Nodes : SinceCall(t, F) => loc'[t].succ \in F
  BY <1>2 DEF SinceCall, NoLoc, Loc, SetInv, ListInv, Sentinels
<1> QED
  BY <1>1, <1>2, <1>3, <1>4, InsideSet DEF Places

LEMMA SearchSet ==
  ASSUME SetInv, NEW t \in Threads, Search(t)
  PROVE  SetInv'
<1> DEFINE s == heap[loc[t].succ].next
           here == [loc EXCEPT ![t] = Loc(loc[t].succ, s, loc[t].after)]
<1>1. pc[t] = "search" /\ ListInv'
  BY SearchList DEF Search, SetInv
<1>2. here[t].succ = s /\ \A u \in Threads \ {t} : here[u] = loc[u]
  BY DEF SetInv, ListInv, TypeOK, Loc
<1>3. \A F \in SUBSET Nodes : SinceCall(t, F) => s \in F
  <2>1. loc[t].succ \in used /\ heap[loc[t].succ].val < key[t]
    BY <1>1 DEF SetInv, ListInv, Remembered, RememberedBy
  <2>2. loc[t].succ # tail
    BY <2>1, BeforeTail DEF SetInv
  <2> QED
    BY <1>1, <2>2 DEF SinceCall
<1>4. CASE loc' = here /\ UNCHANGED <<heap, used, pc, op, seen>>
  <2>1. pc' = [pc EXCEPT ![t] = "search"]
    BY <1>1, <1>4 DEF SetInv, ListInv, TypeOK
  <2> QED
    BY <1>1, <1>2, <1>3, <1>4, <2>1, InsideSet DEF Places
<1>5. CASE \E r : Return(t, r, heap, used)
  BY <1>5, QuietReturnSet
<1>6. CASE /\ \/ op[t] = "insert" /\ pc' = [pc EXCEPT ![t] = "insert"]
              \/ op[t] = "erase" /\ pc' = [pc EXCEPT ![t] = "readAfter"]
           /\ loc' = here /\ UNCHANGED <<heap, used, op, seen>>
  BY <1>1, <1>2, <1>6, InsideSet DEF Places
<1> QED
  BY <1>4, <1>5, <1>6 DEF Search, Goto

LEMMA ReadAfterSet ==
  ASSUME SetInv, NEW t \in Threads, ReadAfter(t)
  PROVE  SetInv'
<1>1. /\ pc[t] = "readAfter" /\ pc' = [pc EXCEPT ![t] = "erase"]
      /\ UNCHANGED <<heap, used, op, seen>>
      /\ \A u \in Threads \ {t} : loc'[u] = loc[u]
  BY DEF ReadAfter, Goto, SetInv, ListInv, TypeOK
<1>2. op[t] = "erase"
  BY <1>1 DEF SetInv, LocalsAgree
<1>3. ListInv'
  BY ReadAfterList DEF SetInv
<1> QED
  BY <1>1, <1>2, <1>3, InsideSet DEF Places

-----------------------------------------------------------------------------
(* What the two k-CASes do to the nodes. *)
LEMMA InsertedNodes ==
  ASSUME ListInv, NEW p \in used, NEW s \in used, NEW n \in Nodes \ used, NEW k \in Keys,
         heap' = Inserted(n, k, p, s)
  PROVE  /\ heap'[n].val = k /\ heap'[n].next = s /\ ~ heap'[n].mark
         /\ \A x \in used : /\ heap'[x].val = heap[x].val
                            /\ heap'[x].mark = heap[x].mark
                            /\ heap'[x].next = IF x = p THEN n ELSE heap[x].next
BY DEF ListInv, TypeOK, Inserted, Node

LEMMA ErasedNodes ==
  ASSUME ListInv, NEW p \in used, NEW s \in used, NEW a \in used,
         heap' = Erased(s, p, a)
  PROVE  \A x \in used : /\ heap'[x].val = heap[x].val
                         /\ heap'[x].mark = (x = s \/ heap[x].mark)
                         /\ heap'[x].next = IF x = p THEN a ELSE heap[x].next
BY DEF ListInv, TypeOK, Erased

(* A k-CAS that adds nodes to the list, or marks nodes that have just been *)
(* next to the one they point to, leaves a search on a fresh node.         *)
LEMMA StillFresh ==
  ASSUME SetInv, NEW u \in Threads, pc[u] # "idle",
         pc'[u] = pc[u], loc'[u] = loc[u], seen[u] \subseteq seen'[u],
         used \subseteq used', used' \in SUBSET Nodes,
         \A x \in used : heap'[x].val = heap[x].val,
         \A x \in used : heap[x].mark => heap'[x].mark /\ heap'[x].next = heap[x].next,
         \A x \in used \ {tail} : \/ heap'[x].next = heap[x].next
                                  \/ heap'[x].next \in used' \ used
                                  \/ heap'[x].next \in used /\ ~ heap[heap'[x].next].mark,
         \A x \in used' \ used : /\ ~ heap'[x].mark
                                 /\ heap'[x].next \in used /\ ~ heap[heap'[x].next].mark,
         \A x \in used : heap'[x].mark /\ ~ heap[x].mark => \E S \in seen'[u] : Neighbours(S, x)'
  PROVE  \E F \in SUBSET Nodes : SinceCall(u, F)'
<1>1. PICK F \in SUBSET Nodes : SinceCall(u, F)
  BY DEF SetInv, OnFreshNode
<1> PICK G \in SUBSET Nodes : G = F \cup (used' \ used)
  OBVIOUS
<1>2. G \subseteq used'
  BY <1>1 DEF SinceCall
<1>3. \A n \in used' : ~ heap'[n].mark => n \in G
  BY <1>1 DEF SinceCall
<1>4. \A n \in G \ {tail} : heap'[n].next \in G
  BY <1>1 DEF SinceCall
<1>5. \A n \in G : heap'[n].mark => \E S \in seen'[u] : Neighbours(S, n)'
  <2> SUFFICES ASSUME NEW n \in G, heap'[n].mark
               PROVE  \E S \in seen'[u] : Neighbours(S, n)'
    OBVIOUS
  <2>1. n \in F /\ n \in used
    BY <1>1 DEF SinceCall
  <2>2. CASE heap[n].mark
    <3>1. PICK S \in seen[u] : Neighbours(S, n)
      BY <1>1, <2>1, <2>2 DEF SinceCall
    <3>2. n # tail
      BY <2>2 DEF SetInv, ListInv, Sentinels
    <3>3. heap[n].next \in used
      BY <2>1, <3>2, Surroundings DEF SetInv
    <3>4. Neighbours(S, n)'
      BY <2>1, <2>2, <3>1, <3>3 DEF Neighbours
    <3> QED
      BY <3>1, <3>4
  <2>3. CASE ~ heap[n].mark
    BY <2>1, <2>3
  <2> QED
    BY <2>2, <2>3
<1>6. pc'[u] = "search" => loc'[u].succ \in G
  BY <1>1 DEF SinceCall
<1>7. SinceCall(u, G)'
  BY <1>2, <1>3, <1>4, <1>5, <1>6 DEF SinceCall
<1> QED
  BY <1>7

(* The list after a new node n with key k is linked between p and s. *)
LEMMA InsertKeepsOrder ==
  ASSUME SetInv, NEW p \in used, NEW s \in used, NEW n \in Nodes \ used, NEW k \in Keys,
         ~ heap[p].mark, ~ heap[s].mark, heap[p].next = s,
         heap[p].val < k, k < heap[s].val,
         heap' = Inserted(n, k, p, s), used' = used \cup {n}
  PROVE  /\ ValuesAreKeys' /\ Dense'
         /\ Elements' = Elements \cup {k} /\ k \notin Elements
<1>1. /\ heap'[n].val = k /\ heap'[n].next = s /\ ~ heap'[n].mark
      /\ \A x \in used : /\ heap'[x].val = heap[x].val
                         /\ heap'[x].mark = heap[x].mark
                         /\ heap'[x].next = IF x = p THEN n ELSE heap[x].next
  BY InsertedNodes DEF SetInv
<1>2. /\ k \in Int /\ n # head /\ n # tail /\ p # tail
      /\ \A x \in used : heap[x].val \in Int
      /\ \A x \in used \ {tail} : heap[x].next \in used
  <2>1. k \in Int /\ k <= maxKey /\ heap[tail].val = maxKey + 1
    BY Surroundings, ListAssumption DEF SetInv, Keys
  <2> QED
    BY <2>1, Surroundings, ListAssumption DEF SetInv
<1>3. \A m \in used : ~ heap[m].mark => heap[m].val # k
  BY <1>2 DEF SetInv, Dense
<1>4. k \notin Elements
  BY <1>3 DEF Elements, InList
<1>5. InList' = InList \cup {n}
  BY <1>1, <1>2 DEF InList
<1>6. Elements' = Elements \cup {k}
  BY <1>1, <1>5 DEF Elements, InList
<1>7. ValuesAreKeys'
  BY <1>1 DEF SetInv, ValuesAreKeys
<1>8. Dense'
  <2>1. \A x, y \in used' : ~ heap'[x].mark /\ ~ heap'[y].mark /\ heap'[x].val = heap'[y].val => x = y
    BY <1>1, <1>3 DEF SetInv, Dense
  <2>2. ASSUME NEW x \in used' \ {tail}, NEW y \in used', ~ heap'[x].mark, ~ heap'[y].mark
        PROVE  ~ (heap'[x].val < heap'[y].val /\ heap'[y].val < heap'[heap'[x].next].val)
    <3>1. CASE x = n /\ y = n
      BY <3>1, <1>1, <1>2
    <3>2. CASE x = n /\ y \in used
      <4>1. ~ (heap[p].val < heap[y].val /\ heap[y].val < heap[s].val)
        BY <3>2, <2>2, <1>1, <1>2 DEF SetInv, Dense
      <4> QED
        BY <3>2, <4>1, <1>1, <1>2
    <3>3. CASE x = p /\ y = n
      BY <3>3, <1>1, <1>2
    <3>4. CASE x = p /\ y \in used
      <4>1. ~ (heap[p].val < heap[y].val /\ heap[y].val < heap[s].val)
        BY <3>4, <2>2, <1>1, <1>2 DEF SetInv, Dense
      <4> QED
        BY <3>4, <4>1, <1>1, <1>2
    <3>5. CASE x \in used \ {p} /\ y \in used
      BY <3>5, <2>2, <1>1, <1>2 DEF SetInv, Dense
    <3>6. CASE x \in used \ {p} /\ y = n
      <4> DEFINE z == heap[x].next
      <4>1. /\ heap'[x].val = heap[x].val /\ ~ heap[x].mark /\ z \in used
            /\ heap'[heap'[x].next].val = heap[z].val
        BY <3>6, <2>2, <1>1, <1>2
      <4>2. ~ heap[z].mark /\ heap[z].prev = x
        BY <3>6, <2>2, <4>1 DEF SetInv, ListInv, LinksAgree
      <4>3. ~ (heap[x].val < heap[p].val /\ heap[p].val < heap[z].val)
        BY <3>6, <2>2, <4>1 DEF SetInv, Dense
      <4>4. ~ (heap[p].val < heap[z].val /\ heap[z].val < heap[s].val)
        BY <1>2, <4>1, <4>2 DEF SetInv, Dense
      <4>5. heap[x].val # heap[p].val
        BY <3>6, <2>2, <4>1 DEF SetInv, Dense
      <4>6. heap[x].val < k /\ k < heap[z].val => FALSE
        <5>1. SUFFICES ASSUME heap[x].val < k, k < heap[z].val PROVE FALSE
          OBVIOUS
        <5>2. heap[p].val < heap[z].val /\ heap[s].val <= heap[z].val
          BY <5>1, <4>1, <4>4, <1>2
        <5>3. heap[p].val < heap[x].val
          BY <5>2, <4>1, <4>3, <4>5, <1>2, <3>6, <2>2
        <5>4. ~ (heap[p].val < heap[x].val /\ heap[x].val < heap[s].val)
          BY <3>6, <2>2, <4>1, <1>2 DEF SetInv, Dense
        <5> QED
          BY <5>1, <5>3, <5>4, <1>2, <3>6, <2>2
      <4> QED
        BY <3>6, <4>1, <4>6, <1>1
    <3> QED
      BY <3>1, <3>2, <3>3, <3>4, <3>5, <3>6, <2>2
  <2> QED
    BY <2>1, <2>2 DEF Dense
<1> QED
  BY <1>4, <1>6, <1>7, <1>8

(* The list after s, between p and a, is marked and unlinked. *)
LEMMA EraseKeepsOrder ==
  ASSUME SetInv, NEW p \in used, NEW s \in used, NEW a \in used, NEW k \in Keys,
         ~ heap[p].mark, ~ heap[s].mark, ~ heap[a].mark,
         heap[p].next = s, heap[s].next = a,
         heap[p].val < k, heap[s].val = k, k < heap[a].val,
         heap' = Erased(s, p, a), used' = used
  PROVE  /\ ValuesAreKeys' /\ Dense'
         /\ Elements' = Elements \ {k} /\ k \in Elements
<1>1. \A x \in used : /\ heap'[x].val = heap[x].val
                      /\ heap'[x].mark = (x = s \/ heap[x].mark)
                      /\ heap'[x].next = IF x = p THEN a ELSE heap[x].next
  BY ErasedNodes DEF SetInv
<1>2. /\ k \in Int /\ s # head /\ s # tail /\ p # tail /\ p # s /\ s # a
      /\ \A x \in used : heap[x].val \in Int
      /\ \A x \in used \ {tail} : heap[x].next \in used
  <2>1. k \in Int /\ k <= maxKey /\ minKey <= k
    BY ListAssumption DEF Keys
  <2>2. s # head /\ s # tail /\ p # tail
    BY <2>1, Surroundings, ListAssumption DEF SetInv
  <2>3. p # s /\ s # a
    BY <2>1
  <2> QED
    BY <2>1, <2>2, <2>3, Surroundings DEF SetInv
<1>3. InList' = InList \ {s} /\ s \in InList
  BY <1>1, <1>2 DEF InList
<1>4. \A m \in InList : heap[m].val = k => m = s
  BY DEF InList, SetInv, Dense
<1>5. Elements' = Elements \ {k} /\ k \in Elements
  <2>1. \A m \in InList : m \in used
    BY DEF InList
  <2>2. \A e : e \in Elements' <=> \E m \in InList' : e = heap[m].val
    BY <1>1, <1>3, <2>1 DEF Elements
  <2>3. \A e : e \in Elements <=> \E m \in InList : e = heap[m].val
    BY DEF Elements
  <2> QED
    BY <2>2, <2>3, <1>3, <1>4
<1>6. ValuesAreKeys'
  BY <1>1 DEF SetInv, ValuesAreKeys
<1>7. Dense'
  <2>1. ASSUME NEW x \in used', NEW y \in used', ~ heap'[x].mark, ~ heap'[y].mark,
               heap'[x].val = heap'[y].val
        PROVE  x = y
    <3>1. /\ x \in used /\ y \in used /\ ~ heap[x].mark /\ ~ heap[y].mark
          /\ heap[x].val = heap[y].val
      BY <2>1, <1>1
    <3> QED
      BY <3>1 DEF SetInv, Dense
  <2>2. ASSUME NEW x \in used' \ {tail}, NEW y \in used', ~ heap'[x].mark, ~ heap'[y].mark
        PROVE  ~ (heap'[x].val < heap'[y].val /\ heap'[y].val < heap'[heap'[x].next].val)
    <3>1. /\ x \in used \ {tail} /\ y \in used /\ ~ heap[x].mark /\ ~ heap[y].mark /\ y # s
          /\ heap'[x].val = heap[x].val /\ heap'[y].val = heap[y].val
      BY <2>2, <1>1
    <3>2. CASE x = p
      <4>1. ~ (heap[p].val < heap[y].val /\ heap[y].val < heap[s].val)
        BY <3>1, <1>2 DEF SetInv, Dense
      <4>2. ~ (heap[s].val < heap[y].val /\ heap[y].val < heap[a].val)
        BY <3>1, <1>2 DEF SetInv, Dense
      <4>3. heap[y].val # heap[s].val
        BY <3>1 DEF SetInv, Dense
      <4>4. heap'[heap'[x].next].val = heap[a].val
        BY <3>2, <1>1
      <4>5. ~ (heap[p].val < heap[y].val /\ heap[y].val < heap[a].val)
        BY <4>1, <4>2, <4>3, <3>1, <1>2
      <4> QED
        BY <3>1, <3>2, <4>4, <4>5
    <3>3. CASE x # p
      <4>1. heap'[heap'[x].next].val = heap[heap[x].next].val
        BY <3>1, <3>3, <1>1, <1>2
      <4> QED
        BY <3>1, <4>1 DEF SetInv, Dense
    <3> QED
      BY <3>2, <3>3
  <2> QED
    BY <2>1, <2>2 DEF Dense
<1> QED
  BY <1>5, <1>6, <1>7

LEMMA ErasedWasNeighbour ==
  ASSUME SetInv, NEW p \in used, NEW s \in used, NEW a \in used, NEW k \in Keys,
         ~ heap[s].mark, heap[s].next = a,
         heap[p].val < k, heap[s].val = k, k < heap[a].val,
         heap' = Erased(s, p, a), Elements' = Elements \ {k}
  PROVE  \A S : S = Elements' => Neighbours(S, s)'
<1>1. s # tail /\ s # p /\ s # a /\ k \in Int /\ heap[a].val \in Int
  BY Surroundings, ListAssumption DEF SetInv, Keys
<1>2. /\ a # tail => heap[a].val \in Elements
      /\ \A e \in Elements : ~ (heap[s].val < e /\ e < heap[a].val)
  BY <1>1, NeighboursNow DEF SetInv, Neighbours
<1>3. heap'[s].next = a /\ heap'[s].val = k /\ heap'[a].val = heap[a].val
  BY <1>1, ErasedNodes DEF SetInv
<1> QED
  BY <1>1, <1>2, <1>3 DEF Neighbours

LEMMA InsertSet ==
  ASSUME SetInv, NEW t \in Threads, Insert(t)
  PROVE  SetInv'
<1> DEFINE p == loc[t].pred
           s == loc[t].succ
           n == CHOOSE m \in Nodes : m \notin used
<1>1. pc[t] = "insert" /\ n \in Nodes \ used /\ ListInv'
  <2>1. used # Nodes /\ used \subseteq Nodes /\ pc[t] = "insert"
    BY DEF Insert, SetInv, ListInv, TypeOK
  <2> QED
    BY <2>1, InsertList DEF SetInv
<1>2. CASE Retry(t)
  BY <1>1, <1>2, RetrySet
<1>3. CASE /\ ~ heap[p].mark /\ ~ heap[s].mark /\ heap[p].next = s /\ heap[s].prev = p
           /\ Return(t, TRUE, Inserted(n, key[t], p, s), used \cup {n})
  <2>1. /\ p \in used /\ s \in used /\ heap[p].val < key[t] /\ key[t] < heap[s].val
        /\ key[t] \in Keys
    BY <1>1 DEF SetInv, ListInv, TypeOK, Remembered, RememberedBy
  <2> HIDE DEF p, s, n
  <2>2. heap' = Inserted(n, key[t], p, s) /\ used' = used \cup {n}
    BY <1>3 DEF Return
  <2>3. ValuesAreKeys' /\ Dense' /\ Elements' = Elements \cup {key[t]}
    BY <1>1, <1>3, <2>1, <2>2, InsertKeepsOrder
  <2>4. /\ LocalsAgree' /\ pc'[t] = "idle"
        /\ \A u \in Threads \ {t} : pc'[u] = pc[u] /\ loc'[u] = loc[u]
        /\ \A u \in Threads \ {t} : pc[u] # "idle" => seen'[u] = seen[u] \cup {Elements'}
    <3>1. Elements' \in SUBSET Int
      BY <2>1, <2>3, ElementsAreKeys, ListAssumption DEF SetInv, Keys
    <3> QED
      BY <1>3, <3>1, ReturnLocals
  <2>5. /\ ~ heap'[n].mark /\ heap'[n].next = s
        /\ \A x \in used : /\ heap'[x].val = heap[x].val
                           /\ heap'[x].mark = heap[x].mark
                           /\ heap'[x].next = IF x = p THEN n ELSE heap[x].next
    BY <1>1, <2>1, <2>2, InsertedNodes DEF SetInv
  <2>6. OnFreshNode'
    <3> SUFFICES ASSUME NEW u \in Threads, pc'[u] # "idle"
                 PROVE  \E F \in SUBSET Nodes : SinceCall(u, F)'
      BY DEF OnFreshNode
    <3>1. u # t /\ pc[u] # "idle" /\ pc'[u] = pc[u] /\ loc'[u] = loc[u] /\ seen[u] \subseteq seen'[u]
      BY <2>4
    <3>2. used \subseteq used' /\ used' \in SUBSET Nodes /\ used' \ used = {n}
      BY <1>1, <2>2 DEF SetInv, ListInv, TypeOK
    <3>3. \A x \in used \ {tail} : \/ heap'[x].next = heap[x].next
                                   \/ heap'[x].next \in used' \ used
                                   \/ heap'[x].next \in used /\ ~ heap[heap'[x].next].mark
      <4> SUFFICES ASSUME NEW x \in used \ {tail}
                   PROVE  \/ heap'[x].next = heap[x].next
                          \/ heap'[x].next \in used' \ used
                          \/ heap'[x].next \in used /\ ~ heap[heap'[x].next].mark
        OBVIOUS
      <4>1. CASE x # p
        BY <2>5, <4>1
      <4>2. CASE x = p
        BY <2>5, <3>2, <4>2
      <4> QED
        BY <4>1, <4>2
    <3>4. /\ \A x \in used : heap[x].mark => heap'[x].mark /\ heap'[x].next = heap[x].next
          /\ \A x \in used' \ used : /\ ~ heap'[x].mark
                                     /\ heap'[x].next \in used /\ ~ heap[heap'[x].next].mark
      BY <1>3, <2>1, <2>5, <3>2
    <3>5. \A x \in used : heap'[x].mark /\ ~ heap[x].mark => \E S \in seen'[u] : Neighbours(S, x)'
      BY <2>5
    <3> QED
      BY <2>5, <3>1, <3>2, <3>3, <3>4, <3>5, StillFresh
  <2> QED
    BY <1>1, <2>3, <2>4, <2>6 DEF SetInv
<1> QED
  BY <1>2, <1>3 DEF Insert

(* A k-CAS that erases s: it has just been between p and a. *)
LEMMA EraseFacts ==
  ASSUME SetInv, NEW t \in Threads, pc[t] = "erase",
         ~ heap[loc[t].after].mark, heap[loc[t].after].prev = loc[t].succ
  PROVE  /\ loc[t].pred \in used /\ loc[t].succ \in used /\ loc[t].after \in used
         /\ key[t] \in Keys /\ heap[loc[t].pred].val < key[t]
         /\ heap[loc[t].succ].val = key[t] /\ key[t] < heap[loc[t].after].val
         /\ heap[loc[t].succ].next = loc[t].after
<1>1. /\ loc[t].pred \in used /\ loc[t].succ \in used /\ loc[t].after \in used
      /\ key[t] \in Keys /\ heap[loc[t].pred].val < key[t]
      /\ heap[loc[t].succ].val = key[t] /\ key[t] < heap[loc[t].after].val
  BY DEF SetInv, ListInv, TypeOK, Remembered, RememberedBy
<1>2. loc[t].after # head
  BY <1>1, Surroundings, ListAssumption DEF SetInv, Keys
<1> QED
  BY <1>1, <1>2 DEF SetInv, ListInv, LinksAgree

LEMMA EraseSet ==
  ASSUME SetInv, NEW t \in Threads, Erase(t)
  PROVE  SetInv'
<1> DEFINE p == loc[t].pred
           s == loc[t].succ
           a == loc[t].after
<1>1. pc[t] = "erase" /\ ListInv'
  BY EraseList DEF SetInv, Erase
<1>2. CASE Retry(t)
  BY <1>1, <1>2, RetrySet
<1>3. CASE /\ ~ heap[p].mark /\ ~ heap[s].mark /\ ~ heap[a].mark
           /\ heap[p].next = s /\ heap[a].prev = s
           /\ Return(t, TRUE, Erased(s, p, a), used)
  <2>1. /\ p \in used /\ s \in used /\ a \in used /\ key[t] \in Keys
        /\ heap[p].val < key[t] /\ heap[s].val = key[t] /\ key[t] < heap[a].val
        /\ heap[s].next = a
    BY <1>1, <1>3, EraseFacts
  <2> HIDE DEF p, s, a
  <2>2. heap' = Erased(s, p, a) /\ used' = used
    BY <1>3 DEF Return
  <2>3. ValuesAreKeys' /\ Dense' /\ Elements' = Elements \ {key[t]}
    BY <1>3, <2>1, <2>2, EraseKeepsOrder
  <2>4. /\ LocalsAgree' /\ pc'[t] = "idle"
        /\ \A u \in Threads \ {t} : pc'[u] = pc[u] /\ loc'[u] = loc[u]
        /\ \A u \in Threads \ {t} : pc[u] # "idle" => seen'[u] = seen[u] \cup {Elements'}
    <3>1. Elements' \in SUBSET Int
      BY <2>1, <2>3, ElementsAreKeys, ListAssumption DEF SetInv, Keys
    <3> QED
      BY <1>3, <3>1, ReturnLocals
  <2>5. \A x \in used : /\ heap'[x].val = heap[x].val
                        /\ heap'[x].mark = (x = s \/ heap[x].mark)
                        /\ heap'[x].next = IF x = p THEN a ELSE heap[x].next
    BY <2>1, <2>2, ErasedNodes DEF SetInv
  <2>6. \A x, S : x = s /\ S = Elements' => Neighbours(S, x)'
    <3> SUFFICES ASSUME NEW x, x = s PROVE \A S : S = Elements' => Neighbours(S, x)'
      OBVIOUS
    <3>1. x \in used /\ ~ heap[x].mark /\ heap[x].next = a /\ heap[x].val = key[t] /\ heap' = Erased(x, p, a)
      BY <1>3, <2>1, <2>2
    <3> QED
      BY <2>1, <2>3, <3>1, ErasedWasNeighbour
  <2>7. OnFreshNode'
    <3> SUFFICES ASSUME NEW u \in Threads, pc'[u] # "idle"
                 PROVE  \E F \in SUBSET Nodes : SinceCall(u, F)'
      BY DEF OnFreshNode
    <3>1. /\ u # t /\ pc[u] # "idle" /\ pc'[u] = pc[u] /\ loc'[u] = loc[u]
          /\ seen[u] \subseteq seen'[u] /\ Elements' \in seen'[u]
      BY <2>4
    <3>2. used \subseteq used' /\ used' \in SUBSET Nodes /\ used' \ used = {}
      BY <2>2 DEF SetInv, ListInv, TypeOK
    <3>3. \A x \in used : heap'[x].mark /\ ~ heap[x].mark => \E S \in seen'[u] : Neighbours(S, x)'
      <4> SUFFICES ASSUME NEW x \in used, heap'[x].mark, ~ heap[x].mark
                   PROVE  \E S \in seen'[u] : Neighbours(S, x)'
        OBVIOUS
      <4>1. x = s
        BY <2>5
      <4>2. PICK S : S = Elements'
        OBVIOUS
      <4>3. Neighbours(S, x)'
        BY <2>6, <4>1, <4>2
      <4> QED
        BY <3>1, <4>2, <4>3
    <3>4. \A x \in used \ {tail} : \/ heap'[x].next = heap[x].next
                                   \/ heap'[x].next \in used' \ used
                                   \/ heap'[x].next \in used /\ ~ heap[heap'[x].next].mark
      <4> SUFFICES ASSUME NEW x \in used \ {tail}
                   PROVE  \/ heap'[x].next = heap[x].next
                          \/ heap'[x].next \in used' \ used
                          \/ heap'[x].next \in used /\ ~ heap[heap'[x].next].mark
        OBVIOUS
      <4>1. CASE x # p
        BY <2>5, <4>1
      <4>2. CASE x = p
        BY <1>3, <2>1, <2>5, <4>2
      <4> QED
        BY <4>1, <4>2
    <3>5. \A x \in used : heap[x].mark => heap'[x].mark /\ heap'[x].next = heap[x].next
      BY <1>3, <2>5
    <3> QED
      BY <2>5, <3>1, <3>2, <3>3, <3>4, <3>5, StillFresh
  <2> QED
    BY <1>1, <2>3, <2>4, <2>7 DEF SetInv
<1> QED
  BY <1>2, <1>3 DEF Erase

-----------------------------------------------------------------------------
LEMMA InitSet == Init => SetInv
<1> SUFFICES ASSUME Init PROVE SetInv
  OBVIOUS
<1>1. ListInv
  BY InitList
<1>2. ValuesAreKeys /\ Dense
  BY ListAssumption DEF Init, Node, ValuesAreKeys, Dense
<1>3. LocalsAgree /\ OnFreshNode
  BY DEF Init, Quiet, LocalsAgree, OnFreshNode
<1> QED
  BY <1>1, <1>2, <1>3 DEF SetInv

LEMMA NextSet == SetInv /\ [Next]_vars => SetInv'
<1> SUFFICES ASSUME SetInv, [Next]_vars PROVE SetInv'
  OBVIOUS
<1>1. CASE UNCHANGED vars
  <2>1. LocalsAgree'
    BY <1>1 DEF vars, SetInv, LocalsAgree, Elements, InList
  <2>2. ListInv'
    BY <1>1, NextList DEF SetInv
  <2>3. \A u \in Threads : pc'[u] # "idle" =>
          /\ pc[u] # "idle" /\ seen[u] \subseteq seen'[u]
          /\ pc'[u] = "search" => \A F \in SUBSET Nodes : SinceCall(u, F) => loc'[u].succ \in F
    BY <1>1 DEF vars, SinceCall
  <2> QED
    BY <1>1, <2>1, <2>2, <2>3, SameNodesSet DEF vars
<1>2. CASE Next
  <2> SUFFICES ASSUME NEW t \in Threads, CallStep(t) \/ Step(t) PROVE SetInv'
    BY <1>2 DEF Next
  <2> QED
    BY CallSet, SearchSet, InsertSet, ReadAfterSet, EraseSet DEF CallStep, Step
<1> QED
  BY <1>1, <1>2

(* The invariant that the search and the two k-CASes keep up together.     *)
THEOREM SetInvariant == Spec => []SetInv
<1> QED
  BY InitSet, NextSet, PTL DEF Spec

-----------------------------------------------------------------------------
(* Refinement: every step is one of the abstract set, or a stutter of it.  *)

LEMMA CallOf ==
  ASSUME SetInv, NEW t \in Threads
  PROVE  /\ absCall[t] = Abstract!Idle <=> pc[t] = "idle"
         /\ pc[t] # "idle" => absCall[t].op = op[t] /\ absCall[t].key = key[t]
<1>1. op[t] = "none" <=> pc[t] = "idle"
  BY DEF SetInv, LocalsAgree
<1> QED
  BY <1>1 DEF absCall, Abstract!Idle

LEMMA CallIsCall ==
  ASSUME SetInv, NEW t \in Threads, NEW o \in {"insert", "erase", "contains"}, NEW k \in Keys,
         Call(t, o, k)
  PROVE  Abstract!Call(t, o, k)
<1>1. /\ pc[t] = "idle" /\ pc' = [pc EXCEPT ![t] = "search"]
      /\ op' = [op EXCEPT ![t] = o] /\ key' = [key EXCEPT ![t] = k]
      /\ seen' = [seen EXCEPT ![t] = {Elements}]
      /\ UNCHANGED <<heap, used, result>>
  BY DEF Call, Goto
<1>2. absCall[t] = Abstract!Idle
  BY <1>1, CallOf
<1>3. /\ pc'[t] = "search" /\ op'[t] = o /\ key'[t] = k
      /\ \A u \in Threads \ {t} : pc'[u] = pc[u] /\ op'[u] = op[u] /\ key'[u] = key[u]
  BY <1>1 DEF SetInv, ListInv, TypeOK, LocalsAgree
<1>4. absCall' = [absCall EXCEPT ![t] = [op |-> o, key |-> k]]
  BY <1>3 DEF absCall
<1>5. Elements' = Elements
  BY <1>1 DEF Elements, InList
<1> QED
  BY <1>1, <1>2, <1>4, <1>5 DEF Abstract!Call

LEMMA ReturnIsReturn ==
  ASSUME SetInv, NEW t \in Threads, NEW r, NEW h, NEW U, Return(t, r, h, U)
  PROVE  Abstract!Return(t, r, Elements')
<1>1. /\ pc' = [pc EXCEPT ![t] = "idle"] /\ op' = [op EXCEPT ![t] = "none"]
      /\ key' = [key EXCEPT ![t] = minKey] /\ heap' = h /\ used' = U
      /\ result' = [result EXCEPT ![t] = r]
  BY DEF Return, Goto
<1>2. seen' = [u \in Threads |-> IF u = t \/ pc[u] = "idle" THEN {} ELSE seen[u] \cup {Elements'}]
  BY <1>1 DEF Return, Elements, InList
<1>3. \A u \in Threads : absCall[u] = Abstract!Idle <=> pc[u] = "idle"
  BY CallOf
<1>4. seen' = [u \in Threads |-> IF u = t \/ absCall[u] = Abstract!Idle
                                THEN {} ELSE seen[u] \cup {Elements'}]
  BY <1>2, <1>3
<1>5. /\ pc'[t] = "idle"
      /\ \A u \in Threads \ {t} : pc'[u] = pc[u] /\ op'[u] = op[u] /\ key'[u] = key[u]
  BY <1>1 DEF SetInv, ListInv, TypeOK, LocalsAgree
<1>6. absCall' = [absCall EXCEPT ![t] = Abstract!Idle]
  BY <1>5 DEF absCall, Abstract!Idle
<1> QED
  BY <1>1, <1>4, <1>6 DEF Abstract!Return

(* A search that ends its operation. *)
LEMMA SearchReturns ==
  ASSUME SetInv, NEW t \in Threads, NEW r \in BOOLEAN, pc[t] = "search",
         Return(t, r, heap, used),
         \/ op[t] = "contains" /\ \E S \in seen[t] : (key[t] \in S) = r
         \/ op[t] = "insert" /\ r = FALSE /\ \E S \in seen[t] : key[t] \in S
         \/ op[t] = "erase" /\ r = FALSE /\ \E S \in seen[t] : key[t] \notin S
  PROVE  Abstract!SetStep(t)
<1>1. Elements' = Elements
  BY DEF Return, Elements, InList
<1>2. Abstract!Return(t, r, Elements)
  BY <1>1, ReturnIsReturn
<1>3. absCall[t].op = op[t] /\ absCall[t].key = key[t]
  BY CallOf
<1>4. CASE op[t] = "contains" /\ \E S \in seen[t] : (key[t] \in S) = r
  <2>1. Abstract!Contains(t, r)
    BY <1>2, <1>3, <1>4 DEF Abstract!Contains
  <2> QED
    BY <2>1 DEF Abstract!SetStep
<1>5. CASE op[t] = "insert" /\ r = FALSE /\ \E S \in seen[t] : key[t] \in S
  <2>1. Abstract!InsertFails(t)
    BY <1>2, <1>3, <1>5 DEF Abstract!InsertFails
  <2> QED
    BY <2>1 DEF Abstract!SetStep
<1>6. CASE op[t] = "erase" /\ r = FALSE /\ \E S \in seen[t] : key[t] \notin S
  <2>1. Abstract!EraseFails(t)
    BY <1>2, <1>3, <1>6 DEF Abstract!EraseFails
  <2> QED
    BY <2>1 DEF Abstract!SetStep
<1> QED
  BY <1>4, <1>5, <1>6

LEMMA InsideStutters ==
  ASSUME SetInv, NEW t \in Threads, pc[t] # "idle", NEW p \in Places \ {"idle"},
         pc' = [pc EXCEPT ![t] = p], UNCHANGED <<heap, used, op, key, result, seen>>
  PROVE  UNCHANGED Abstract!setVars
<1>1. \A u \in Threads : pc'[u] = "idle" <=> pc[u] = "idle"
  BY DEF SetInv, ListInv, TypeOK
<1>2. absCall' = absCall
  BY <1>1 DEF absCall
<1> QED
  BY <1>2 DEF Abstract!setVars, Elements, InList

LEMMA RetryStutters ==
  ASSUME SetInv, NEW t \in Threads, pc[t] # "idle", Retry(t)
  PROVE  UNCHANGED Abstract!setVars
BY InsideStutters DEF Retry, Goto, Places

LEMMA SearchSimulates ==
  ASSUME SetInv, NEW t \in Threads, Search(t)
  PROVE  Abstract!SetStep(t) \/ UNCHANGED Abstract!setVars
<1> DEFINE s == heap[loc[t].succ].next
           v == heap[s].val
<1>1. pc[t] = "search"
  BY DEF Search
<1>2. CASE v < key[t] /\ UNCHANGED <<heap, used, pc, op, key, result, seen>>
  <2>1. pc' = [pc EXCEPT ![t] = "search"]
    BY <1>1, <1>2 DEF SetInv, ListInv, TypeOK
  <2> QED
    BY <1>1, <1>2, <2>1, InsideStutters DEF Places
<1>3. CASE /\ v >= key[t] \/ s = tail
           /\ \/ op[t] = "contains" /\ Return(t, v = key[t], heap, used)
              \/ op[t] = "insert" /\ v = key[t] /\ Return(t, FALSE, heap, used)
              \/ op[t] = "erase" /\ v # key[t] /\ Return(t, FALSE, heap, used)
  <2>1. PICK S \in seen[t] : (key[t] \in S) = (v = key[t])
    BY <1>1, <1>3, SearchIsRight
  <2>2. CASE op[t] = "contains" /\ Return(t, v = key[t], heap, used)
    BY <1>1, <2>1, <2>2, SearchReturns
  <2>3. CASE op[t] = "insert" /\ v = key[t] /\ Return(t, FALSE, heap, used)
    BY <1>1, <2>1, <2>3, SearchReturns
  <2>4. CASE op[t] = "erase" /\ v # key[t] /\ Return(t, FALSE, heap, used)
    BY <1>1, <2>1, <2>4, SearchReturns
  <2> QED
    BY <1>3, <2>2, <2>3, <2>4
<1>4. CASE /\ \/ pc' = [pc EXCEPT ![t] = "insert"]
              \/ pc' = [pc EXCEPT ![t] = "readAfter"]
           /\ UNCHANGED <<heap, used, op, key, result, seen>>
  BY <1>1, <1>4, InsideStutters DEF Places
<1> QED
  BY <1>2, <1>3, <1>4 DEF Search, Goto

LEMMA InsertSimulates ==
  ASSUME SetInv, NEW t \in Threads, Insert(t)
  PROVE  Abstract!SetStep(t) \/ UNCHANGED Abstract!setVars
<1> DEFINE p == loc[t].pred
           s == loc[t].succ
           n == CHOOSE m \in Nodes : m \notin used
<1>1. pc[t] = "insert" /\ op[t] = "insert" /\ n \in Nodes \ used
  <2>1. used # Nodes /\ used \subseteq Nodes /\ pc[t] = "insert"
    BY DEF Insert, SetInv, ListInv, TypeOK
  <2> QED
    BY <2>1 DEF SetInv, LocalsAgree
<1>2. CASE Retry(t)
  BY <1>1, <1>2, RetryStutters
<1>3. CASE /\ ~ heap[p].mark /\ ~ heap[s].mark /\ heap[p].next = s /\ heap[s].prev = p
           /\ Return(t, TRUE, Inserted(n, key[t], p, s), used \cup {n})
  <2>1. /\ p \in used /\ s \in used /\ heap[p].val < key[t] /\ key[t] < heap[s].val
        /\ key[t] \in Keys
    BY <1>1 DEF SetInv, ListInv, TypeOK, Remembered, RememberedBy
  <2> HIDE DEF p, s, n
  <2>2. heap' = Inserted(n, key[t], p, s) /\ used' = used \cup {n}
    BY <1>3 DEF Return
  <2>3. Elements' = Elements \cup {key[t]} /\ key[t] \notin Elements
    BY <1>1, <1>3, <2>1, <2>2, InsertKeepsOrder
  <2>4. Abstract!Return(t, TRUE, Elements \cup {key[t]})
    BY <1>3, <2>3, ReturnIsReturn
  <2>5. Abstract!Insert(t)
    BY <1>1, <2>3, <2>4, CallOf DEF Abstract!Insert
  <2> QED
    BY <2>5 DEF Abstract!SetStep
<1> QED
  BY <1>2, <1>3 DEF Insert

LEMMA EraseSimulates ==
  ASSUME SetInv, NEW t \in Threads, Erase(t)
  PROVE  Abstract!SetStep(t) \/ UNCHANGED Abstract!setVars
<1> DEFINE p == loc[t].pred
           s == loc[t].succ
           a == loc[t].after
<1>1. pc[t] = "erase" /\ op[t] = "erase"
  BY DEF Erase, SetInv, LocalsAgree
<1>2. CASE Retry(t)
  BY <1>1, <1>2, RetryStutters
<1>3. CASE /\ ~ heap[p].mark /\ ~ heap[s].mark /\ ~ heap[a].mark
           /\ heap[p].next = s /\ heap[a].prev = s
           /\ Return(t, TRUE, Erased(s, p, a), used)
  <2>1. /\ p \in used /\ s \in used /\ a \in used /\ key[t] \in Keys
        /\ heap[p].val < key[t] /\ heap[s].val = key[t] /\ key[t] < heap[a].val
        /\ heap[s].next = a
    BY <1>1, <1>3, EraseFacts
  <2> HIDE DEF p, s, a
  <2>2. heap' = Erased(s, p, a) /\ used' = used
    BY <1>3 DEF Return
  <2>3. Elements' = Elements \ {key[t]} /\ key[t] \in Elements
    BY <1>3, <2>1, <2>2, EraseKeepsOrder
  <2>4. Abstract!Return(t, TRUE, Elements \ {key[t]})
    BY <1>3, <2>3, ReturnIsReturn
  <2>5. Abstract!Erase(t)
    BY <1>1, <2>3, <2>4, CallOf DEF Abstract!Erase
  <2> QED
    BY <2>5 DEF Abstract!SetStep
<1> QED
  BY <1>2, <1>3 DEF Erase

LEMMA Simulation ==
  SetInv /\ [Next]_vars => [Abstract!SetNext]_(Abstract!setVars)
<1> SUFFICES ASSUME SetInv, [Next]_vars
             PROVE  Abstract!SetNext \/ UNCHANGED Abstract!setVars
  OBVIOUS
<1>1. CASE UNCHANGED vars
  BY <1>1 DEF vars, Abstract!setVars, Elements, InList, absCall
<1>2. ASSUME NEW t \in Threads, CallStep(t) \/ Step(t)
      PROVE  Abstract!SetStep(t) \/ UNCHANGED Abstract!setVars
  <2>1. CASE CallStep(t)
    BY <2>1, CallIsCall DEF CallStep, Abstract!SetStep
  <2>2. CASE ReadAfter(t)
    BY <2>2, InsideStutters DEF ReadAfter, Goto, Places
  <2> QED
    BY <1>2, <2>1, <2>2, SearchSimulates, InsertSimulates, EraseSimulates DEF Step
<1> QED
  BY <1>1, <1>2 DEF Next, Abstract!SetNext

(* The list is a linearizable set: an insert or an erase that changes it    *)
(* does so at its k-CAS, and every other answer was right at some moment    *)
(* since the call, though the search may have walked through erased nodes   *)
(* (doubly_linked_list_kcas.h:76-150).                                      *)
THEOREM Linearizable == Spec => ImplementsSet
<1>1. Init => Abstract!FilledInit
  <2> SUFFICES ASSUME Init PROVE Abstract!FilledInit
    OBVIOUS
  <2>1. Elements = {}
    BY DEF Init, Elements, InList
  <2>2. absCall = [t \in Threads |-> Abstract!Idle]
    BY DEF Init, Quiet, absCall, Abstract!Idle
  <2> QED
    BY <2>1, <2>2 DEF Init, Quiet, Abstract!FilledInit
<1> QED
  BY <1>1, SetInvariant, Simulation, PTL DEF Spec, ImplementsSet, Abstract!FilledSpec
=============================================================================
