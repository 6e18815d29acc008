--------------------------- MODULE Elided_proofs ---------------------------
(***************************************************************************)
(* Proofs about the two structures of assignment-7, for any threads, keys  *)
(* and retries: the external tree of ElidedTree under elided locks, then   *)
(* the hash table of ElidedTable (here Table), and what both say of the    *)
(* runs of MC_Elided.                                                      *)
(***************************************************************************)
EXTENDS MC_Elided, SumTheorems, FiniteSetTheorems, TLAPS

Fields == [key : Int, left : Nodes \cup {NULL}, right : Nodes \cup {NULL}]
Labels == {"idle", "begin", "search", "wait", "acquire", "lockedSearch", "free", "release"}
Places == [gp : Nodes \cup {NULL}, p : Nodes \cup {NULL}, n : Nodes]

TypeOK ==
  /\ heap \in [Nodes -> Fields] /\ used \subseteq Nodes /\ held \in BOOLEAN
  /\ pc \in [Threads -> Labels]
  /\ op \in [Threads -> {"none", "insert", "erase", "contains"}]
  /\ key \in [Threads -> Int] /\ loc \in [Threads -> Places]
  /\ reads \in [Threads -> SUBSET (Nodes \cup {gLock})]
  /\ retriesLeft \in [Threads -> Int] /\ left \in [Threads -> Nat]
  /\ result \in [Threads -> BOOLEAN] /\ seen \in [Threads -> SUBSET SUBSET Keys]

(* The nodes of the tree: those that an erase under the lock has taken out *)
(* of it, and has still to delete, do not count.                           *)
Pending == UNION {{loc[t].p, loc[t].n} : t \in {u \in Threads : pc[u] = "free"}}
Linked == used \ Pending

Internal(h, x) == h[x].left # NULL
Kids(h, x) == {h[x].left, h[x].right}
Toward(h, x, k) == IF k < h[x].key THEN h[x].left ELSE h[x].right

(* The nodes of the constructor stay in their places: the right child of   *)
(* the root is the leaf high, or a node with that leaf at its right.       *)
Frame(h, L) ==
  /\ {root, low, high} \subseteq L
  /\ h[low] = createLeaf(minKey - 1) /\ h[high] = createLeaf(maxKey + 1)
  /\ h[root].key = minKey - 1 /\ h[root].left = low
  /\ \/ h[root].right = high
     \/ LET x == h[root].right
        IN Internal(h, x) /\ h[x].key = maxKey + 1 /\ h[x].right = high

(* A node has two children, and one parent, but for the root. *)
Children(h, L) ==
  \A x \in L : Internal(h, x) =>
    /\ Kids(h, x) \subseteq L \ {root} /\ h[x].left # h[x].right
    /\ \A y \in L : Internal(h, y) /\ Kids(h, x) \cap Kids(h, y) # {} => x = y

(* There is no cycle. *)
Ranked(h, L) ==
  \E rank \in [Nodes -> Nat] :
    \A x \in L : Internal(h, x) => \A c \in Kids(h, x) : rank[x] < rank[c]

Shape(h, L) == Frame(h, L) /\ Children(h, L) /\ Ranked(h, L)

(* The places of a search are a node, its parent and its grandparent. *)
OnPath(h, L, l, k) ==
  /\ l.n \in L
  /\ l.p = NULL => l.n = root /\ l.gp = NULL
  /\ l.p # NULL => /\ l.p \in L /\ Internal(h, l.p) /\ l.n = Toward(h, l.p, k)
                   /\ l.gp = NULL => l.p = root
  /\ l.gp # NULL => l.gp \in L /\ Internal(h, l.gp) /\ l.p = Toward(h, l.gp, k)

(* A transaction has read the nodes above its place, up to the root. *)
Footprint(h, L, l, R) ==
  /\ gLock \in R /\ {l.p, l.gp} \ {NULL} \subseteq R
  /\ \A x \in R \ {gLock} :
       /\ x \in L /\ Internal(h, x)
       /\ x # root => \E y \in R \ {gLock} : x \in Kids(h, y)

Holds(t) == pc[t] \in {"lockedSearch", "free", "release"}

LockOK ==
  /\ held <=> \E t \in Threads : Holds(t)
  /\ \A t, u \in Threads : Holds(t) /\ Holds(u) => t = u
  /\ held => \A t \in Threads : pc[t] # "search"

SearchOK(t) ==
  /\ pc[t] \in {"begin", "search", "wait", "acquire", "lockedSearch"} => key[t] \in Keys
  /\ pc[t] \in {"search", "lockedSearch"} => OnPath(heap, Linked, loc[t], key[t])
  /\ pc[t] = "search" => Footprint(heap, Linked, loc[t], reads[t])
  /\ pc[t] # "search" => reads[t] = {}

IInv ==
  /\ TypeOK /\ Shape(heap, Linked) /\ LockOK
  /\ \A t \in Threads : SearchOK(t)

-----------------------------------------------------------------------------
Heaps == [Nodes -> Fields]

(* Grown and Shrunk of a heap h: leaf n under node p, key k, new nodes a   *)
(* and b; leaf n under p under q.                                          *)
Replaced(h, x, was, c) ==
  IF h[x].left = was THEN [h[x] EXCEPT !.left = c] ELSE [h[x] EXCEPT !.right = c]

Grow(h, p, n, k, a, b) ==
  [h EXCEPT ![a] = createLeaf(k),
            ![b] = IF k < h[n].key THEN createInternal(h[n].key, a, n)
                   ELSE createInternal(k, n, a),
            ![p] = Replaced(h, p, n, b)]

Shrink(h, q, p, n) ==
  [h EXCEPT ![q] = Replaced(h, q, p, IF h[p].left = n THEN h[p].right ELSE h[p].left)]

LEMMA Leaves ==
  ASSUME NEW k \in Int
  PROVE  /\ createLeaf(k) \in Fields /\ createLeaf(k).left = NULL /\ createLeaf(k).right = NULL
         /\ createLeaf(k).key = k
BY DEF createLeaf, createInternal, Fields

LEMMA Internals ==
  ASSUME NEW k \in Int, NEW l \in Nodes, NEW r \in Nodes
  PROVE  /\ createInternal(k, l, r) \in Fields
         /\ createInternal(k, l, r).left = l /\ createInternal(k, l, r).right = r
         /\ createInternal(k, l, r).key = k
         /\ l # NULL /\ r # NULL
BY TreeAssumption DEF createInternal, Fields

(* Where the constructor's nodes are, and what a search sees of them. *)
LEMMA FrameFacts ==
  ASSUME NEW h \in Heaps, NEW L \in SUBSET Nodes, Shape(h, L)
  PROVE  /\ root \in L /\ low \in L /\ high \in L
         /\ ~ Internal(h, low) /\ ~ Internal(h, high) /\ Internal(h, root)
         /\ h[low].key = minKey - 1 /\ h[high].key = maxKey + 1
         /\ \A k \in Keys : Toward(h, root, k) = h[root].right
         /\ \A k \in Keys : h[root].right # high => Toward(h, h[root].right, k) = h[h[root].right].left
         /\ h[root].right \in L \ {root, low}
         /\ \A x \in L : Internal(h, x) => x # low /\ x # high /\ h[x].left \in L /\ h[x].right \in L
<1>1. Frame(h, L) /\ Children(h, L)
  BY DEF Shape
<1>2. /\ root \in L /\ low \in L /\ high \in L
      /\ h[low].left = NULL /\ h[low].key = minKey - 1
      /\ h[high].left = NULL /\ h[high].key = maxKey + 1
      /\ h[root].left = low /\ low # NULL /\ h[root].key = minKey - 1
  BY <1>1, Leaves, TreeAssumption DEF Frame
<1>3. Internal(h, root) /\ ~ Internal(h, low) /\ ~ Internal(h, high)
  BY <1>2 DEF Internal
<1>4. h[root].right \in L \ {root, low}
  BY <1>1, <1>2, <1>3 DEF Children, Kids
<1>5. \A k \in Keys : Toward(h, root, k) = h[root].right
  BY <1>2, TreeAssumption DEF Toward, Keys
<1>6. \A k \in Keys : h[root].right # high => Toward(h, h[root].right, k) = h[h[root].right].left
  BY <1>1, TreeAssumption DEF Frame, Toward, Keys
<1>7. \A x \in L : Internal(h, x) => x # low /\ x # high /\ h[x].left \in L /\ h[x].right \in L
  BY <1>1, <1>3 DEF Children, Kids
<1> QED
  BY <1>2, <1>3, <1>4, <1>5, <1>6, <1>7

LEMMA TowardIsKid ==
  ASSUME NEW h, NEW x, NEW k
  PROVE  Toward(h, x, k) \in Kids(h, x)
BY DEF Toward, Kids

(* One parent. *)
LEMMA OneParent ==
  ASSUME NEW h, NEW L, Children(h, L), NEW x \in L, NEW y \in L, NEW c,
         Internal(h, x), Internal(h, y), c \in Kids(h, x), c \in Kids(h, y)
  PROVE  x = y
BY DEF Children

(* A parent is not among the descendants of its child. *)
LEMMA NoCycle ==
  ASSUME NEW h \in Heaps, NEW L \in SUBSET Nodes, Shape(h, L), NEW x \in L, Internal(h, x),
         NEW c \in Kids(h, x)
  PROVE  c # x /\ c \in L /\ (Internal(h, c) => x \notin Kids(h, c))
<1>1. PICK rank \in [Nodes -> Nat] :
        \A y \in L : Internal(h, y) => \A d \in Kids(h, y) : rank[y] < rank[d]
  BY DEF Shape, Ranked
<1>2. c \in L
  BY DEF Shape, Children
<1>3. rank[x] < rank[c] /\ rank[x] \in Nat /\ rank[c] \in Nat
  BY <1>1, <1>2
<1>4. c # x
  BY <1>3
<1>5. ASSUME Internal(h, c), x \in Kids(h, c) PROVE FALSE
  <2>1. rank[c] < rank[x]
    BY <1>1, <1>2, <1>5
  <2> QED
    BY <1>3, <2>1
<1> QED
  BY <1>2, <1>4, <1>5

LEMMA ReplacedIs ==
  ASSUME NEW h \in Heaps, NEW x \in Nodes, NEW was, NEW c \in Nodes,
         was \in Kids(h, x), h[x].left # h[x].right,
         NEW f, f = Replaced(h, x, was, c)
  PROVE  /\ f \in Fields /\ f.key = h[x].key
         /\ h[x].left = was => f.left = c /\ f.right = h[x].right
         /\ h[x].right = was => f.right = c /\ f.left = h[x].left
<1>1. h[x] \in Fields
  BY DEF Heaps
<1> QED
  BY <1>1 DEF Fields, Kids, Replaced

-----------------------------------------------------------------------------
(* An insert puts a new node b, with a new leaf a, in the place of leaf n. *)
LEMMA GrownShape ==
  ASSUME NEW h \in Heaps, NEW L \in SUBSET Nodes, Shape(h, L), NEW k \in Keys,
         NEW p \in L, NEW n \in L, Internal(h, p), n = Toward(h, p, k), ~ Internal(h, n),
         NEW a \in Nodes \ L, NEW b \in Nodes \ L, a # b,
         NEW g, g = Grow(h, p, n, k, a, b)
  PROVE  g \in Heaps /\ Shape(g, L \cup {a, b})
<1> DEFINE M == L \cup {a, b}
           leaf == createLeaf(k)
           node == IF k < h[n].key THEN createInternal(h[n].key, a, n)
                   ELSE createInternal(k, n, a)
           top == Replaced(h, p, n, b)
<1>1. /\ Frame(h, L) /\ Children(h, L) /\ k \in Int /\ n \in Kids(h, p) /\ h[n].key \in Int
  BY TowardIsKid, TreeAssumption DEF Shape, Heaps, Fields, Keys
<1>2. /\ p # n /\ p # a /\ p # b /\ n # a /\ n # b
      /\ n # root /\ h[p].left # h[p].right
  BY <1>1, NoCycle DEF Children
<1>3. leaf \in Fields /\ leaf.left = NULL
  BY <1>1, Leaves
<1>4. /\ node \in Fields /\ node.left # NULL /\ {node.left, node.right} = {a, n}
      /\ node.left # node.right
      /\ k < h[n].key => node.key = h[n].key /\ node.left = a /\ node.right = n
  BY <1>1, <1>2, Internals
<1>5. /\ top \in Fields /\ top.key = h[p].key
      /\ h[p].left = n => top.left = b /\ top.right = h[p].right
      /\ h[p].right = n => top.right = b /\ top.left = h[p].left
  BY <1>1, <1>2, ReplacedIs
<1>0. g = [h EXCEPT ![a] = leaf, ![b] = node, ![p] = top]
  BY Zenon DEF Grow
<1> HIDE DEF leaf, node, top
<1>6. /\ g \in Heaps /\ g[a] = leaf /\ g[b] = node /\ g[p] = top
      /\ \A x \in L \ {p} : g[x] = h[x]
  BY <1>0, <1>2, <1>3, <1>4, <1>5 DEF Heaps
<1>7. /\ ~ Internal(g, a) /\ Internal(g, b) /\ Internal(g, p)
      /\ Kids(g, b) = {a, n} /\ Kids(g, p) = (Kids(h, p) \ {n}) \cup {b}
      /\ \A x \in L \ {p} : (Internal(g, x) <=> Internal(h, x)) /\ Kids(g, x) = Kids(h, x)
  <2>1. /\ ~ Internal(g, a) /\ Internal(g, b) /\ Kids(g, b) = {a, n}
    BY <1>3, <1>4, <1>6 DEF Internal, Kids
  <2>2. Internal(g, p) /\ Kids(g, p) = (Kids(h, p) \ {n}) \cup {b}
    <3>1. b # NULL /\ h[p].left # NULL /\ (n = h[p].left \/ n = h[p].right)
      BY <1>1, TreeAssumption DEF Internal, Kids
    <3>2. CASE h[p].left = n
      <4>1. g[p].left = b /\ g[p].right = h[p].right /\ h[p].right # n
        BY <1>2, <1>5, <1>6, <3>2
      <4> QED
        BY <3>1, <3>2, <4>1 DEF Internal, Kids
    <3>3. CASE h[p].right = n
      <4>1. g[p].right = b /\ g[p].left = h[p].left /\ h[p].left # n
        BY <1>2, <1>5, <1>6, <3>3
      <4> QED
        BY <3>1, <3>3, <4>1 DEF Internal, Kids
    <3> QED
      BY <3>1, <3>2, <3>3
  <2>3. \A x \in L \ {p} : (Internal(g, x) <=> Internal(h, x)) /\ Kids(g, x) = Kids(h, x)
    BY <1>6 DEF Internal, Kids
  <2> QED
    BY <2>1, <2>2, <2>3
<1> HIDE DEF M
<1>8. Frame(g, M)
  <2>1. /\ root \in L /\ low \in L /\ high \in L
        /\ p # low /\ p # high
        /\ Toward(h, root, k) = h[root].right
        /\ h[root].right # high => Toward(h, h[root].right, k) = h[h[root].right].left
        /\ h[root].right \in L \ {root, low} /\ h[high].key = maxKey + 1
        /\ ~ Internal(h, high)
    BY FrameFacts
  <2>2. {root, low, high} \subseteq M /\ g[low] = h[low] /\ g[high] = h[high]
    BY <1>6, <2>1 DEF M
  <2>3. g[root].key = minKey - 1 /\ g[root].left = low
    <3>1. CASE p = root
      BY <1>1, <1>2, <1>5, <1>6, <2>1, <3>1 DEF Frame
    <3>2. CASE p # root
      BY <1>1, <1>6, <2>1, <3>2 DEF Frame
    <3> QED
      BY <3>1, <3>2
  <2>4. \/ g[root].right = high
        \/ /\ Internal(g, g[root].right) /\ g[g[root].right].key = maxKey + 1
           /\ g[g[root].right].right = high
    <3>1. CASE p = root
      <4>1. n = h[root].right /\ n = high
        BY <1>1, <2>1, <3>1 DEF Frame
      <4>2. g[root].right = b /\ k < h[n].key
        <5>1. k < maxKey + 1 /\ low # high
          BY TreeAssumption DEF Keys
        <5>2. h[p].left = low /\ h[p].right = n /\ h[p].left # n
          BY <1>1, <3>1, <4>1, <5>1 DEF Frame
        <5> QED
          BY <1>5, <1>6, <2>1, <3>1, <4>1, <5>1, <5>2
      <4> QED
        BY <1>4, <1>6, <1>7, <2>1, <4>1, <4>2
    <3>2. CASE p # root /\ h[root].right = high
      BY <1>6, <2>1, <3>2
    <3>3. CASE p # root /\ h[root].right # high /\ p = h[root].right
      <4>1. g[root].right = p /\ n = h[p].left /\ h[p].right = high /\ h[p].key = maxKey + 1
        BY <1>1, <1>6, <2>1, <3>3 DEF Frame
      <4> QED
        BY <1>5, <1>6, <1>7, <4>1
    <3>4. CASE p # root /\ h[root].right # high /\ p # h[root].right
      BY <1>1, <1>6, <1>7, <2>1, <3>4 DEF Frame
    <3> QED
      BY <3>1, <3>2, <3>3, <3>4
  <2> QED
    BY <1>1, <2>2, <2>3, <2>4 DEF Frame
<1>9. Children(g, M)
  <2>1. ASSUME NEW x \in M, Internal(g, x)
        PROVE  Kids(g, x) \subseteq M \ {root} /\ g[x].left # g[x].right
    <3>1. CASE x = b
      <4>1. a # root /\ n # root /\ n \in M /\ a \in M
        BY <1>2, FrameFacts DEF M
      <4>2. Kids(g, x) = {a, n} /\ g[x].left # g[x].right
        BY <1>4, <1>6, <1>7, <3>1
      <4> QED
        BY <4>1, <4>2
    <3>2. CASE x = p
      <4>1. Kids(h, p) \subseteq L \ {root} /\ b # root
        BY <1>1, FrameFacts DEF Children
      <4>2. h[p].left \in L /\ h[p].right \in L
        BY <4>1 DEF Kids
      <4> QED
        <5>1. Kids(g, p) \subseteq M \ {root}
          BY <1>7, <4>1 DEF M
        <5>2. g[p].left # g[p].right
          BY <1>1, <1>2, <1>5, <1>6, <4>2 DEF Kids
        <5> QED
          BY <3>2, <5>1, <5>2
    <3>3. CASE x \in L \ {p}
      BY <1>1, <1>6, <1>7, <2>1, <3>3 DEF Children, M
    <3> QED
      BY <1>7, <2>1, <3>1, <3>2, <3>3 DEF M
  <2>2. ASSUME NEW x \in L, Internal(h, x), NEW c \in Kids(h, x)
        PROVE  c \in L /\ c # a /\ c # b /\ (c = n => x = p)
    <3>1. c \in L
      BY <1>1, <2>2 DEF Children
    <3>2. c = n => x = p
      BY <1>1, <2>2, OneParent
    <3> QED
      BY <3>1, <3>2
  <2>3. ASSUME NEW x \in M, NEW y \in M, Internal(g, x), Internal(g, y),
               NEW c, c \in Kids(g, x), c \in Kids(g, y)
        PROVE  x = y
    <3>1. /\ x \in L => Internal(h, x) /\ (x # p => c \in Kids(h, x))
          /\ y \in L => Internal(h, y) /\ (y # p => c \in Kids(h, y))
          /\ (x = b \/ x \in L) /\ (y = b \/ y \in L)
      BY <1>7, <2>3 DEF M
    <3>2. CASE x = b /\ y # b
      <4>1. c \in {a, n} /\ y \in L /\ Internal(h, y)
        BY <1>7, <2>3, <3>1, <3>2
      <4>2. CASE y = p
        BY <1>2, <1>7, <2>2, <2>3, <4>1, <4>2
      <4>3. CASE y # p
        BY <2>2, <3>1, <4>1, <4>3
      <4> QED
        BY <4>2, <4>3
    <3>3. CASE y = b /\ x # b
      <4>1. c \in {a, n} /\ x \in L /\ Internal(h, x)
        BY <1>7, <2>3, <3>1, <3>3
      <4>2. CASE x = p
        BY <1>2, <1>7, <2>2, <2>3, <4>1, <4>2
      <4>3. CASE x # p
        BY <2>2, <3>1, <4>1, <4>3
      <4> QED
        BY <4>2, <4>3
    <3>4. CASE x \in L /\ y \in L
      <4>1. CASE x = p /\ y # p
        BY <1>1, <1>7, <2>2, <2>3, <3>1, <3>4, <4>1, OneParent
      <4>2. CASE y = p /\ x # p
        BY <1>1, <1>7, <2>2, <2>3, <3>1, <3>4, <4>2, OneParent
      <4>3. CASE x # p /\ y # p
        BY <1>1, <3>1, <3>4, <4>3, OneParent
      <4> QED
        BY <4>1, <4>2, <4>3
    <3> QED
      BY <3>1, <3>2, <3>3, <3>4
  <2> QED
    BY <2>1, <2>3 DEF Children
<1>10. Ranked(g, M)
  <2>1. PICK rank \in [Nodes -> Nat] :
          \A x \in L : Internal(h, x) => \A c \in Kids(h, x) : rank[x] < rank[c]
    BY DEF Shape, Ranked
  <2> DEFINE new == [x \in Nodes |-> IF x = a THEN 2 * rank[n]
                                     ELSE IF x = b THEN 2 * rank[n] - 1 ELSE 2 * rank[x]]
  <2>2. rank[p] < rank[n] /\ rank[p] \in Nat /\ rank[n] \in Nat
    BY <1>1, <2>1
  <2>3. new \in [Nodes -> Nat]
    BY <2>1, <2>2
  <2>4. /\ new[a] = 2 * rank[n] /\ new[b] = 2 * rank[n] - 1
        /\ \A x \in L : new[x] = 2 * rank[x] /\ rank[x] \in Nat
    BY <2>1
  <2> HIDE DEF new
  <2>5. ASSUME NEW x \in M, Internal(g, x), NEW c \in Kids(g, x)
        PROVE  new[x] < new[c]
    <3>1. CASE x = b
      <4>1. (c = a \/ c = n) /\ new[n] = 2 * rank[n] /\ rank[n] \in Nat
        BY <1>7, <2>4, <2>5, <3>1
      <4>2. new[x] = 2 * rank[n] - 1 /\ new[c] = 2 * rank[n]
        BY <2>4, <3>1, <4>1
      <4> QED
        BY <4>1, <4>2
    <3>2. CASE x = p
      <4>1. CASE c = b
        BY <2>2, <2>4, <3>2, <4>1
      <4>2. CASE c \in Kids(h, p)
        <5>1. c \in L /\ rank[p] < rank[c]
          BY <1>1, <2>1, <4>2 DEF Children
        <5> QED
          BY <2>2, <2>4, <3>2, <5>1
      <4> QED
        BY <1>7, <2>5, <3>2, <4>1, <4>2
    <3>3. CASE x \in L \ {p}
      <4>1. Internal(h, x) /\ c \in Kids(h, x)
        BY <1>7, <2>5, <3>3
      <4>2. c \in L /\ rank[x] < rank[c]
        BY <1>1, <2>1, <3>3, <4>1 DEF Children
      <4> QED
        BY <2>4, <3>3, <4>2
    <3> QED
      BY <1>7, <2>5, <3>1, <3>2, <3>3 DEF M
  <2> QED
    BY <2>3, <2>5 DEF Ranked
<1> QED
  BY <1>6, <1>8, <1>9, <1>10 DEF Shape, M

-----------------------------------------------------------------------------
(* An erase puts the sibling of leaf n in the place of its parent p; both  *)
(* leave the tree.                                                         *)
LEMMA ErasePlace ==
  ASSUME NEW h \in Heaps, NEW L \in SUBSET Nodes, Shape(h, L), NEW k \in Keys,
         NEW q \in L, NEW p \in L, NEW n \in L,
         Internal(h, q), Internal(h, p), p = Toward(h, q, k), n = Toward(h, p, k),
         ~ Internal(h, n), h[n].key = k
  PROVE  /\ p \in Kids(h, q) /\ n \in Kids(h, p) /\ p # n /\ q # n /\ q # p
         /\ p \notin {root, low, high} /\ n \notin {root, low, high}
<1>1. p \in Kids(h, q) /\ n \in Kids(h, p) /\ Children(h, L)
  BY TowardIsKid DEF Shape
<1>2. /\ ~ Internal(h, low) /\ ~ Internal(h, high) /\ Internal(h, root)
      /\ h[low].key = minKey - 1 /\ h[high].key = maxKey + 1
  BY FrameFacts
<1>3. k # minKey - 1 /\ k # maxKey + 1
  BY TreeAssumption DEF Keys
<1>4. p # root /\ n # root /\ p \notin {low, high} /\ n \notin {low, high}
  BY <1>1, <1>2, <1>3 DEF Children
<1>5. q # p /\ q # n /\ p # n
  BY <1>1, NoCycle
<1> QED
  BY <1>1, <1>4, <1>5

LEMMA ShrunkShape ==
  ASSUME NEW h \in Heaps, NEW L \in SUBSET Nodes, Shape(h, L), NEW k \in Keys,
         NEW q \in L, NEW p \in L, NEW n \in L,
         Internal(h, q), Internal(h, p), p = Toward(h, q, k), n = Toward(h, p, k),
         ~ Internal(h, n), h[n].key = k,
         NEW g, g = Shrink(h, q, p, n)
  PROVE  g \in Heaps /\ Shape(g, L \ {p, n})
<1> DEFINE M == L \ {p, n}
           s == IF h[p].left = n THEN h[p].right ELSE h[p].left
           top == Replaced(h, q, p, s)
<1>1. /\ Frame(h, L) /\ Children(h, L) /\ p \in Kids(h, q) /\ n \in Kids(h, p)
      /\ p # n /\ q # n /\ q # p
      /\ p \notin {root, low, high} /\ n \notin {root, low, high}
  BY ErasePlace DEF Shape
<1>2. /\ h[q].left # h[q].right /\ h[p].left # h[p].right
      /\ Kids(h, p) \subseteq L \ {root} /\ Kids(h, q) \subseteq L \ {root}
  BY <1>1 DEF Children
<1>3. s \in Kids(h, p) /\ s # n /\ s # root /\ s \in L
  BY <1>1, <1>2 DEF Kids
<1>0. (n = h[p].left /\ s = h[p].right) \/ (n = h[p].right /\ s = h[p].left)
  BY <1>1, <1>2 DEF Kids
<1> HIDE DEF s
<1>4. s # p /\ s # q /\ s \notin Kids(h, q)
  <2>1. s # p /\ q \notin Kids(h, p)
    BY <1>1, <1>3, NoCycle
  <2>2. s \notin Kids(h, q)
    BY <1>1, <1>3, OneParent
  <2> QED
    BY <1>3, <2>1, <2>2
<1>5. /\ top \in Fields /\ top.key = h[q].key
      /\ h[q].left = p => top.left = s /\ top.right = h[q].right
      /\ h[q].right = p => top.right = s /\ top.left = h[q].left
  BY <1>1, <1>2, <1>3, ReplacedIs
<1>12. g = [h EXCEPT ![q] = top]
  BY Zenon DEF Shrink, s
<1> HIDE DEF top
<1>6. g \in Heaps /\ g[q] = top /\ \A x \in L \ {q} : g[x] = h[x]
  BY <1>5, <1>12 DEF Heaps
<1>7. /\ Internal(g, q) /\ Kids(g, q) = (Kids(h, q) \ {p}) \cup {s}
      /\ g[q].left # g[q].right
      /\ \A x \in L \ {q} : (Internal(g, x) <=> Internal(h, x)) /\ Kids(g, x) = Kids(h, x)
  <2>1. Internal(g, q) /\ Kids(g, q) = (Kids(h, q) \ {p}) \cup {s} /\ g[q].left # g[q].right
    <3>1. s # NULL /\ h[q].left # NULL /\ (p = h[q].left \/ p = h[q].right)
      BY <1>1, <1>3, TreeAssumption DEF Internal, Kids
    <3>2. CASE h[q].left = p
      <4>1. g[q].left = s /\ g[q].right = h[q].right /\ h[q].right # p /\ s # h[q].right
        BY <1>2, <1>4, <1>5, <1>6, <3>2 DEF Kids
      <4> QED
        BY <3>1, <3>2, <4>1 DEF Internal, Kids
    <3>3. CASE h[q].right = p
      <4>1. g[q].right = s /\ g[q].left = h[q].left /\ h[q].left # p /\ s # h[q].left
        BY <1>2, <1>4, <1>5, <1>6, <3>3 DEF Kids
      <4> QED
        BY <3>1, <3>3, <4>1 DEF Internal, Kids
    <3> QED
      BY <3>1, <3>2, <3>3
  <2>2. \A x \in L \ {q} : (Internal(g, x) <=> Internal(h, x)) /\ Kids(g, x) = Kids(h, x)
    BY <1>6 DEF Internal, Kids
  <2> QED
    BY <2>1, <2>2
<1> HIDE DEF M
<1>8. Frame(g, M)
  <2>1. /\ root \in L /\ low \in L /\ high \in L /\ root # low /\ root # high
        /\ q # low /\ q # high
        /\ Toward(h, root, k) = h[root].right
        /\ h[root].right # high => Toward(h, h[root].right, k) = h[h[root].right].left
        /\ h[root].right \in L \ {root, low}
    BY FrameFacts, TreeAssumption
  <2>2. {root, low, high} \subseteq M /\ g[low] = h[low] /\ g[high] = h[high]
    BY <1>1, <1>6, <2>1 DEF M
  <2>3. h[root].key = minKey - 1 /\ h[root].left = low
    BY <1>1 DEF Frame
  <2>4. g[root].key = minKey - 1 /\ g[root].left = low
    <3>1. CASE q = root
      BY <1>1, <1>5, <1>6, <2>1, <2>3, <3>1
    <3>2. CASE q # root
      BY <1>6, <2>1, <2>3, <3>2
    <3> QED
      BY <3>1, <3>2
  <2>5. \/ g[root].right = high
        \/ /\ Internal(g, g[root].right) /\ g[g[root].right].key = maxKey + 1
           /\ g[g[root].right].right = high
    <3>1. CASE q = root
      <4>1. p = h[root].right /\ p # high
        BY <1>1, <2>1, <3>1
      <4>2. n = h[p].left /\ h[p].right = high
        BY <1>1, <2>1, <4>1 DEF Frame
      <4>3. s = high
        BY <1>0, <1>2, <4>2
      <4>4. g[root].right = s
        BY <1>5, <1>6, <3>1, <4>1
      <4> QED
        BY <4>3, <4>4
    <3>2. CASE q # root /\ h[root].right = high
      BY <1>6, <2>1, <3>2
    <3>3. CASE q # root /\ h[root].right # high /\ q = h[root].right
      <4>1. g[root].right = q /\ p = h[q].left /\ h[q].right = high /\ h[q].key = maxKey + 1
        BY <1>1, <1>6, <2>1, <3>3 DEF Frame
      <4> QED
        BY <1>5, <1>6, <1>7, <4>1
    <3>4. CASE q # root /\ h[root].right # high /\ q # h[root].right
      BY <1>1, <1>6, <1>7, <2>1, <3>4 DEF Frame
    <3> QED
      BY <3>1, <3>2, <3>3, <3>4
  <2> QED
    BY <1>1, <2>2, <2>4, <2>5 DEF Frame
<1>9. ASSUME NEW x \in M, Internal(g, x), NEW c \in Kids(g, x)
      PROVE  /\ x \in L /\ x # p /\ Internal(h, x)
             /\ c \in M \ {root}
             /\ c \in Kids(h, x) \/ (x = q /\ c = s)
  <2>1. x \in L /\ x # p /\ x # n
    BY DEF M
  <2>2. Internal(h, x) /\ (c \in Kids(h, x) \/ (x = q /\ c = s))
    BY <1>7, <1>9, <2>1
  <2>3. c # p
    <3>1. CASE x = q
      BY <1>4, <1>7, <1>9, <3>1
    <3>2. CASE x # q
      BY <1>1, <2>1, <2>2, <3>2, OneParent
    <3> QED
      BY <3>1, <3>2
  <2>4. c # n
    BY <1>1, <1>3, <2>1, <2>2, OneParent
  <2>5. c \in L \ {root}
    BY <1>1, <1>3, <2>1, <2>2 DEF Children
  <2> QED
    BY <2>1, <2>2, <2>3, <2>4, <2>5 DEF M
<1>10. Children(g, M)
  <2>1. ASSUME NEW x \in M, Internal(g, x)
        PROVE  Kids(g, x) \subseteq M \ {root} /\ g[x].left # g[x].right
    <3>1. Kids(g, x) \subseteq M \ {root}
      BY <1>9, <2>1
    <3>2. x \in L
      BY DEF M
    <3>3. g[x].left # g[x].right
      <4>1. CASE x = q
        BY <1>7, <4>1
      <4>2. CASE x # q
        <5>1. g[x] = h[x] /\ Internal(h, x)
          BY <1>6, <1>7, <2>1, <3>2, <4>2
        <5> QED
          BY <1>1, <3>2, <5>1 DEF Children
      <4> QED
        BY <4>1, <4>2
    <3> QED
      BY <3>1, <3>3
  <2>2. ASSUME NEW x \in M, NEW y \in M, Internal(g, x), Internal(g, y),
               NEW c, c \in Kids(g, x), c \in Kids(g, y)
        PROVE  x = y
    <3>1. /\ x \in L /\ x # p /\ Internal(h, x) /\ (c \in Kids(h, x) \/ (x = q /\ c = s))
          /\ y \in L /\ y # p /\ Internal(h, y) /\ (c \in Kids(h, y) \/ (y = q /\ c = s))
      BY <1>9, <2>2
    <3>2. CASE c = s
      <4>1. ASSUME NEW z \in L, Internal(h, z), z # p PROVE s \notin Kids(h, z)
        BY <1>1, <1>3, <4>1, OneParent
      <4> QED
        BY <3>1, <3>2, <4>1
    <3>3. CASE c # s
      BY <1>1, <3>1, <3>3, OneParent
    <3> QED
      BY <3>2, <3>3
  <2> QED
    BY <2>1, <2>2 DEF Children
<1>11. Ranked(g, M)
  <2>1. PICK rank \in [Nodes -> Nat] :
          \A x \in L : Internal(h, x) => \A c \in Kids(h, x) : rank[x] < rank[c]
    BY DEF Shape, Ranked
  <2>2. ASSUME NEW x \in M, Internal(g, x), NEW c \in Kids(g, x)
        PROVE  rank[x] < rank[c]
    <3>1. /\ x \in L /\ Internal(h, x) /\ (c \in Kids(h, x) \/ (x = q /\ c = s))
      BY <1>9, <2>2
    <3>2. CASE x = q /\ c = s
      <4>1. rank[q] < rank[p] /\ rank[p] < rank[s]
        BY <1>1, <1>3, <2>1
      <4>2. rank[q] \in Nat /\ rank[p] \in Nat /\ rank[s] \in Nat
        BY <1>3
      <4> QED
        BY <3>2, <4>1, <4>2
    <3> QED
      BY <2>1, <3>1, <3>2
  <2> QED
    BY <2>2 DEF Ranked
<1> QED
  BY <1>6, <1>8, <1>10, <1>11 DEF Shape, M

-----------------------------------------------------------------------------
(* What a transaction has read stays above its place as long as nobody     *)
(* writes to it.                                                           *)
LEMMA SearchKept ==
  ASSUME NEW h, NEW L \in SUBSET Nodes, NEW g, NEW M, NEW l, NEW k, NEW R,
         OnPath(h, L, l, k), Footprint(h, L, l, R),
         \A x \in R \ {gLock} : g[x] = h[x] /\ x \in M, l.n \in M
  PROVE  OnPath(g, M, l, k) /\ Footprint(g, M, l, R)
<1>1. \A x \in R \ {gLock} : /\ Internal(g, x) <=> Internal(h, x)
                             /\ Kids(g, x) = Kids(h, x) /\ Toward(g, x, k) = Toward(h, x, k)
  BY DEF Internal, Kids, Toward
<1>2. /\ l.p # NULL => l.p \in R \ {gLock}
      /\ l.gp # NULL => l.gp \in R \ {gLock}
  BY TreeAssumption DEF OnPath, Footprint
<1>3. OnPath(g, M, l, k)
  BY <1>1, <1>2 DEF OnPath
<1>4. Footprint(g, M, l, R)
  BY <1>1 DEF Footprint
<1> QED
  BY <1>3, <1>4

(* A transaction that reaches a node that an erase takes out of the tree   *)
(* has read the node the erase writes to.                                  *)
LEMMA ReadsNotErased ==
  ASSUME NEW h \in Heaps, NEW L \in SUBSET Nodes, Shape(h, L), NEW k \in Keys,
         NEW q \in L, NEW p \in L, NEW n \in L,
         Internal(h, q), Internal(h, p), p = Toward(h, q, k), n = Toward(h, p, k),
         ~ Internal(h, n), h[n].key = k,
         NEW l, NEW j, NEW R, OnPath(h, L, l, j), Footprint(h, L, l, R), q \notin R
  PROVE  l.n \notin {p, n} /\ \A x \in R \ {gLock} : x \in L \ {p, n}
<1>1. /\ Children(h, L) /\ p \in Kids(h, q) /\ n \in Kids(h, p) /\ p # root /\ n # root
  BY ErasePlace DEF Shape
<1>2. p \notin R
  <2> SUFFICES ASSUME p \in R PROVE FALSE
    OBVIOUS
  <2>1. p \in R \ {gLock}
    BY TreeAssumption
  <2>2. PICK y \in R \ {gLock} : p \in Kids(h, y)
    BY <1>1, <2>1 DEF Footprint
  <2>3. y \in L /\ Internal(h, y)
    BY <2>2 DEF Footprint
  <2>4. y = q
    BY <1>1, <2>2, <2>3, OneParent
  <2> QED
    BY <2>2, <2>4
<1>3. \A x \in R \ {gLock} : x \in L \ {p, n}
  BY <1>2 DEF Footprint
<1>4. l.n \notin {p, n}
  <2>1. CASE l.p = NULL
    BY <1>1, <2>1 DEF OnPath
  <2>2. CASE l.p # NULL
    <3>1. l.p \in L /\ Internal(h, l.p) /\ l.n \in Kids(h, l.p) /\ l.p \in R
      BY <2>2, TowardIsKid DEF OnPath, Footprint
    <3>2. l.n = p => l.p = q
      BY <1>1, <3>1, OneParent
    <3>3. l.n = n => l.p = p
      BY <1>1, <3>1, OneParent
    <3> QED
      BY <1>2, <3>1, <3>2, <3>3
  <2> QED
    BY <2>1, <2>2
<1> QED
  BY <1>3, <1>4

(* What a step of thread t does to itself, and to another thread. *)
LEMMA GotoSelf ==
  ASSUME TypeOK, NEW t \in Threads, NEW p \in Labels, NEW R \in SUBSET (Nodes \cup {gLock}),
         NEW W, Goto(t, p, R, W)
  PROVE  /\ pc' \in [Threads -> Labels] /\ reads' \in [Threads -> SUBSET (Nodes \cup {gLock})]
         /\ pc'[t] = p /\ reads'[t] = R
BY DEF TypeOK, Goto, Labels

LEMMA GotoOther ==
  ASSUME NEW t \in Threads, NEW p, NEW R, NEW W, Goto(t, p, R, W),
         NEW u \in Threads, u # t, SearchOK(u)
  PROVE  \/ pc'[u] = pc[u] /\ reads'[u] = reads[u] /\ reads[u] \cap W = {}
         \/ /\ pc[u] = "search" /\ pc'[u] = "wait" /\ reads'[u] = {} /\ reads[u] \cap W # {}
BY DEF Goto, Killed, SearchOK

(* The lock while no step takes or releases it. *)
LEMMA LockKept ==
  ASSUME IInv, NEW t \in Threads, NEW p, NEW R, NEW W, Goto(t, p, R, W),
         pc'[t] = p, held' = held, Holds(t)' <=> Holds(t), p = "search" => ~ held
  PROVE  LockOK'
<1>1. \A u \in Threads : Holds(u)' <=> Holds(u)
  <2> SUFFICES ASSUME NEW u \in Threads, u # t PROVE Holds(u)' <=> Holds(u)
    OBVIOUS
  <2> QED
    BY GotoOther DEF IInv, Holds
<1>2. \A u \in Threads : pc'[u] = "search" => pc[u] = "search" \/ ~ held
  <2> SUFFICES ASSUME NEW u \in Threads, u # t, pc'[u] = "search" PROVE pc[u] = "search"
    OBVIOUS
  <2> QED
    BY GotoOther DEF IInv
<1> QED
  BY <1>1, <1>2 DEF IInv, LockOK

(* A step that changes nothing in the tree. *)
LEMMA OthersSearchOn ==
  ASSUME IInv, NEW t \in Threads, NEW p, NEW R, NEW W, Goto(t, p, R, W),
         heap' = heap, Linked' = Linked,
         NEW u \in Threads, u # t, loc'[u] = loc[u], key'[u] = key[u]
  PROVE  SearchOK(u)'
<1>1. SearchOK(u)
  BY DEF IInv
<1> QED
  BY <1>1, GotoOther DEF SearchOK

LEMMA SameLinked ==
  ASSUME IInv, NEW t \in Threads, NEW p, NEW R, NEW W, Goto(t, p, R, W), pc'[t] = p,
         used' = used, pc[t] # "free", p # "free",
         \A u \in Threads \ {t} : loc'[u] = loc[u]
  PROVE  Linked' = Linked
<1>1. \A u \in Threads : /\ pc'[u] = "free" <=> pc[u] = "free"
                         /\ pc[u] = "free" => loc'[u] = loc[u]
  <2> SUFFICES ASSUME NEW u \in Threads, u # t
               PROVE  (pc'[u] = "free" <=> pc[u] = "free") /\ loc'[u] = loc[u]
    OBVIOUS
  <2> QED
    BY GotoOther DEF IInv
<1>2. Pending' = Pending
  BY <1>1 DEF Pending
<1> QED
  BY <1>2 DEF Linked

(* Nothing is being deleted while somebody is about to change the tree. *)
LEMMA NothingPending ==
  ASSUME IInv, NEW t \in Threads, pc[t] \in {"search", "lockedSearch"}
  PROVE  /\ \A u \in Threads : pc[u] # "free"
         /\ \A u \in Threads : pc[u] = "lockedSearch" => u = t
         /\ Linked = used
<1>1. \A u \in Threads : pc[u] # "free" /\ (pc[u] = "lockedSearch" => u = t)
  BY DEF IInv, LockOK, Holds
<1>2. Pending = {}
  BY <1>1 DEF Pending
<1> QED
  BY <1>1, <1>2 DEF Linked

-----------------------------------------------------------------------------
LEMMA NoLocPlace == NoLoc \in Places /\ NoLoc.n = root /\ NoLoc.p = NULL /\ NoLoc.gp = NULL
BY TreeAssumption DEF NoLoc, Places

(* A search starts at the root. *)
LEMMA AtRoot ==
  ASSUME NEW h, NEW L, root \in L, NEW k
  PROVE  OnPath(h, L, NoLoc, k) /\ Footprint(h, L, NoLoc, {gLock})
BY NoLocPlace DEF OnPath, Footprint

LEMMA ShapeNow == ASSUME IInv PROVE heap \in Heaps /\ Linked \in SUBSET Nodes /\ Shape(heap, Linked)
BY DEF IInv, TypeOK, Heaps, Linked

(* A step of thread t that changes neither the tree nor the lock. *)
LEMMA LocalStep ==
  ASSUME IInv, NEW t \in Threads, NEW p \in Labels, NEW R \in SUBSET (Nodes \cup {gLock}),
         NEW W, Goto(t, p, R, W), TypeOK', heap' = heap, used' = used, held' = held,
         pc[t] # "free", p # "free", Holds(t)' <=> Holds(t), p = "search" => ~ held,
         \A u \in Threads \ {t} : loc'[u] = loc[u] /\ key'[u] = key[u],
         SearchOK(t)' \/ (p \in {"idle", "release"} /\ R = {})
  PROVE  IInv'
<1>1. pc'[t] = p /\ reads'[t] = R
  BY GotoSelf DEF IInv
<1>2. Linked' = Linked
  BY <1>1, SameLinked
<1>3. Shape(heap, Linked)'
  BY <1>2, ShapeNow
<1>4. LockOK'
  BY <1>1, LockKept
<1>5. SearchOK(t)'
  BY <1>1 DEF SearchOK
<1>6. \A u \in Threads \ {t} : SearchOK(u)'
  BY <1>2, OthersSearchOn
<1> QED
  BY <1>3, <1>4, <1>5, <1>6 DEF IInv

LEMMA CallKeeps ==
  ASSUME IInv, NEW t \in Threads, NEW o \in {"insert", "erase", "contains"}, NEW k \in Keys,
         Call(t, o, k)
  PROVE  IInv'
<1>1. TypeOK /\ pc[t] = "idle" /\ Goto(t, "begin", {}, {}) /\ "begin" \in Labels
      /\ heap' = heap /\ used' = used /\ held' = held /\ loc' = loc /\ result' = result
      /\ op' = [op EXCEPT ![t] = o] /\ key' = [key EXCEPT ![t] = k]
      /\ left' = [left EXCEPT ![t] = @ - 1] /\ left[t] > 0
      /\ retriesLeft' = [retriesLeft EXCEPT ![t] = MAX_RETRIES]
      /\ seen' = [seen EXCEPT ![t] = {Elements}]
  BY DEF Call, IInv, Labels
<1>2. /\ pc' \in [Threads -> Labels] /\ reads' \in [Threads -> SUBSET (Nodes \cup {gLock})]
      /\ pc'[t] = "begin" /\ reads'[t] = {}
  BY <1>1, GotoSelf
<1>3. TypeOK'
  <2>1. k \in Int /\ MAX_RETRIES \in Int /\ Elements \in SUBSET Keys
    BY TreeAssumption DEF Keys, Elements, ElementsOf
  <2>2. left' \in [Threads -> Nat]
    BY <1>1 DEF TypeOK
  <2> QED
    BY <1>1, <1>2, <2>1, <2>2 DEF TypeOK
<1>4. SearchOK(t)' /\ (Holds(t)' <=> Holds(t))
  <2>1. key'[t] = k
    BY <1>1 DEF TypeOK
  <2> QED
    BY <1>1, <1>2, <2>1 DEF SearchOK, Holds
<1>5. \A u \in Threads \ {t} : loc'[u] = loc[u] /\ key'[u] = key[u]
  BY <1>1 DEF TypeOK
<1> QED
  BY <1>1, <1>3, <1>4, <1>5, LocalStep

LEMMA BeginKeeps == ASSUME IInv, NEW t \in Threads, Begin(t) PROVE IInv'
<1>1. /\ TypeOK /\ pc[t] = "begin" /\ key[t] \in Keys
      /\ heap' = heap /\ used' = used /\ held' = held /\ UNCHANGED opVars
      /\ loc' = [loc EXCEPT ![t] = NoLoc]
  BY DEF Begin, IInv, SearchOK
<1>2. loc' \in [Threads -> Places] /\ loc'[t] = NoLoc
      /\ \A u \in Threads \ {t} : loc'[u] = loc[u] /\ key'[u] = key[u]
  BY <1>1, NoLocPlace DEF TypeOK, opVars
<1>3. root \in Linked
  BY ShapeNow, FrameFacts
<1>4. CASE ~ held /\ Goto(t, "search", {gLock}, {})
  <2>1. /\ pc' \in [Threads -> Labels] /\ reads' \in [Threads -> SUBSET (Nodes \cup {gLock})]
        /\ pc'[t] = "search" /\ reads'[t] = {gLock}
    BY <1>1, <1>4, GotoSelf DEF Labels
  <2>2. TypeOK'
    BY <1>1, <1>2, <2>1 DEF TypeOK, opVars
  <2>3. Linked' = Linked
    BY <1>1, <1>2, <1>4, <2>1, SameLinked
  <2>4. SearchOK(t)'
    BY <1>1, <1>2, <1>3, <2>1, <2>3, AtRoot DEF SearchOK, opVars
  <2>5. Holds(t)' <=> Holds(t)
    BY <1>1, <2>1 DEF Holds
  <2> QED
    BY <1>1, <1>2, <1>4, <2>2, <2>4, <2>5, LocalStep DEF Labels
<1>5. CASE Goto(t, "wait", {}, {})
  <2>1. /\ pc' \in [Threads -> Labels] /\ reads' \in [Threads -> SUBSET (Nodes \cup {gLock})]
        /\ pc'[t] = "wait" /\ reads'[t] = {}
    BY <1>1, <1>5, GotoSelf DEF Labels
  <2>2. TypeOK'
    BY <1>1, <1>2, <2>1 DEF TypeOK, opVars
  <2>3. SearchOK(t)' /\ (Holds(t)' <=> Holds(t))
    BY <1>1, <2>1 DEF SearchOK, Holds, opVars
  <2> QED
    BY <1>1, <1>2, <1>5, <2>2, <2>3, LocalStep DEF Labels
<1> QED
  BY <1>4, <1>5 DEF Begin

LEMMA AbortKeeps == ASSUME IInv, NEW t \in Threads, Abort(t) PROVE IInv'
<1>1. /\ TypeOK /\ pc[t] = "search" /\ key[t] \in Keys
      /\ heap' = heap /\ used' = used /\ held' = held /\ loc' = loc /\ UNCHANGED opVars
      /\ Goto(t, "wait", {}, {})
  BY DEF Abort, IInv, SearchOK
<1>2. /\ pc' \in [Threads -> Labels] /\ reads' \in [Threads -> SUBSET (Nodes \cup {gLock})]
      /\ pc'[t] = "wait" /\ reads'[t] = {}
  BY <1>1, GotoSelf DEF Labels
<1>3. TypeOK'
  BY <1>1, <1>2 DEF TypeOK, opVars
<1>4. SearchOK(t)' /\ (Holds(t)' <=> Holds(t))
      /\ \A u \in Threads \ {t} : loc'[u] = loc[u] /\ key'[u] = key[u]
  BY <1>1, <1>2 DEF SearchOK, Holds, opVars
<1> QED
  BY <1>1, <1>3, <1>4, LocalStep DEF Labels

LEMMA WaitKeeps == ASSUME IInv, NEW t \in Threads, Wait(t) PROVE IInv'
<1> DEFINE p == IF retriesLeft[t] > 1 THEN "begin" ELSE "acquire"
<1>1. /\ TypeOK /\ pc[t] = "wait" /\ key[t] \in Keys
      /\ heap' = heap /\ used' = used /\ held' = held /\ loc' = loc
      /\ UNCHANGED <<op, key, left, result, seen>> /\ Goto(t, p, {}, {})
      /\ retriesLeft' = [retriesLeft EXCEPT ![t] = @ - 1]
      /\ p \in {"begin", "acquire"} /\ p \in Labels
  BY DEF Wait, IInv, SearchOK, Labels
<1> HIDE DEF p
<1>2. /\ pc' \in [Threads -> Labels] /\ reads' \in [Threads -> SUBSET (Nodes \cup {gLock})]
      /\ pc'[t] = p /\ reads'[t] = {}
  BY <1>1, GotoSelf
<1>3. TypeOK'
  <2>1. retriesLeft' \in [Threads -> Int]
    BY <1>1 DEF TypeOK
  <2> QED
    BY <1>1, <1>2, <2>1 DEF TypeOK
<1>4. SearchOK(t)' /\ (Holds(t)' <=> Holds(t))
      /\ \A u \in Threads \ {t} : loc'[u] = loc[u] /\ key'[u] = key[u]
  BY <1>1, <1>2 DEF SearchOK, Holds
<1> QED
  BY <1>1, <1>3, <1>4, LocalStep

-----------------------------------------------------------------------------
(* A search goes one node further: it stays above its place. *)
LEMMA OnwardPath ==
  ASSUME NEW h \in Heaps, NEW L \in SUBSET Nodes, Shape(h, L), NEW l \in Places, NEW k \in Keys,
         OnPath(h, L, l, k), Internal(h, l.n),
         NEW m, m = [gp |-> l.p, p |-> l.n, n |-> Toward(h, l.n, k)]
  PROVE  /\ m \in Places /\ OnPath(h, L, m, k)
         /\ \A R : Footprint(h, L, l, R) => Footprint(h, L, m, R \cup {l.n})
<1>1. m.gp = l.p /\ m.p = l.n /\ m.n = Toward(h, l.n, k) /\ l.n \in L /\ l.n # NULL
      /\ l.p \in Nodes \cup {NULL}
  BY TreeAssumption DEF OnPath, Places
<1>2. m.n \in L /\ m.n \in Kids(h, l.n)
  BY <1>1, TowardIsKid DEF Shape, Children
<1>3. OnPath(h, L, m, k)
  BY <1>1, <1>2 DEF OnPath
<1>4. m \in Places
  BY <1>1, <1>2 DEF Places
<1>5. ASSUME NEW R, Footprint(h, L, l, R)
      PROVE  Footprint(h, L, m, R \cup {l.n})
  <2> DEFINE S == R \cup {l.n}
  <2>1. gLock \in S /\ {m.p, m.gp} \ {NULL} \subseteq S
    BY <1>1, <1>5 DEF Footprint
  <2>2. \A x \in S \ {gLock} : x \in L /\ Internal(h, x)
    BY <1>1, <1>5 DEF Footprint
  <2>3. ASSUME NEW x \in S \ {gLock}, x # root
        PROVE  \E y \in S \ {gLock} : x \in Kids(h, y)
    <3>1. CASE x = l.n
      <4>1. l.p # NULL /\ l.p \in R /\ l.p \in L /\ l.n = Toward(h, l.p, k)
        BY <1>5, <2>3, <3>1 DEF OnPath, Footprint
      <4>2. l.p \in S \ {gLock} /\ x \in Kids(h, l.p)
        BY <3>1, <4>1, TowardIsKid, TreeAssumption
      <4> QED
        BY <4>2
    <3>2. CASE x \in R
      BY <1>5, <2>3, <3>2 DEF Footprint
    <3> QED
      BY <3>1, <3>2
  <2> QED
    BY <2>1, <2>2, <2>3 DEF Footprint
<1> QED
  BY <1>3, <1>4, <1>5

LEMMA SearchKeeps == ASSUME IInv, NEW t \in Threads, Search(t) PROVE IInv'
<1> SUFFICES ASSUME NEW m, m = [gp |-> loc[t].p, p |-> loc[t].n,
                                n |-> Toward(heap, loc[t].n, key[t])],
                    NEW R, R = IF pc[t] = "search" THEN reads[t] \cup {loc[t].n} ELSE {},
                    NEW p, p = pc[t]
             PROVE  IInv'
  OBVIOUS
<1>1. /\ TypeOK /\ p \in {"search", "lockedSearch"} /\ key[t] \in Keys /\ loc[t] \in Places
      /\ Internal(heap, loc[t].n) /\ OnPath(heap, Linked, loc[t], key[t])
      /\ p = "search" => Footprint(heap, Linked, loc[t], reads[t])
      /\ heap' = heap /\ used' = used /\ held' = held /\ UNCHANGED opVars
      /\ p \in Labels
  BY DEF Search, IInv, SearchOK, isLeaf, Internal, TypeOK
<1>2. loc' = [loc EXCEPT ![t] = m] /\ Goto(t, p, R, {})
  BY Zenon DEF Search, Toward
<1>3. /\ m \in Places /\ OnPath(heap, Linked, m, key[t])
      /\ \A Q : Footprint(heap, Linked, loc[t], Q) => Footprint(heap, Linked, m, Q \cup {loc[t].n})
  BY <1>1, ShapeNow, OnwardPath
<1>4. R \in SUBSET (Nodes \cup {gLock})
  BY <1>1 DEF TypeOK, Places
<1>5. /\ pc' \in [Threads -> Labels] /\ reads' \in [Threads -> SUBSET (Nodes \cup {gLock})]
      /\ pc'[t] = p /\ reads'[t] = R
  BY <1>1, <1>2, <1>4, GotoSelf
<1>6. loc' \in [Threads -> Places] /\ loc'[t] = m
      /\ \A u \in Threads \ {t} : loc'[u] = loc[u] /\ key'[u] = key[u]
  BY <1>1, <1>2, <1>3 DEF TypeOK, opVars
<1>7. TypeOK'
  BY <1>1, <1>5, <1>6 DEF TypeOK, opVars
<1>8. Linked' = Linked
  BY <1>1, <1>2, <1>5, <1>6, SameLinked
<1>9. SearchOK(t)'
  BY <1>1, <1>3, <1>5, <1>6, <1>8 DEF SearchOK, opVars
<1>10. (Holds(t)' <=> Holds(t)) /\ (p = "search" => ~ held)
  BY <1>1, <1>5 DEF Holds, IInv, LockOK
<1> QED
  BY <1>1, <1>2, <1>4, <1>6, <1>7, <1>9, <1>10, LocalStep

LEMMA AcquireKeeps == ASSUME IInv, NEW t \in Threads, Acquire(t) PROVE IInv'
<1>1. /\ TypeOK /\ pc[t] = "acquire" /\ key[t] \in Keys /\ ~ held
      /\ heap' = heap /\ used' = used /\ held' = TRUE /\ UNCHANGED opVars
      /\ loc' = [loc EXCEPT ![t] = NoLoc] /\ Goto(t, "lockedSearch", {}, {gLock})
  BY DEF Acquire, IInv, SearchOK
<1>2. loc' \in [Threads -> Places] /\ loc'[t] = NoLoc
      /\ \A u \in Threads \ {t} : loc'[u] = loc[u] /\ key'[u] = key[u]
  BY <1>1, NoLocPlace DEF TypeOK, opVars
<1>3. /\ pc' \in [Threads -> Labels] /\ reads' \in [Threads -> SUBSET (Nodes \cup {gLock})]
      /\ pc'[t] = "lockedSearch" /\ reads'[t] = {}
  BY <1>1, GotoSelf DEF Labels
<1>4. TypeOK'
  BY <1>1, <1>2, <1>3 DEF TypeOK, opVars
<1>5. Linked' = Linked
  BY <1>1, <1>2, <1>3, SameLinked
<1>6. ASSUME NEW u \in Threads, u # t
      PROVE  ~ Holds(u)' /\ pc'[u] # "search"
  <2>1. SearchOK(u) /\ ~ Holds(u)
    BY <1>1 DEF IInv, LockOK
  <2>2. pc[u] = "search" => gLock \in reads[u]
    BY <2>1 DEF SearchOK, Footprint
  <2> QED
    BY <1>1, <1>6, <2>1, <2>2, GotoOther DEF Holds
<1>7. LockOK'
  BY <1>1, <1>3, <1>6 DEF LockOK, Holds
<1>8. SearchOK(t)'
  <2>1. root \in Linked
    BY ShapeNow, FrameFacts
  <2> QED
    BY <1>1, <1>2, <1>3, <1>5, <2>1, AtRoot DEF SearchOK, opVars
<1>9. \A u \in Threads \ {t} : SearchOK(u)'
  BY <1>1, <1>2, <1>5, OthersSearchOn
<1>10. Shape(heap, Linked)'
  BY <1>1, <1>5, ShapeNow
<1> QED
  BY <1>4, <1>7, <1>8, <1>9, <1>10 DEF IInv

LEMMA ReleaseKeeps == ASSUME IInv, NEW t \in Threads, Release(t) PROVE IInv'
<1>1. /\ TypeOK /\ pc[t] = "release"
      /\ heap' = heap /\ used' = used /\ held' = FALSE /\ UNCHANGED opVars
      /\ loc' = [loc EXCEPT ![t] = NoLoc] /\ Goto(t, "idle", {}, {gLock})
  BY DEF Release, IInv
<1>2. loc' \in [Threads -> Places] /\ loc'[t] = NoLoc
      /\ \A u \in Threads \ {t} : loc'[u] = loc[u] /\ key'[u] = key[u]
  BY <1>1, NoLocPlace DEF TypeOK, opVars
<1>3. /\ pc' \in [Threads -> Labels] /\ reads' \in [Threads -> SUBSET (Nodes \cup {gLock})]
      /\ pc'[t] = "idle" /\ reads'[t] = {}
  BY <1>1, GotoSelf DEF Labels
<1>4. TypeOK'
  BY <1>1, <1>2, <1>3 DEF TypeOK, opVars
<1>5. Linked' = Linked
  BY <1>1, <1>2, <1>3, SameLinked
<1>6. ASSUME NEW u \in Threads, u # t
      PROVE  ~ Holds(u)'
  <2>1. SearchOK(u) /\ ~ Holds(u)
    BY <1>1, <1>6 DEF IInv, LockOK, Holds
  <2> QED
    BY <1>1, <1>6, <2>1, GotoOther DEF Holds
<1>7. LockOK'
  BY <1>1, <1>3, <1>6 DEF LockOK, Holds
<1>8. SearchOK(t)'
  BY <1>3 DEF SearchOK
<1>9. \A u \in Threads \ {t} : SearchOK(u)'
  BY <1>1, <1>2, <1>5, OthersSearchOn
<1>10. Shape(heap, Linked)'
  BY <1>1, <1>5, ShapeNow
<1> QED
  BY <1>4, <1>7, <1>8, <1>9, <1>10 DEF IInv

(* The delete of a node that is no longer in the tree. *)
LEMMA FreeIs ==
  ASSUME IInv, NEW t \in Threads, Free(t)
  PROVE  /\ pc[t] = "free" /\ heap' = heap /\ held' = held /\ loc' = loc /\ UNCHANGED opVars
         /\ Linked' = Linked /\ used' \subseteq used
         /\ \E p \in {"free", "release"} : Goto(t, p, {}, {})
<1>1. /\ TypeOK /\ pc[t] = "free" /\ heap' = heap /\ held' = held /\ loc' = loc
      /\ UNCHANGED opVars
  BY DEF Free, IInv
<1>2. PICK p \in {"free", "release"} :
        /\ Goto(t, p, {}, {})
        /\ p = "free" => used' = used \ {loc[t].p}
        /\ p = "release" => loc[t].p \notin used /\ used' = used \ {loc[t].n}
  BY Zenon DEF Free
<1>3. pc'[t] = p
  BY <1>2 DEF Goto
<1>4. \A u \in Threads \ {t} : pc[u] # "free" /\ pc'[u] # "free"
  <2> SUFFICES ASSUME NEW u \in Threads, u # t PROVE pc[u] # "free" /\ pc'[u] # "free"
    OBVIOUS
  <2>1. pc[u] # "free" /\ SearchOK(u)
    BY <1>1 DEF IInv, LockOK, Holds
  <2> QED
    BY <1>2, <2>1, GotoOther
<1>5. Pending = {loc[t].p, loc[t].n}
  BY <1>1, <1>4 DEF Pending
<1>6. Linked' = Linked
  <2>1. CASE p = "free"
    <3>1. Pending' = {loc[t].p, loc[t].n}
      BY <1>1, <1>3, <1>4, <2>1 DEF Pending
    <3> QED
      BY <1>2, <1>5, <2>1, <3>1 DEF Linked
  <2>2. CASE p = "release"
    <3>1. Pending' = {}
      BY <1>3, <1>4, <2>2 DEF Pending
    <3> QED
      BY <1>2, <1>5, <2>2, <3>1 DEF Linked
  <2> QED
    BY <2>1, <2>2
<1> QED
  BY <1>1, <1>2, <1>6

LEMMA FreeKeeps == ASSUME IInv, NEW t \in Threads, Free(t) PROVE IInv'
<1>1. /\ TypeOK /\ pc[t] = "free" /\ heap' = heap /\ held' = held /\ loc' = loc
      /\ UNCHANGED opVars /\ Linked' = Linked /\ used' \subseteq used
  BY FreeIs DEF IInv
<1>2. PICK p \in {"free", "release"} : Goto(t, p, {}, {})
  BY FreeIs
<1>3. /\ pc' \in [Threads -> Labels] /\ reads' \in [Threads -> SUBSET (Nodes \cup {gLock})]
      /\ pc'[t] = p /\ reads'[t] = {}
  BY <1>1, <1>2, GotoSelf DEF Labels
<1>4. TypeOK'
  BY <1>1, <1>3 DEF TypeOK, opVars
<1>5. LockOK'
  BY <1>1, <1>2, <1>3, LockKept DEF Holds
<1>6. SearchOK(t)'
  BY <1>2, <1>3 DEF SearchOK
<1>7. \A u \in Threads \ {t} : SearchOK(u)'
  BY <1>1, <1>2, OthersSearchOn DEF opVars
<1>8. Shape(heap, Linked)'
  BY <1>1, ShapeNow
<1> QED
  BY <1>4, <1>5, <1>6, <1>7, <1>8 DEF IInv

-----------------------------------------------------------------------------
(* What is the same of every operation that has its effect. *)
LEMMA EffectIs ==
  ASSUME IInv, NEW t \in Threads, pc[t] \in {"search", "lockedSearch"},
         NEW r \in BOOLEAN, NEW p \in {"idle", "release", "free"}, NEW W, NEW h \in Heaps,
         Effect(t, r, p, W, h), held' = held, loc' \in [Threads -> Places],
         \A u \in Threads \ {t} : loc'[u] = loc[u],
         p = "idle" <=> pc[t] = "search", used' \in SUBSET Nodes
  PROVE  /\ TypeOK' /\ heap' = h /\ LockOK' /\ SearchOK(t)' /\ pc'[t] = p
         /\ Goto(t, p, {}, W)
         /\ \A u \in Threads \ {t} :
              /\ key'[u] = key[u] /\ pc'[u] # "free" /\ pc'[u] # "lockedSearch"
<1>1. /\ heap' = h /\ Goto(t, p, {}, W) /\ result' = [result EXCEPT ![t] = r]
      /\ seen' = [u \in Threads |-> IF u = t \/ seen[u] = {} THEN {}
                                    ELSE seen[u] \cup {ElementsOf(h)}]
      /\ op' = [op EXCEPT ![t] = "none"] /\ key' = [key EXCEPT ![t] = 0]
      /\ retriesLeft' = [retriesLeft EXCEPT ![t] = 0] /\ left' = left /\ TypeOK
  BY DEF Effect, IInv
<1>2. /\ pc' \in [Threads -> Labels] /\ reads' \in [Threads -> SUBSET (Nodes \cup {gLock})]
      /\ pc'[t] = p /\ reads'[t] = {}
  <2>1. p \in Labels /\ {} \in SUBSET (Nodes \cup {gLock})
    BY DEF Labels
  <2>2. TypeOK /\ Goto(t, p, {}, W)
    BY <1>1
  <2> QED
    BY <2>1, <2>2, GotoSelf
<1>3. TypeOK'
  <2>1. ElementsOf(h) \in SUBSET Keys
    BY DEF ElementsOf
  <2>2. seen' \in [Threads -> SUBSET SUBSET Keys]
    BY <1>1, <2>1 DEF TypeOK
  <2>3. key' \in [Threads -> Int] /\ retriesLeft' \in [Threads -> Int]
    BY <1>1 DEF TypeOK
  <2>4. op' \in [Threads -> {"none", "insert", "erase", "contains"}]
        /\ result' \in [Threads -> BOOLEAN]
    BY <1>1 DEF TypeOK
  <2>5. heap' \in [Nodes -> Fields]
    BY <1>1 DEF Heaps
  <2> QED
    BY <1>1, <1>2, <2>2, <2>3, <2>4, <2>5 DEF TypeOK
<1>4. LockOK'
  BY <1>1, <1>2, LockKept DEF Holds
<1>5. SearchOK(t)'
  BY <1>2 DEF SearchOK
<1>6. ASSUME NEW u \in Threads, u # t
      PROVE  key'[u] = key[u] /\ pc'[u] # "free" /\ pc'[u] # "lockedSearch"
  <2>1. SearchOK(u) /\ pc[u] # "free" /\ pc[u] # "lockedSearch"
    BY <1>6, NothingPending DEF IInv
  <2>2. key'[u] = key[u]
    BY <1>1, <1>6 DEF TypeOK
  <2> QED
    BY <1>1, <1>6, <2>1, <2>2, GotoOther
<1> QED
  BY <1>1, <1>2, <1>3, <1>4, <1>5, <1>6

(* The nodes of the tree after the effect. *)
LEMMA LinkedAfter ==
  ASSUME NEW t \in Threads,
         \A u \in Threads \ {t} : pc'[u] # "free"
  PROVE  /\ pc'[t] # "free" => Linked' = used'
         /\ pc'[t] = "free" => Linked' = used' \ {loc'[t].p, loc'[t].n}
<1>1. pc'[t] # "free" => Pending' = {}
  BY DEF Pending
<1>2. pc'[t] = "free" => Pending' = {loc'[t].p, loc'[t].n}
  BY DEF Pending
<1> QED
  BY <1>1, <1>2 DEF Linked

(* The other transactions that survive the effect. *)
LEMMA OthersAfter ==
  ASSUME IInv, NEW t \in Threads, NEW p, NEW W, Goto(t, p, {}, W),
         NEW u \in Threads, u # t, key'[u] = key[u], loc'[u] = loc[u], pc'[u] # "lockedSearch",
         pc[u] = "search" /\ reads[u] \cap W = {} =>
           /\ loc[u].n \in Linked'
           /\ \A x \in reads[u] \ {gLock} : heap'[x] = heap[x] /\ x \in Linked'
  PROVE  SearchOK(u)'
<1>1. SearchOK(u) /\ Linked \in SUBSET Nodes
  BY ShapeNow DEF IInv
<1>2. CASE pc'[u] = "search"
  <2>1. pc[u] = "search" /\ reads'[u] = reads[u] /\ reads[u] \cap W = {}
    BY <1>1, <1>2, GotoOther
  <2>2. OnPath(heap, Linked, loc[u], key[u]) /\ Footprint(heap, Linked, loc[u], reads[u])
    BY <1>1, <2>1 DEF SearchOK
  <2>3. /\ OnPath(heap', Linked', loc[u], key[u])
        /\ Footprint(heap', Linked', loc[u], reads[u])
    BY <1>1, <2>1, <2>2, SearchKept
  <2> QED
    BY <1>1, <1>2, <2>1, <2>3 DEF SearchOK
<1>3. CASE pc'[u] # "search"
  BY <1>1, <1>3, GotoOther DEF SearchOK
<1> QED
  BY <1>2, <1>3

(* The place where thread t has its effect. *)
LEMMA EffectPlace ==
  ASSUME IInv, NEW t \in Threads, pc[t] \in {"search", "lockedSearch"}, AtLeaf(t)
  PROVE  /\ Linked = used /\ key[t] \in Keys
         /\ loc[t].n \in Linked /\ loc[t].p \in Linked /\ ~ Internal(heap, loc[t].n)
         /\ Internal(heap, loc[t].p) /\ loc[t].n = Toward(heap, loc[t].p, key[t])
         /\ Hit(t) => /\ loc[t].gp \in Linked /\ Internal(heap, loc[t].gp)
                      /\ loc[t].p = Toward(heap, loc[t].gp, key[t])
<1>1. OnPath(heap, Linked, loc[t], key[t]) /\ key[t] \in Keys /\ Linked = used
  BY NothingPending DEF IInv, SearchOK
<1>2. ~ Internal(heap, loc[t].n)
  BY DEF AtLeaf, isLeaf, Internal
<1>3. /\ Internal(heap, root) /\ Toward(heap, root, key[t]) = heap[root].right
      /\ heap[high].key = maxKey + 1 /\ key[t] # maxKey + 1
  BY <1>1, ShapeNow, FrameFacts, TreeAssumption DEF Keys
<1>4. /\ loc[t].p # NULL /\ loc[t].p \in Linked /\ Internal(heap, loc[t].p)
      /\ loc[t].n = Toward(heap, loc[t].p, key[t])
  BY <1>1, <1>2, <1>3 DEF OnPath
<1>5. ASSUME Hit(t) PROVE loc[t].gp # NULL
  <2> SUFFICES ASSUME loc[t].gp = NULL PROVE FALSE
    OBVIOUS
  <2>1. loc[t].p = root /\ loc[t].n = heap[root].right
    BY <1>1, <1>3, <1>4 DEF OnPath
  <2>2. heap[root].right = high
    BY <1>2, <2>1, ShapeNow DEF Shape, Frame
  <2> QED
    BY <1>3, <1>5, <2>1, <2>2 DEF Hit
<1> QED
  BY <1>1, <1>2, <1>4, <1>5 DEF OnPath

-----------------------------------------------------------------------------
(* What the last step of an operation leaves alone. *)
Ending(t, p) ==
  /\ pc[t] \in {"search", "lockedSearch"} /\ p \in {"idle", "release", "free"}
  /\ p = "idle" <=> pc[t] = "search"
  /\ held' = held /\ loc' \in [Threads -> Places]
  /\ \A u \in Threads \ {t} : loc'[u] = loc[u]

LEMMA NoChangeKeeps ==
  ASSUME IInv, NEW t \in Threads, NEW p, Ending(t, p), p # "free", NoChange(t, p)
  PROVE  IInv'
<1> DEFINE r == op[t] = "contains" /\ Hit(t)
<1>1. r \in BOOLEAN /\ Effect(t, r, p, {}, heap) /\ used' = used
  BY DEF NoChange
<1> HIDE DEF r
<1>2. heap \in Heaps /\ used \in SUBSET Nodes /\ Linked = used
  BY ShapeNow, NothingPending DEF Ending
<1>3. /\ TypeOK' /\ heap' = heap /\ LockOK' /\ SearchOK(t)' /\ pc'[t] = p
      /\ Goto(t, p, {}, {})
      /\ \A u \in Threads \ {t} :
           /\ key'[u] = key[u] /\ pc'[u] # "free" /\ pc'[u] # "lockedSearch"
  BY <1>1, <1>2, EffectIs DEF Ending
<1>4. Linked' = Linked
  BY <1>1, <1>2, <1>3, LinkedAfter
<1>5. \A u \in Threads \ {t} : SearchOK(u)'
  BY <1>3, <1>4, OthersSearchOn DEF Ending
<1>6. Shape(heap, Linked)'
  BY <1>3, <1>4, ShapeNow
<1> QED
  BY <1>3, <1>5, <1>6 DEF IInv

(* The two nodes an insert has allocated. *)
LEMMA InsertIs ==
  ASSUME NEW t, NEW p, InsertHere(t, p)
  PROVE  \E a \in Nodes \ used, b \in Nodes \ used :
           /\ AtLeaf(t) /\ a # b /\ used' = used \cup {a, b}
           /\ Effect(t, TRUE, p, {loc[t].p}, Grown(t, a, b))
BY DEF InsertHere

LEMMA InsertKeeps ==
  ASSUME IInv, NEW t \in Threads, NEW p, Ending(t, p), p # "free", InsertHere(t, p)
  PROVE  IInv'
<1> SUFFICES ASSUME NEW x, x = loc[t].p, NEW n, n = loc[t].n, NEW k, k = key[t]
             PROVE  IInv'
  OBVIOUS
<1>0. PICK a \in Nodes \ used, b \in Nodes \ used :
        /\ AtLeaf(t) /\ a # b /\ used' = used \cup {a, b}
        /\ Effect(t, TRUE, p, {x}, Grown(t, a, b))
  BY InsertIs
<1> SUFFICES ASSUME NEW g, g = Grown(t, a, b) PROVE IInv'
  OBVIOUS
<1>1. AtLeaf(t) /\ a # b /\ used' = used \cup {a, b} /\ Effect(t, TRUE, p, {x}, g)
  BY <1>0
<1>3. g = Grow(heap, x, n, k, a, b)
  BY Zenon DEF Grown, Grow, Replace, Replaced
<1>2. /\ heap \in Heaps /\ Linked \in SUBSET Nodes /\ Shape(heap, Linked) /\ Linked = used
      /\ k \in Keys /\ n \in Linked /\ x \in Linked
      /\ ~ Internal(heap, n) /\ Internal(heap, x) /\ n = Toward(heap, x, k)
  BY <1>1, ShapeNow, EffectPlace DEF Ending
<1>4. g \in Heaps /\ Shape(g, used \cup {a, b})
  BY <1>1, <1>2, <1>3, GrownShape
<1>5. /\ TypeOK' /\ heap' = g /\ LockOK' /\ SearchOK(t)' /\ pc'[t] = p
      /\ Goto(t, p, {}, {x})
      /\ \A u \in Threads \ {t} :
           /\ key'[u] = key[u] /\ pc'[u] # "free" /\ pc'[u] # "lockedSearch"
  <2>1. used' \in SUBSET Nodes
    BY <1>1, <1>2
  <2>2. Effect(t, TRUE, p, {x}, g) /\ g \in Heaps
    BY <1>1, <1>4
  <2>3. /\ pc[t] \in {"search", "lockedSearch"} /\ p \in {"idle", "release", "free"}
        /\ p = "idle" <=> pc[t] = "search"
        /\ held' = held /\ loc' \in [Threads -> Places]
        /\ \A u \in Threads \ {t} : loc'[u] = loc[u]
    BY DEF Ending
  <2>4. ASSUME NEW r, r = TRUE, NEW W, W = {x}
        PROVE  /\ TypeOK' /\ heap' = g /\ LockOK' /\ SearchOK(t)' /\ pc'[t] = p
               /\ Goto(t, p, {}, W)
               /\ \A u \in Threads \ {t} :
                    /\ key'[u] = key[u] /\ pc'[u] # "free" /\ pc'[u] # "lockedSearch"
    <3>1. Effect(t, r, p, W, g) /\ r \in BOOLEAN
      BY <2>2, <2>4
    <3> QED
      BY <2>1, <2>2, <2>3, <3>1, EffectIs
  <2> QED
    BY <2>4
<1>6. Linked' = used \cup {a, b}
  BY <1>1, <1>5, LinkedAfter
<1>7. \A y \in used \ {x} : heap'[y] = heap[y]
  BY <1>1, <1>2, <1>3, <1>5, Zenon DEF Heaps, Grow
<1>8. ASSUME NEW u \in Threads, u # t
      PROVE  SearchOK(u)'
  <2>1. SearchOK(u) /\ loc'[u] = loc[u]
    BY <1>8 DEF IInv, Ending
  <2>2. ASSUME pc[u] = "search", reads[u] \cap {x} = {}
        PROVE  /\ loc[u].n \in Linked'
               /\ \A y \in reads[u] \ {gLock} : heap'[y] = heap[y] /\ y \in Linked'
    <3>1. loc[u].n \in used /\ \A y \in reads[u] \ {gLock} : y \in used \ {x}
      BY <1>2, <2>1, <2>2 DEF SearchOK, OnPath, Footprint
    <3> QED
      BY <1>6, <1>7, <3>1
  <2> QED
    BY <1>5, <1>8, <2>1, <2>2, OthersAfter
<1>9. Shape(heap, Linked)'
  BY <1>4, <1>5, <1>6
<1> QED
  BY <1>5, <1>8, <1>9 DEF IInv

LEMMA EraseKeeps ==
  ASSUME IInv, NEW t \in Threads, NEW p, Ending(t, p), EraseHere(t, p),
         \/ p = "idle" /\ used' = used \ {loc[t].p, loc[t].n}
         \/ p = "free" /\ used' = used /\ loc' = loc
  PROVE  IInv'
<1> SUFFICES ASSUME NEW q, q = loc[t].gp, NEW x, x = loc[t].p, NEW n, n = loc[t].n,
                    NEW k, k = key[t], NEW g, g = Shrunk(t)
             PROVE  IInv'
  OBVIOUS
<1>1. AtLeaf(t) /\ Hit(t) /\ Effect(t, TRUE, p, {q}, g) /\ heap[n].key = k
  BY DEF EraseHere, Hit
<1>2. /\ heap \in Heaps /\ Linked \in SUBSET Nodes /\ Shape(heap, Linked) /\ Linked = used
      /\ k \in Keys /\ n \in Linked /\ x \in Linked /\ q \in Linked
      /\ ~ Internal(heap, n) /\ Internal(heap, x) /\ n = Toward(heap, x, k)
      /\ Internal(heap, q) /\ x = Toward(heap, q, k)
  BY <1>1, ShapeNow, EffectPlace DEF Ending
<1>3. g = Shrink(heap, q, x, n)
  BY Zenon DEF Shrunk, Shrink, Replace, Replaced
<1>4. g \in Heaps /\ Shape(g, used \ {x, n})
  BY <1>1, <1>2, <1>3, ShrunkShape
<1>5. /\ TypeOK' /\ heap' = g /\ LockOK' /\ SearchOK(t)' /\ pc'[t] = p
      /\ Goto(t, p, {}, {q})
      /\ \A u \in Threads \ {t} :
           /\ key'[u] = key[u] /\ pc'[u] # "free" /\ pc'[u] # "lockedSearch"
  <2>1. used' \in SUBSET Nodes
    BY <1>2
  <2> QED
    BY <1>1, <1>4, <2>1, EffectIs DEF Ending
<1>6. Linked' = used \ {x, n}
  BY <1>5, LinkedAfter
<1>7. \A y \in used \ {q} : heap'[y] = heap[y]
  BY <1>2, <1>3, <1>5, Zenon DEF Heaps, Shrink
<1>8. ASSUME NEW u \in Threads, u # t
      PROVE  SearchOK(u)'
  <2>1. SearchOK(u) /\ loc'[u] = loc[u]
    BY <1>8 DEF IInv, Ending
  <2>2. ASSUME pc[u] = "search", reads[u] \cap {q} = {}
        PROVE  /\ loc[u].n \in Linked'
               /\ \A y \in reads[u] \ {gLock} : heap'[y] = heap[y] /\ y \in Linked'
    <3>1. /\ OnPath(heap, Linked, loc[u], key[u]) /\ q \notin reads[u]
          /\ Footprint(heap, Linked, loc[u], reads[u])
      BY <2>1, <2>2 DEF SearchOK
    <3>2. loc[u].n \notin {x, n} /\ \A y \in reads[u] \ {gLock} : y \in Linked \ {x, n}
      BY <1>1, <1>2, <3>1, ReadsNotErased
    <3>3. loc[u].n \in Linked
      BY <3>1 DEF OnPath
    <3> QED
      BY <1>2, <1>6, <1>7, <3>1, <3>2, <3>3
  <2> QED
    BY <1>5, <1>8, <2>1, <2>2, OthersAfter
<1>9. Shape(heap, Linked)'
  BY <1>4, <1>5, <1>6
<1> QED
  BY <1>5, <1>8, <1>9 DEF IInv

LEMMA CommitKeeps == ASSUME IInv, NEW t \in Threads, Commit(t) PROVE IInv'
<1>1. pc[t] = "search" /\ held' = held /\ loc' = [loc EXCEPT ![t] = NoLoc]
  BY DEF Commit
<1>2. Ending(t, "idle")
  BY <1>1, NoLocPlace DEF Ending, IInv, TypeOK
<1>3. \/ NoChange(t, "idle") \/ InsertHere(t, "idle")
      \/ EraseHere(t, "idle") /\ used' = used \ {loc[t].p, loc[t].n}
  BY Zenon DEF Commit
<1> QED
  BY <1>2, <1>3, NoChangeKeeps, InsertKeeps, EraseKeeps

LEMMA ChangeKeeps == ASSUME IInv, NEW t \in Threads, Change(t) PROVE IInv'
<1>1. pc[t] = "lockedSearch" /\ held' = held /\ loc' = loc
  BY DEF Change
<1>2. \A p \in {"release", "free"} : Ending(t, p)
  BY <1>1 DEF Ending, IInv, TypeOK
<1>3. \/ NoChange(t, "release") \/ InsertHere(t, "release")
      \/ EraseHere(t, "free") /\ used' = used
  BY Zenon DEF Change
<1> QED
  BY <1>1, <1>2, <1>3, NoChangeKeeps, InsertKeeps, EraseKeeps

-----------------------------------------------------------------------------
LEMMA StepKeeps == ASSUME IInv, NEW t \in Threads, Step(t) PROVE IInv'
<1>1. CASE Begin(t)
  BY <1>1, BeginKeeps
<1>2. CASE Abort(t)
  BY <1>2, AbortKeeps
<1>3. CASE Wait(t)
  BY <1>3, WaitKeeps
<1>4. CASE Acquire(t)
  BY <1>4, AcquireKeeps
<1>5. CASE Search(t)
  BY <1>5, SearchKeeps
<1>6. CASE Commit(t)
  BY <1>6, CommitKeeps
<1>7. CASE Change(t)
  BY <1>7, ChangeKeeps
<1>8. CASE Free(t)
  BY <1>8, FreeKeeps
<1>9. CASE Release(t)
  BY <1>9, ReleaseKeeps
<1> QED
  BY <1>1, <1>2, <1>3, <1>4, <1>5, <1>6, <1>7, <1>8, <1>9, Zenon DEF Step

LEMMA NextKeeps == ASSUME IInv, [Next]_vars PROVE IInv'
<1>1. ASSUME NEW t \in Threads, CallStep(t) PROVE IInv'
  <2>1. PICK o \in {"insert", "erase", "contains"}, k \in Keys : Call(t, o, k)
    BY <1>1 DEF CallStep
  <2> QED
    BY <2>1, CallKeeps
<1>2. CASE UNCHANGED vars
  <2>1. /\ heap' = heap /\ used' = used /\ held' = held /\ pc' = pc /\ op' = op /\ key' = key
        /\ loc' = loc /\ reads' = reads /\ retriesLeft' = retriesLeft /\ left' = left
        /\ result' = result /\ seen' = seen
    BY <1>2 DEF vars
  <2>2. Linked' = Linked /\ TypeOK' /\ LockOK'
    BY <2>1 DEF IInv, Linked, Pending, TypeOK, LockOK, Holds
  <2>3. \A t \in Threads : SearchOK(t)'
    BY <2>1, <2>2 DEF IInv, SearchOK
  <2>4. Shape(heap, Linked)'
    BY <2>1, <2>2, ShapeNow
  <2> QED
    BY <2>2, <2>3, <2>4 DEF IInv
<1> QED
  BY <1>1, <1>2, StepKeeps DEF Next

LEMMA InitHolds == Init => IInv
<1> SUFFICES ASSUME Init PROVE IInv
  OBVIOUS
<1>1. /\ minKey - 1 \in Int /\ maxKey + 1 \in Int
      /\ root \in Nodes /\ low \in Nodes /\ high \in Nodes
      /\ root # low /\ root # high /\ low # high /\ NULL \notin Nodes
  BY TreeAssumption
<1>2. /\ heap \in [Nodes -> Fields]
      /\ heap[root] = createInternal(minKey - 1, low, high)
      /\ heap[low] = createLeaf(minKey - 1) /\ heap[high] = createLeaf(maxKey + 1)
  <2>1. /\ createInternal(minKey - 1, low, high) \in Fields
        /\ createLeaf(minKey - 1) \in Fields /\ createLeaf(maxKey + 1) \in Fields
    BY <1>1, Internals, Leaves
  <2> QED
    BY <1>1, <2>1 DEF Init
<1>3. /\ used = {root, low, high} /\ Linked = used
  BY DEF Init, Quiet, Linked, Pending
<1>4. TypeOK
  <2>1. /\ heap \in [Nodes -> Fields] /\ used \subseteq Nodes /\ held \in BOOLEAN
        /\ pc \in [Threads -> Labels]
        /\ op \in [Threads -> {"none", "insert", "erase", "contains"}]
    BY <1>1, <1>2, <1>3 DEF Init, Quiet, Labels
  <2>2. /\ key \in [Threads -> Int] /\ left \in [Threads -> Nat]
        /\ retriesLeft \in [Threads -> Int] /\ result \in [Threads -> BOOLEAN]
    BY DEF Init, Quiet
  <2>3. loc \in [Threads -> Places]
    BY NoLocPlace DEF Init, Quiet
  <2>4. reads \in [Threads -> SUBSET (Nodes \cup {gLock})]
    BY DEF Init, Quiet
  <2>5. seen \in [Threads -> SUBSET SUBSET Keys]
    BY DEF Init, Quiet
  <2> QED
    BY <2>1, <2>2, <2>3, <2>4, <2>5 DEF TypeOK
<1>5. /\ heap[root].key = minKey - 1 /\ heap[root].left = low /\ heap[root].right = high
      /\ Internal(heap, root) /\ ~ Internal(heap, low) /\ ~ Internal(heap, high)
  BY <1>1, <1>2, Internals, Leaves DEF Internal
<1>6. Frame(heap, Linked)
  BY <1>2, <1>3, <1>5 DEF Frame
<1>7. Children(heap, Linked)
  BY <1>1, <1>3, <1>5 DEF Children, Kids
<1>8. Ranked(heap, Linked)
  <2> DEFINE rank == [x \in Nodes |-> IF x = root THEN 0 ELSE 1]
  <2>1. rank \in [Nodes -> Nat]
    OBVIOUS
  <2>2. \A x \in Linked : Internal(heap, x) => \A c \in Kids(heap, x) : rank[x] < rank[c]
    BY <1>1, <1>3, <1>5 DEF Kids
  <2> QED
    BY <2>1, <2>2 DEF Ranked
<1>9. LockOK
  BY DEF LockOK, Holds, Init, Quiet
<1>10. \A t \in Threads : SearchOK(t)
  BY DEF SearchOK, Init, Quiet
<1> QED
  BY <1>4, <1>6, <1>7, <1>8, <1>9, <1>10 DEF IInv, Shape

LEMMA Invariant == Spec => []IInv
<1>1. IInv /\ [Next]_vars => IInv'
  BY NextKeeps
<1> QED
  BY InitHolds, <1>1, PTL DEF Spec

-----------------------------------------------------------------------------
(* Type correctness: the fields, places, read sets and answers of the      *)
(* elided tree stay in their ranges, for any threads, keys and retries.    *)
THEOREM TypeCorrect == Spec => []TypeOK
<1>1. IInv => TypeOK
  BY DEF IInv
<1> QED
  BY <1>1, Invariant, PTL

(* The nodes that are reached from the root form one external tree at      *)
(* every moment, whoever changed it: each inner node has two different     *)
(* children, each node one parent, there is no cycle, and the two nodes    *)
(* with the sentinel keys stand where the constructor put them             *)
(* (tree/tree.h).                                                          *)
THEOREM StaysTree == Spec => []Shape(heap, Linked)
<1>1. IInv => Shape(heap, Linked)
  BY DEF IInv
<1> QED
  BY <1>1, Invariant, PTL

(* Lock elision: the lock is held by one thread at a time, and no          *)
(* transaction that has begun survives next to its holder.                 *)
THEOREM LockExcludes == Spec => []LockOK
<1>1. IInv => LockOK
  BY DEF IInv
<1> QED
  BY <1>1, Invariant, PTL

(* No search, in a transaction or under the lock, stands on a node that    *)
(* was deleted: a transaction that has come to the node that an erase      *)
(* takes out has read the node the erase writes, and fails with it.        *)
THEOREM NoFreedNode == Spec => []NoFreedNodeRead
<1>1. IInv => NoFreedNodeRead
  <2> SUFFICES ASSUME IInv, NEW t \in Threads, pc[t] \in {"search", "lockedSearch"}
               PROVE  {loc[t].n, loc[t].p, loc[t].gp} \ {NULL} \subseteq used
    BY DEF NoFreedNodeRead
  <2>1. OnPath(heap, Linked, loc[t], key[t]) /\ Linked = used
    BY NothingPending DEF IInv, SearchOK
  <2> QED
    BY <2>1 DEF OnPath
<1> QED
  BY <1>1, Invariant, PTL

-----------------------------------------------------------------------------
(* The leaf that a search ends at.  LeafFor is a recursive function: that   *)
(* there is such a function, the walk w, is proved from its finite parts.   *)
Onward(h, x, k) == IF h[x].left = NULL THEN x ELSE Toward(h, x, k)

Walk(h, k, w, D) ==
  w = [d \in D |-> w[d]] /\ w[0] = root
  /\ \A d \in D : d + 1 \in D => w[d + 1] = Onward(h, w[d], k)

LEMMA WalksAgree ==
  ASSUME NEW h, NEW k, NEW m \in Nat, NEW v, Walk(h, k, v, 0 .. m), NEW n \in Nat, m <= n,
         NEW w, Walk(h, k, w, 0 .. n)
  PROVE  v[m] = w[m]
<1> SUFFICES ASSUME NEW G, G = {d \in Nat : d <= m => v[d] = w[d]} PROVE v[m] = w[m]
  OBVIOUS
<1>1. 0 \in G
  BY DEF Walk
<1>2. ASSUME NEW d \in Nat, d \in G PROVE d + 1 \in G
  <2> SUFFICES ASSUME d + 1 <= m PROVE v[d + 1] = w[d + 1]
    OBVIOUS
  <2>1. d \in 0 .. m /\ d + 1 \in 0 .. m /\ d \in 0 .. n /\ d + 1 \in 0 .. n /\ v[d] = w[d]
    BY <1>2
  <2> QED
    BY <2>1 DEF Walk
<1>3. Nat \subseteq G
  BY <1>1, <1>2, NatInductionIn
<1> QED
  BY <1>3

LEMMA WalkExists ==
  ASSUME NEW h, NEW k
  PROVE  \E w : Walk(h, k, w, Nat)
<1> SUFFICES ASSUME NEW G, G = {n \in Nat : \E v : Walk(h, k, v, 0 .. n)}
             PROVE  \E w : Walk(h, k, w, Nat)
  OBVIOUS
<1>1. 0 \in G
  <2>1. Walk(h, k, [d \in 0 .. 0 |-> root], 0 .. 0)
    BY DEF Walk
  <2> QED
    BY <2>1
<1>2. ASSUME NEW n \in Nat, n \in G PROVE n + 1 \in G
  <2>1. PICK v : Walk(h, k, v, 0 .. n)
    BY <1>2
  <2>2. PICK g : g = [d \in 0 .. n + 1 |-> IF d = n + 1 THEN Onward(h, v[n], k) ELSE v[d]]
    OBVIOUS
  <2>3. ASSUME NEW d \in 0 .. n + 1, d + 1 \in 0 .. n + 1 PROVE g[d + 1] = Onward(h, g[d], k)
    <3>1. d \in 0 .. n /\ g[d] = v[d]
      BY <2>3, <2>2
    <3>2. CASE d = n
      BY <3>1, <3>2, <2>3, <2>2
    <3>3. CASE d # n
      <4>1. d + 1 \in 0 .. n /\ g[d + 1] = v[d + 1]
        BY <3>1, <3>3, <2>3, <2>2
      <4> QED
        BY <3>1, <4>1, <2>1 DEF Walk
    <3> QED
      BY <3>2, <3>3
  <2>4. g = [d \in 0 .. n + 1 |-> g[d]] /\ g[0] = root
    BY <2>1, <2>2 DEF Walk
  <2>5. Walk(h, k, g, 0 .. n + 1)
    BY <2>3, <2>4 DEF Walk
  <2> QED
    BY <2>5
<1>3. Nat \subseteq G
  BY <1>1, <1>2, NatInductionIn
<1> DEFINE part(n) == CHOOSE v : Walk(h, k, v, 0 .. n)
<1>4. ASSUME NEW n \in Nat PROVE Walk(h, k, part(n), 0 .. n)
  BY <1>3
<1> SUFFICES ASSUME NEW w, w = [d \in Nat |-> part(d)[d]] PROVE Walk(h, k, w, Nat)
  OBVIOUS
<1> HIDE DEF part
<1>5. ASSUME NEW d \in Nat PROVE w[d + 1] = Onward(h, w[d], k)
  <2>1. Walk(h, k, part(d), 0 .. d) /\ Walk(h, k, part(d + 1), 0 .. d + 1)
    BY <1>4
  <2>2. part(d)[d] = part(d + 1)[d]
    BY <2>1, WalksAgree
  <2>3. d \in 0 .. d + 1 /\ d + 1 \in 0 .. d + 1
    OBVIOUS
  <2>4. part(d + 1)[d + 1] = Onward(h, part(d + 1)[d], k)
    BY <2>1, <2>3 DEF Walk
  <2> QED
    BY <2>2, <2>4
<1>6. w[0] = root
  BY <1>4 DEF Walk
<1> QED
  BY <1>5, <1>6 DEF Walk

(* The depth of the tree is no more than this. *)
Depth == maxKey - minKey + 2

LEMMA LeafForIs ==
  ASSUME NEW h, NEW k
  PROVE  \E w : Walk(h, k, w, Nat) /\ LeafFor(h, k) = w[Depth]
<1> DEFINE Is(a) == a = [d \in Nat |->
                           IF d = 0 THEN root
                           ELSE LET n == a[d - 1]
                                IN IF h[n].left = NULL THEN n
                                   ELSE IF k < h[n].key THEN h[n].left ELSE h[n].right]
           at_ == CHOOSE a : Is(a)
<1>1. LeafFor(h, k) = at_[Depth]
  BY Zenon DEF LeafFor, Depth
<1>2. PICK w : Walk(h, k, w, Nat)
  BY WalkExists
<1>3. Is(w)
  <2>1. ASSUME NEW d \in Nat, d # 0 PROVE w[d] = Onward(h, w[d - 1], k)
    <3>1. d - 1 \in Nat /\ (d - 1) + 1 = d
      BY <2>1
    <3> QED
      BY <1>2, <3>1 DEF Walk
  <2> QED
    BY <1>2, <2>1 DEF Walk, Onward, Toward
<1>4. Is(at_)
  BY <1>3
<1>5. Walk(h, k, at_, Nat)
  <2> HIDE DEF at_
  <2> QED
    BY <1>4 DEF Walk, Onward, Toward
<1> QED
  BY <1>1, <1>5

-----------------------------------------------------------------------------
(* The way of key k from node x on: the least set that a search for k does *)
(* not leave.                                                              *)
Closed(h, k, S) == \A y \in S : Internal(h, y) => Toward(h, y, k) \in S
From(h, k, x) == {y \in Nodes : \A S \in SUBSET Nodes : x \in S /\ Closed(h, k, S) => y \in S}
Way(h, k) == From(h, k, root)

LEMMA FromLeast ==
  ASSUME NEW h, NEW k, NEW x, NEW S \in SUBSET Nodes, x \in S, Closed(h, k, S)
  PROVE  From(h, k, x) \subseteq S
BY DEF From

LEMMA FromIs ==
  ASSUME NEW h \in Heaps, NEW L \in SUBSET Nodes, Shape(h, L), NEW k, NEW x \in L
  PROVE  /\ x \in From(h, k, x) /\ From(h, k, x) \subseteq L
         /\ Closed(h, k, From(h, k, x))
<1>1. x \in From(h, k, x)
  BY DEF From
<1>2. \A y \in L : Internal(h, y) => Toward(h, y, k) \in L
  BY TowardIsKid DEF Shape, Children
<1>3. From(h, k, x) \subseteq L
  BY <1>2, FromLeast DEF Closed
<1>4. Closed(h, k, From(h, k, x))
  <2> SUFFICES ASSUME NEW y \in From(h, k, x), Internal(h, y)
               PROVE  Toward(h, y, k) \in From(h, k, x)
    BY DEF Closed
  <2>1. Toward(h, y, k) \in Nodes
    BY <1>2, <1>3
  <2> SUFFICES ASSUME NEW S \in SUBSET Nodes, x \in S, Closed(h, k, S)
               PROVE  Toward(h, y, k) \in S
    BY <2>1 DEF From
  <2>2. y \in S
    BY FromLeast
  <2> QED
    BY <2>2 DEF Closed
<1> QED
  BY <1>1, <1>3, <1>4

(* The way from x is x, and the way from the next node. *)
LEMMA FromNext ==
  ASSUME NEW h \in Heaps, NEW L \in SUBSET Nodes, Shape(h, L), NEW k, NEW x \in L,
         NEW y \in From(h, k, x), y # x
  PROVE  Internal(h, x) /\ Toward(h, x, k) \in L /\ y \in From(h, k, Toward(h, x, k))
<1>1. Internal(h, x)
  <2> SUFFICES ASSUME ~ Internal(h, x) PROVE FALSE
    OBVIOUS
  <2>1. {x} \in SUBSET Nodes /\ Closed(h, k, {x})
    BY DEF Closed
  <2> QED
    BY <2>1, FromLeast
<1>2. Toward(h, x, k) \in L
  BY <1>1, FromIs DEF Closed
<1> SUFFICES ASSUME NEW N, N = From(h, k, Toward(h, x, k)) PROVE y \in N
  BY <1>1, <1>2
<1>3. Toward(h, x, k) \in N /\ N \subseteq L /\ Closed(h, k, N)
  BY <1>2, FromIs
<1>4. {x} \cup N \in SUBSET Nodes /\ Closed(h, k, {x} \cup N)
  BY <1>3 DEF Closed
<1> QED
  BY <1>4, FromLeast

LEMMA FromRanked ==
  ASSUME NEW h \in Heaps, NEW L \in SUBSET Nodes, Shape(h, L), NEW k, NEW x \in L,
         NEW rank \in [Nodes -> Nat],
         \A z \in L : Internal(h, z) => \A c \in Kids(h, z) : rank[z] < rank[c],
         NEW y \in From(h, k, x)
  PROVE  y = x \/ rank[x] < rank[y]
<1> SUFFICES ASSUME NEW S, S = {z \in L : z = x \/ rank[x] < rank[z]}
             PROVE  y \in S
  OBVIOUS
<1>1. ASSUME NEW z \in S, Internal(h, z) PROVE Toward(h, z, k) \in S
  <2>1. z \in L /\ Toward(h, z, k) \in Kids(h, z) /\ Toward(h, z, k) \in L
    BY <1>1, TowardIsKid DEF Shape, Children
  <2>2. rank[z] < rank[Toward(h, z, k)]
    BY <1>1, <2>1
  <2>3. rank[x] \in Nat /\ rank[z] \in Nat /\ rank[Toward(h, z, k)] \in Nat
    BY <2>1
  <2> QED
    BY <2>1, <2>2, <2>3
<1>2. S \in SUBSET Nodes /\ x \in S /\ Closed(h, k, S)
  BY <1>1 DEF Closed
<1> QED
  BY <1>2, FromLeast

LEMMA WayIs ==
  ASSUME NEW h \in Heaps, NEW L \in SUBSET Nodes, Shape(h, L), NEW k
  PROVE  /\ root \in Way(h, k) /\ Way(h, k) \subseteq L /\ root \in L
         /\ \A y \in Way(h, k) : Internal(h, y) => Toward(h, y, k) \in Way(h, k)
BY FromIs, FrameFacts DEF Way, Closed

(* One comes to a node on a way from a node on that way, *)
LEMMA WayParent ==
  ASSUME NEW h \in Heaps, NEW L \in SUBSET Nodes, Shape(h, L), NEW k,
         NEW y \in Way(h, k), y # root
  PROVE  \E z \in Way(h, k) : Internal(h, z) /\ y = Toward(h, z, k)
<1> DEFINE S == {x \in Way(h, k) :
                   x = root \/ \E z \in Way(h, k) : Internal(h, z) /\ x = Toward(h, z, k)}
<1>1. S \in SUBSET Nodes /\ root \in S /\ Closed(h, k, S)
  BY WayIs DEF Closed
<1>2. y \in S
  <2> HIDE DEF S
  <2> QED
    BY <1>1, FromLeast DEF Way
<1> QED
  BY <1>2

(* and from one only. *)
LEMMA WayThrough ==
  ASSUME NEW h \in Heaps, NEW L \in SUBSET Nodes, Shape(h, L), NEW k,
         NEW z \in L, Internal(h, z), NEW y \in Kids(h, z), y \in Way(h, k)
  PROVE  z \in Way(h, k) /\ y = Toward(h, z, k)
<1>1. y # root /\ Children(h, L)
  BY DEF Shape, Children
<1>2. PICK x \in Way(h, k) : Internal(h, x) /\ y = Toward(h, x, k)
  BY <1>1, WayParent
<1>3. x \in L /\ y \in Kids(h, x)
  BY <1>2, WayIs, TowardIsKid
<1>4. x = z
  BY <1>1, <1>2, <1>3, OneParent
<1> QED
  BY <1>2, <1>4

(* A way ends at one leaf. *)
LEMMA OneLeaf ==
  ASSUME NEW h \in Heaps, NEW L \in SUBSET Nodes, Shape(h, L), NEW k,
         NEW n \in Way(h, k), ~ Internal(h, n), NEW m \in Way(h, k), ~ Internal(h, m)
  PROVE  n = m
<1> SUFFICES ASSUME NEW S, S = {z \in L : n \in From(h, k, z)} PROVE n = m
  OBVIOUS
<1>1. ASSUME NEW z \in S, Internal(h, z) PROVE Toward(h, z, k) \in S
  <2>1. z \in L /\ n \in From(h, k, z) /\ n # z
    BY <1>1
  <2> QED
    BY <2>1, FromNext
<1>2. S \in SUBSET Nodes /\ root \in S /\ Closed(h, k, S)
  BY <1>1, FrameFacts DEF Closed, Way
<1>3. m \in L /\ n \in From(h, k, m)
  BY <1>2, FromLeast DEF Way
<1> QED
  BY <1>3, FromNext

(* Where two ways part, everything that they share lies before. *)
LEMMA PartAfter ==
  ASSUME NEW h \in Heaps, NEW L \in SUBSET Nodes, Shape(h, L), NEW j, NEW k,
         NEW x \in Way(h, k), Toward(h, x, j) # Toward(h, x, k),
         NEW z \in Way(h, k), z \in Way(h, j)
  PROVE  x \in From(h, k, z)
<1> DEFINE S == {y \in Way(h, k) : y \in Way(h, j) => x \in From(h, k, y)}
<1>1. ASSUME NEW y \in S, Internal(h, y) PROVE Toward(h, y, k) \in S
  <2> SUFFICES ASSUME NEW c, c = Toward(h, y, k), c \in Way(h, j) PROVE x \in From(h, k, c)
    BY <1>1, WayIs
  <2>1. y \in L /\ c \in Kids(h, y)
    BY WayIs, TowardIsKid
  <2>2. y \in Way(h, j) /\ c = Toward(h, y, j)
    BY <1>1, <2>1, WayThrough
  <2>3. x \in From(h, k, y) /\ x # y
    BY <2>2
  <2> QED
    BY <2>1, <2>3, FromNext
<1>2. S \in SUBSET Nodes /\ root \in S /\ Closed(h, k, S)
  BY <1>1, WayIs DEF Closed, Way
<1>3. z \in S
  <2> HIDE DEF S
  <2> QED
    BY <1>2, FromLeast DEF Way
<1> QED
  BY <1>3

LEMMA PartOnce ==
  ASSUME NEW h \in Heaps, NEW L \in SUBSET Nodes, Shape(h, L), NEW j, NEW k,
         NEW x \in Way(h, j) \cap Way(h, k), Toward(h, x, j) # Toward(h, x, k),
         NEW y \in Way(h, j) \cap Way(h, k), Toward(h, y, j) # Toward(h, y, k)
  PROVE  x = y
<1>1. x \in From(h, k, y) /\ y \in From(h, k, x) /\ x \in L /\ y \in L
  BY PartAfter, WayIs
<1>2. PICK rank \in [Nodes -> Nat] :
        \A z \in L : Internal(h, z) => \A c \in Kids(h, z) : rank[z] < rank[c]
  BY DEF Shape, Ranked
<1>3. (x = y \/ rank[y] < rank[x]) /\ (y = x \/ rank[x] < rank[y])
  BY <1>1, <1>2, FromRanked
<1>4. rank[x] \in Nat /\ rank[y] \in Nat
  BY <1>1, <1>2
<1> QED
  BY <1>3, <1>4

(* A node on the ways of two keys is on those of the keys between them. *)
LEMMA WaysBetween ==
  ASSUME NEW h \in Heaps, NEW L \in SUBSET Nodes, Shape(h, L),
         NEW i \in Int, NEW j \in Int, NEW k \in Int, i <= j, j <= k,
         NEW x \in Way(h, i), x \in Way(h, k)
  PROVE  x \in Way(h, j)
<1> SUFFICES ASSUME NEW S, S = {y \in Way(h, i) : y \in Way(h, k) => y \in Way(h, j)}
             PROVE  x \in S
  OBVIOUS
<1>1. ASSUME NEW y \in S, Internal(h, y) PROVE Toward(h, y, i) \in S
  <2> SUFFICES ASSUME NEW c, c = Toward(h, y, i), c \in Way(h, k) PROVE c \in Way(h, j)
    BY <1>1, WayIs
  <2>1. y \in L /\ c \in Kids(h, y)
    BY WayIs, TowardIsKid
  <2>2. y \in Way(h, k) /\ c = Toward(h, y, k)
    BY <1>1, <2>1, WayThrough
  <2>3. h[y].left # h[y].right /\ h[y].key \in Int
    BY <1>1, <2>1 DEF Shape, Children, Heaps, Fields
  <2>4. c = Toward(h, y, j)
    BY <2>2, <2>3 DEF Toward
  <2>5. y \in Way(h, j)
    BY <2>2
  <2> QED
    BY <1>1, <2>4, <2>5, WayIs
<1>2. S \in SUBSET Nodes /\ root \in S /\ Closed(h, i, S)
  BY <1>1, WayIs DEF Closed
<1> QED
  BY <1>2, FromLeast DEF Way

-----------------------------------------------------------------------------
(* A leaf is on the way of its key.  An inner node, but for the two at the  *)
(* top, is on the way of its key, which goes right there, and of the key    *)
(* before, which goes left.                                                 *)
Sorted(h, L) ==
  /\ \A x \in L : ~ Internal(h, x) /\ x \notin {low, high} =>
       h[x].key \in Keys /\ x \in Way(h, h[x].key)
  /\ \A x \in L : Internal(h, x) /\ x \notin {root, h[root].right} =>
       /\ h[x].key \in minKey + 1 .. maxKey
       /\ x \in Way(h, h[x].key) /\ x \in Way(h, h[x].key - 1)

(* So no two inner nodes have the same key. *)
LEMMA InnerKey ==
  ASSUME NEW h \in Heaps, NEW L \in SUBSET Nodes, Shape(h, L), Sorted(h, L), minKey <= maxKey,
         NEW x \in L, Internal(h, x)
  PROVE  /\ x = root => h[x].key = minKey - 1
         /\ x = h[root].right => h[x].key = maxKey + 1
         /\ x # root => h[x].key \in minKey + 1 .. maxKey + 1
         /\ x # root /\ h[x].key = maxKey + 1 => x = h[root].right
<1>1. Frame(h, L) /\ ~ Internal(h, high) /\ h[root].right # root
  BY FrameFacts DEF Shape
<1>2. x = root => h[x].key = minKey - 1
  BY <1>1 DEF Frame
<1>3. x = h[root].right => h[x].key = maxKey + 1
  BY <1>1 DEF Frame
<1>4. x \notin {root, h[root].right} => h[x].key \in minKey + 1 .. maxKey
  BY DEF Sorted
<1> QED
  BY <1>1, <1>2, <1>3, <1>4, TreeAssumption

LEMMA InnerKeysApart ==
  ASSUME NEW h \in Heaps, NEW L \in SUBSET Nodes, Shape(h, L), Sorted(h, L), minKey <= maxKey,
         NEW x \in L, Internal(h, x), NEW y \in L, Internal(h, y), h[x].key = h[y].key
  PROVE  x = y
<1> SUFFICES ASSUME NEW k, k = h[x].key PROVE x = y
  OBVIOUS
<1>1. CASE k \in minKey + 1 .. maxKey
  <2>1. x \notin {root, h[root].right} /\ y \notin {root, h[root].right}
    BY <1>1, InnerKey, TreeAssumption
  <2>2. /\ x \in Way(h, k - 1) \cap Way(h, k)
        /\ y \in Way(h, k - 1) \cap Way(h, k)
    BY <2>1 DEF Sorted
  <2>3. k \in Int /\ k - 1 < k /\ ~ (k < k) /\ h[x].left # h[x].right /\ h[y].left # h[y].right
    BY <1>1, TreeAssumption DEF Shape, Children
  <2>4. Toward(h, x, k - 1) # Toward(h, x, k) /\ Toward(h, y, k - 1) # Toward(h, y, k)
    BY <2>3 DEF Toward
  <2> QED
    BY <2>2, <2>4, PartOnce
<1>2. CASE k \notin minKey + 1 .. maxKey
  BY <1>2, InnerKey, TreeAssumption
<1> QED
  BY <1>1, <1>2

(* The walk of a key comes to a leaf: it would pass more inner nodes than  *)
(* there are keys for them.                                                *)
LEMMA WalkEnds ==
  ASSUME NEW h \in Heaps, NEW L \in SUBSET Nodes, Shape(h, L), Sorted(h, L), NEW k \in Keys,
         NEW w, Walk(h, k, w, Nat)
  PROVE  w[Depth] \in Way(h, k) /\ ~ Internal(h, w[Depth])
<1>1. Depth \in Nat /\ minKey <= maxKey
  BY TreeAssumption DEF Depth, Keys
<1>2. w[0] = root /\ \A d \in Nat : w[d + 1] = Onward(h, w[d], k)
  BY DEF Walk
<1>3. ASSUME NEW d \in Nat PROVE w[d] \in Way(h, k)
  <2> DEFINE G == {i \in Nat : w[i] \in Way(h, k)}
  <2>1. 0 \in G
    BY <1>2, WayIs
  <2>2. ASSUME NEW i \in Nat, i \in G PROVE i + 1 \in G
    BY <1>2, <2>2, WayIs DEF Onward, Internal
  <2>3. Nat \subseteq G
    <3> HIDE DEF G
    <3> QED
      BY <2>1, <2>2, NatInductionIn
  <2> QED
    BY <2>3
<1> SUFFICES ASSUME Internal(h, w[Depth]) PROVE FALSE
  BY <1>1, <1>3
<1>4. ASSUME NEW d \in 0 .. Depth PROVE Internal(h, w[d])
  <2> SUFFICES ASSUME ~ Internal(h, w[d]) PROVE FALSE
    OBVIOUS
  <2>1. PICK G : G = {i \in Nat : w[d + i] = w[d]}
    OBVIOUS
  <2>2. 0 \in G /\ d \in Nat
    BY <1>1, <2>1
  <2>3. ASSUME NEW i \in Nat, i \in G PROVE i + 1 \in G
    <3>1. d + i \in Nat /\ (d + i) + 1 = d + (i + 1) /\ w[d + i] = w[d]
      BY <2>1, <2>2, <2>3
    <3>2. w[(d + i) + 1] = w[d]
      BY <1>2, <3>1 DEF Onward, Internal
    <3> QED
      BY <2>1, <3>1, <3>2
  <2>4. Nat \subseteq G
    BY <2>2, <2>3, NatInductionIn
  <2>5. Depth - d \in Nat /\ d + (Depth - d) = Depth
    BY <1>1
  <2>6. w[Depth] = w[d]
    BY <2>1, <2>4, <2>5
  <2> QED
    BY <2>6
<1>5. PICK rank \in [Nodes -> Nat] :
        \A z \in L : Internal(h, z) => \A c \in Kids(h, z) : rank[z] < rank[c]
  BY DEF Shape, Ranked
<1>6. ASSUME NEW d \in 0 .. Depth - 1 PROVE rank[w[d]] < rank[w[d + 1]]
  <2>1. d \in 0 .. Depth /\ d \in Nat
    BY <1>1
  <2>2. Internal(h, w[d]) /\ w[d] \in L
    BY <1>3, <1>4, <2>1, WayIs
  <2>3. w[d + 1] = Toward(h, w[d], k)
    BY <1>2, <2>1, <2>2 DEF Onward, Internal
  <2> QED
    BY <1>5, <2>2, <2>3, TowardIsKid
<1>7. ASSUME NEW e \in Nat, e <= Depth PROVE \A d \in 0 .. e - 1 : rank[w[d]] < rank[w[e]]
  <2> DEFINE G == {i \in Nat : i <= Depth => \A d \in 0 .. i - 1 : rank[w[d]] < rank[w[i]]}
  <2>1. 0 \in G
    OBVIOUS
  <2>2. ASSUME NEW i \in Nat, i \in G PROVE i + 1 \in G
    <3> SUFFICES ASSUME i + 1 <= Depth, NEW d \in 0 .. (i + 1) - 1
                 PROVE  rank[w[d]] < rank[w[i + 1]]
      OBVIOUS
    <3>1. i <= Depth /\ i \in 0 .. Depth - 1 /\ d \in Nat /\ i + 1 \in Nat
      BY <1>1
    <3>2. rank[w[i]] < rank[w[i + 1]]
      BY <1>6, <3>1
    <3>3. w[d] \in Nodes /\ w[i] \in Nodes /\ w[i + 1] \in Nodes
      BY <1>3, <3>1, WayIs
    <3>4. rank[w[d]] \in Nat /\ rank[w[i]] \in Nat /\ rank[w[i + 1]] \in Nat
      BY <3>3
    <3>5. d # i => rank[w[d]] < rank[w[i]]
      BY <2>2, <3>1
    <3> QED
      BY <3>2, <3>4, <3>5
  <2>3. Nat \subseteq G
    <3> HIDE DEF G
    <3> QED
      BY <2>1, <2>2, NatInductionIn
  <2> QED
    BY <1>7, <2>3
<1>8. ASSUME NEW i \in 0 .. Depth, NEW j \in 0 .. Depth, i < j PROVE w[i] # w[j]
  <2>1. i \in 0 .. j - 1 /\ j \in Nat /\ j <= Depth /\ i \in Nat
    BY <1>1, <1>8
  <2>2. rank[w[i]] < rank[w[j]] /\ rank[w[i]] \in Nat
    BY <1>3, <1>7, <2>1, WayIs
  <2> QED
    BY <2>2
<1> DEFINE g == [i \in 0 .. Depth |-> IF w[i] = root THEN minKey ELSE h[w[i]].key]
<1>9. ASSUME NEW i \in 0 .. Depth
      PROVE  /\ w[i] \in L /\ Internal(h, w[i])
             /\ w[i] # root => h[w[i]].key \in minKey + 1 .. maxKey + 1
  <2>1. i \in Nat
    BY <1>1
  <2>2. w[i] \in L /\ Internal(h, w[i])
    BY <1>3, <1>4, <2>1, WayIs
  <2> QED
    BY <1>1, <2>2, InnerKey
<1>10. g \in [0 .. Depth -> minKey .. maxKey + 1]
  BY <1>1, <1>9, TreeAssumption
<1>11. /\ IsFiniteSet(0 .. Depth) /\ IsFiniteSet(minKey .. maxKey + 1)
       /\ Cardinality(minKey .. maxKey + 1) < Cardinality(0 .. Depth)
  <2>1. /\ IsFiniteSet(0 .. Depth)
        /\ Cardinality(0 .. Depth) = IF 0 > Depth THEN 0 ELSE Depth - 0 + 1
    BY <1>1, FS_Interval
  <2>2. maxKey + 1 \in Int /\ minKey \in Int
    BY TreeAssumption
  <2>3. /\ IsFiniteSet(minKey .. maxKey + 1)
        /\ Cardinality(minKey .. maxKey + 1) =
             IF minKey > maxKey + 1 THEN 0 ELSE (maxKey + 1) - minKey + 1
    BY <2>2, FS_Interval
  <2> QED
    BY <1>1, <2>1, <2>3, TreeAssumption DEF Depth
<1>12. PICK i, j \in 0 .. Depth : i # j /\ g[i] = g[j]
  <2> HIDE DEF g
  <2> QED
    BY <1>10, <1>11, FS_PigeonHole
<1>13. w[i] = w[j]
  <2>1. CASE w[i] = root \/ w[j] = root
    BY <1>9, <1>12, <2>1, TreeAssumption
  <2>2. CASE w[i] # root /\ w[j] # root
    BY <1>1, <1>9, <1>12, <2>2, InnerKeysApart
  <2> QED
    BY <2>1, <2>2
<1>14. i < j \/ j < i
  BY <1>1, <1>12
<1> QED
  BY <1>8, <1>13, <1>14

(* LeafFor finds the leaf of the way. *)
LEMMA LeafForWay ==
  ASSUME NEW h \in Heaps, NEW L \in SUBSET Nodes, Shape(h, L), Sorted(h, L), NEW k \in Keys
  PROVE  /\ LeafFor(h, k) \in Way(h, k) /\ ~ Internal(h, LeafFor(h, k))
         /\ \A n \in Way(h, k) : ~ Internal(h, n) => n = LeafFor(h, k)
<1>1. LeafFor(h, k) \in Way(h, k) /\ ~ Internal(h, LeafFor(h, k))
  BY LeafForIs, WalkEnds
<1> QED
  BY <1>1, OneLeaf

(* The keys in the tree are those of its leaves. *)
LEMMA ElementsOfIs ==
  ASSUME NEW h \in Heaps, NEW L \in SUBSET Nodes, Shape(h, L), Sorted(h, L)
  PROVE  ElementsOf(h) = {k \in Keys : \E x \in L : ~ Internal(h, x) /\ h[x].key = k}
<1> SUFFICES ASSUME NEW k \in Keys
             PROVE  (h[LeafFor(h, k)].key = k) <=> \E x \in L : ~ Internal(h, x) /\ h[x].key = k
  BY DEF ElementsOf
<1>1. /\ LeafFor(h, k) \in Way(h, k) /\ ~ Internal(h, LeafFor(h, k)) /\ LeafFor(h, k) \in L
      /\ \A n \in Way(h, k) : ~ Internal(h, n) => n = LeafFor(h, k)
  BY LeafForWay, WayIs
<1>2. ASSUME NEW x \in L, ~ Internal(h, x), h[x].key = k PROVE x = LeafFor(h, k)
  <2>1. k # minKey - 1 /\ k # maxKey + 1
    BY TreeAssumption DEF Keys
  <2>2. x \notin {low, high}
    BY <1>2, <2>1, FrameFacts
  <2>3. x \in Way(h, k)
    BY <1>2, <2>2 DEF Sorted
  <2> QED
    BY <1>1, <1>2, <2>3
<1> QED
  BY <1>1, <1>2

-----------------------------------------------------------------------------
(* An insert leads the searches that came to the leaf n to the new node b,  *)
(* and all others where they went.                                         *)
Grew(h, L, g, n, a, b, k) ==
  /\ \A x \in L : g[x].key = h[x].key /\ (Internal(g, x) <=> Internal(h, x))
  /\ \A x \in L, j \in Int :
       Internal(h, x) => Toward(g, x, j) = IF Toward(h, x, j) = n THEN b ELSE Toward(h, x, j)
  /\ ~ Internal(g, a) /\ g[a].key = k
  /\ Internal(g, b) /\ g[b].key = IF k < h[n].key THEN h[n].key ELSE k
  /\ \A j \in Int : Toward(g, b, j) = IF k < h[n].key THEN IF j < h[n].key THEN a ELSE n
                                      ELSE IF j < k THEN n ELSE a

LEMMA GrowLeads ==
  ASSUME NEW h \in Heaps, NEW L \in SUBSET Nodes, Shape(h, L), NEW k \in Keys,
         NEW p \in L, NEW n \in L, Internal(h, p), n = Toward(h, p, k), ~ Internal(h, n),
         NEW a \in Nodes \ L, NEW b \in Nodes \ L, a # b,
         NEW g, g = Grow(h, p, n, k, a, b)
  PROVE  Grew(h, L, g, n, a, b, k)
<1> DEFINE leaf == createLeaf(k)
           node == IF k < h[n].key THEN createInternal(h[n].key, a, n)
                   ELSE createInternal(k, n, a)
           top == Replaced(h, p, n, b)
<1>1. /\ Children(h, L) /\ k \in Int /\ n \in Kids(h, p) /\ h[n].key \in Int
  BY TowardIsKid, TreeAssumption DEF Shape, Heaps, Fields, Keys
<1>2. p # n /\ p # a /\ p # b /\ n # a /\ n # b /\ h[p].left # h[p].right
  BY <1>1, NoCycle DEF Children
<1>3. leaf \in Fields /\ leaf.left = NULL /\ leaf.key = k
  BY <1>1, Leaves
<1>4. /\ node \in Fields /\ node.left # NULL
      /\ k < h[n].key => node.key = h[n].key /\ node.left = a /\ node.right = n
      /\ ~ (k < h[n].key) => node.key = k /\ node.left = n /\ node.right = a
  BY <1>1, <1>2, Internals
<1>5. /\ top \in Fields /\ top.key = h[p].key
      /\ h[p].left = n => top.left = b /\ top.right = h[p].right
      /\ h[p].right = n => top.right = b /\ top.left = h[p].left
  BY <1>1, <1>2, ReplacedIs
<1>0. g = [h EXCEPT ![a] = leaf, ![b] = node, ![p] = top]
  BY Zenon DEF Grow
<1> HIDE DEF leaf, node, top
<1>6. /\ g[a] = leaf /\ g[b] = node /\ g[p] = top
      /\ \A x \in L \ {p} : g[x] = h[x]
  BY <1>0, <1>2, <1>3, <1>4, <1>5 DEF Heaps
<1>7. ASSUME NEW x \in L
      PROVE  g[x].key = h[x].key /\ (Internal(g, x) <=> Internal(h, x))
  <2>1. CASE x = p
    <3>1. g[p].left # NULL /\ g[p].key = h[p].key
      BY <1>1, <1>5, <1>6, TreeAssumption DEF Internal, Kids
    <3> QED
      BY <2>1, <3>1 DEF Internal
  <2>2. CASE x # p
    BY <1>6, <2>2 DEF Internal
  <2> QED
    BY <2>1, <2>2
<1>8. ASSUME NEW x \in L, NEW j \in Int, Internal(h, x)
      PROVE  Toward(g, x, j) = IF Toward(h, x, j) = n THEN b ELSE Toward(h, x, j)
  <2>1. CASE x = p
    <3>1. g[p].key = h[p].key /\ (h[p].left = n \/ h[p].right = n)
      BY <1>1, <1>5, <1>6 DEF Kids
    <3>2. CASE h[p].left = n
      <4>1. g[p].left = b /\ g[p].right = h[p].right
        BY <1>5, <1>6, <3>2
      <4> QED
        BY <1>2, <2>1, <3>1, <3>2, <4>1 DEF Toward
    <3>3. CASE h[p].right = n
      <4>1. g[p].right = b /\ g[p].left = h[p].left
        BY <1>5, <1>6, <3>3
      <4> QED
        BY <1>2, <2>1, <3>1, <3>3, <4>1 DEF Toward
    <3> QED
      BY <3>1, <3>2, <3>3
  <2>2. CASE x # p
    <3>1. Toward(h, x, j) # n
      BY <1>1, <1>8, <2>2, TowardIsKid, OneParent
    <3>2. g[x] = h[x]
      BY <1>6, <2>2
    <3> QED
      BY <3>1, <3>2 DEF Toward
  <2> QED
    BY <2>1, <2>2
<1>9. /\ ~ Internal(g, a) /\ g[a].key = k
      /\ Internal(g, b) /\ g[b].key = IF k < h[n].key THEN h[n].key ELSE k
  BY <1>3, <1>4, <1>6 DEF Internal
<1>10. ASSUME NEW j \in Int
       PROVE  Toward(g, b, j) = IF k < h[n].key THEN IF j < h[n].key THEN a ELSE n
                                ELSE IF j < k THEN n ELSE a
  BY <1>4, <1>6 DEF Toward
<1> QED
  BY <1>7, <1>8, <1>9, <1>10 DEF Grew

LEMMA GrowWay ==
  ASSUME NEW h \in Heaps, NEW L \in SUBSET Nodes, Shape(h, L), NEW k, NEW n \in L \ {root},
         ~ Internal(h, n), NEW a, NEW b,
         NEW g \in Heaps, NEW M \in SUBSET Nodes, Shape(g, M), Grew(h, L, g, n, a, b, k),
         NEW j \in Int
  PROVE  /\ \A y \in Way(h, j) : y # n => y \in Way(g, j)
         /\ n \in Way(h, j) => b \in Way(g, j) /\ Toward(g, b, j) \in Way(g, j)
<1> DEFINE S == {y \in Way(h, j) : (y # n => y \in Way(g, j)) /\ (y = n => b \in Way(g, j))}
<1>1. ASSUME NEW y \in S, Internal(h, y) PROVE Toward(h, y, j) \in S
  <2>1. y \in Way(h, j) /\ y # n /\ y \in Way(g, j) /\ y \in L
    BY <1>1, WayIs
  <2>2. Internal(g, y) /\ Toward(g, y, j) = IF Toward(h, y, j) = n THEN b ELSE Toward(h, y, j)
    BY <1>1, <2>1 DEF Grew
  <2>3. Toward(h, y, j) \in Way(h, j) /\ Toward(g, y, j) \in Way(g, j)
    BY <1>1, <2>1, <2>2, WayIs
  <2> QED
    BY <2>2, <2>3
<1>2. S \in SUBSET Nodes /\ root \in S /\ Closed(h, j, S)
  BY <1>1, WayIs DEF Closed
<1>3. Way(h, j) \subseteq S
  <2> HIDE DEF S
  <2> QED
    BY <1>2, FromLeast DEF Way
<1>4. b \in Way(g, j) => Toward(g, b, j) \in Way(g, j)
  BY WayIs DEF Grew
<1> QED
  BY <1>3, <1>4

(* The leaf that a search for a key ends at, but for the two of the        *)
(* constructor, is below another node than the root.                       *)
LEMMA LeafAside ==
  ASSUME NEW h \in Heaps, NEW L \in SUBSET Nodes, Shape(h, L), NEW k \in Keys,
         NEW p \in L, NEW n \in L, Internal(h, p), n = Toward(h, p, k), ~ Internal(h, n)
  PROVE  /\ n # low /\ n # root
         /\ p = root <=> n = high
         /\ p = root <=> n = h[root].right
<1>1. /\ root \in L /\ low \in L /\ high \in L /\ Internal(h, root) /\ ~ Internal(h, high)
      /\ Toward(h, root, k) = h[root].right
      /\ h[root].right # high => Toward(h, h[root].right, k) = h[h[root].right].left
      /\ h[root].right \in L \ {root, low}
  BY FrameFacts
<1>2. Frame(h, L) /\ Children(h, L) /\ n \in Kids(h, p)
  BY TowardIsKid DEF Shape
<1>3. low \in Kids(h, root) /\ h[root].right \in Kids(h, root)
  BY <1>2 DEF Frame, Kids
<1>4. n \in Kids(h, root) => p = root
  BY <1>1, <1>2, OneParent
<1>5. p = root => n = h[root].right /\ n = high
  BY <1>1, <1>2 DEF Frame
<1>6. ASSUME n = high, p # root PROVE FALSE
  <2>1. h[root].right # high
    BY <1>3, <1>4, <1>6
  <2>2. Internal(h, h[root].right) /\ h[h[root].right].right = high
    BY <1>2, <2>1 DEF Frame
  <2>3. high \in Kids(h, h[root].right)
    BY <2>2 DEF Kids
  <2>4. p = h[root].right
    BY <1>1, <1>2, <1>6, <2>2, <2>3, OneParent
  <2>5. h[p].left # h[p].right
    BY <1>2 DEF Children
  <2> QED
    BY <1>1, <1>6, <2>1, <2>2, <2>4, <2>5
<1> QED
  BY <1>1, <1>3, <1>4, <1>5, <1>6

LEMMA GrownSorted ==
  ASSUME NEW h \in Heaps, NEW L \in SUBSET Nodes, Shape(h, L), Sorted(h, L), NEW k \in Keys,
         NEW p \in L, NEW n \in L, Internal(h, p), n = Toward(h, p, k), ~ Internal(h, n),
         n \in Way(h, k), h[n].key # k,
         NEW a \in Nodes \ L, NEW b \in Nodes \ L,
         NEW g \in Heaps, NEW M, M = L \cup {a, b}, Shape(g, M), Grew(h, L, g, n, a, b, k)
  PROVE  Sorted(g, M)
<1>1. /\ n # low /\ n # root /\ (p = root <=> n = high) /\ (p = root <=> n = h[root].right)
      /\ k \in Int /\ h[n].key \in Int /\ minKey \in Int /\ maxKey \in Int
      /\ minKey <= k /\ k <= maxKey
  BY LeafAside, TreeAssumption DEF Keys, Heaps, Fields
<1>2. M \in SUBSET Nodes
  OBVIOUS
<1>3. ASSUME NEW j \in Int
      PROVE  /\ \A y \in Way(h, j) : y # n => y \in Way(g, j)
             /\ n \in Way(h, j) => b \in Way(g, j) /\ Toward(g, b, j) \in Way(g, j)
  BY <1>1, <1>2, GrowWay
<1>4. ASSUME n # high
      PROVE  h[n].key \in Keys /\ n \in Way(h, h[n].key)
  BY <1>1, <1>4 DEF Sorted
<1>5. ASSUME NEW x \in M, ~ Internal(g, x), x \notin {low, high}
      PROVE  g[x].key \in Keys /\ x \in Way(g, g[x].key)
  <2>1. CASE x = a
    <3>1. g[x].key = k /\ Toward(g, b, k) = a
      BY <1>1, <2>1 DEF Grew
    <3> QED
      BY <1>1, <1>3, <2>1, <3>1
  <2>2. CASE x = n
    <3>1. g[x].key = h[n].key /\ Toward(g, b, h[n].key) = n
      BY <1>1, <2>2 DEF Grew
    <3> QED
      BY <1>1, <1>3, <1>4, <1>5, <2>2, <3>1
  <2>3. CASE x \in L \ {n}
    <3>1. g[x].key = h[x].key /\ ~ Internal(h, x) /\ h[x].key \in Int
      BY <1>5, <2>3 DEF Grew, Heaps, Fields
    <3>2. h[x].key \in Keys /\ x \in Way(h, h[x].key)
      BY <1>5, <2>3, <3>1 DEF Sorted
    <3> QED
      BY <1>3, <2>3, <3>1, <3>2
  <2> QED
    BY <1>5, <2>1, <2>2, <2>3 DEF Grew
<1>6. g[root].right = IF p = root THEN b ELSE h[root].right
  <2>1. /\ root \in L /\ Internal(h, root) /\ Toward(h, root, k) = h[root].right
    BY FrameFacts
  <2>2. Toward(g, root, k) = g[root].right
    BY <1>2, FrameFacts
  <2> QED
    BY <1>1, <2>1, <2>2 DEF Grew
<1>7. ASSUME NEW x \in M, Internal(g, x), x \notin {root, g[root].right}
      PROVE  /\ g[x].key \in minKey + 1 .. maxKey
             /\ x \in Way(g, g[x].key) /\ x \in Way(g, g[x].key - 1)
  <2>1. CASE x = b
    <3>1. n # high
      BY <1>1, <1>6, <1>7, <2>1
    <3> SUFFICES ASSUME NEW m, m = IF k < h[n].key THEN h[n].key ELSE k
                 PROVE  /\ m \in minKey + 1 .. maxKey
                        /\ b \in Way(g, m) /\ b \in Way(g, m - 1)
      BY <2>1 DEF Grew
    <3>2. /\ m \in Int /\ m - 1 \in Int /\ m \in minKey + 1 .. maxKey
          /\ \/ k <= m - 1 /\ m - 1 <= h[n].key /\ m = h[n].key
             \/ h[n].key <= m - 1 /\ m - 1 <= k /\ m = k
      BY <1>1, <1>4, <3>1 DEF Keys
    <3>3. n \in Way(h, m) /\ n \in Way(h, m - 1)
      <4>1. CASE k <= m - 1 /\ m - 1 <= h[n].key /\ m = h[n].key
        BY <1>1, <1>4, <3>1, <3>2, <4>1, WaysBetween
      <4>2. CASE h[n].key <= m - 1 /\ m - 1 <= k /\ m = k
        BY <1>1, <1>4, <3>1, <3>2, <4>2, WaysBetween
      <4> QED
        BY <3>2, <4>1, <4>2
    <3> QED
      BY <1>3, <3>2, <3>3
  <2>2. CASE x \in L
    <3>1. g[x].key = h[x].key /\ Internal(h, x) /\ x # n /\ h[x].key \in Int
      BY <1>7, <2>2 DEF Grew, Heaps, Fields
    <3>2. x # h[root].right
      BY <1>1, <1>6, <1>7, <3>1
    <3>3. /\ h[x].key \in minKey + 1 .. maxKey
          /\ x \in Way(h, h[x].key) /\ x \in Way(h, h[x].key - 1)
      BY <1>7, <2>2, <3>1, <3>2 DEF Sorted
    <3>4. h[x].key - 1 \in Int
      BY <3>1
    <3> QED
      BY <1>3, <3>1, <3>3, <3>4
  <2> QED
    BY <1>7, <2>1, <2>2 DEF Grew
<1> QED
  BY <1>5, <1>7 DEF Sorted

(* The insert adds its key. *)
LEMMA GrownElements ==
  ASSUME NEW h \in Heaps, NEW L \in SUBSET Nodes, Shape(h, L), Sorted(h, L), NEW k \in Keys,
         NEW n, NEW a \in Nodes \ L, NEW b \in Nodes \ L,
         NEW g \in Heaps, NEW M \in SUBSET Nodes, M = L \cup {a, b}, Shape(g, M), Sorted(g, M),
         Grew(h, L, g, n, a, b, k)
  PROVE  ElementsOf(g) = ElementsOf(h) \cup {k}
<1>1. /\ ElementsOf(g) = {j \in Keys : \E x \in M : ~ Internal(g, x) /\ g[x].key = j}
      /\ ElementsOf(h) = {j \in Keys : \E x \in L : ~ Internal(h, x) /\ h[x].key = j}
  BY ElementsOfIs
<1>2. /\ \A x \in L : g[x].key = h[x].key /\ (Internal(g, x) <=> Internal(h, x))
      /\ ~ Internal(g, a) /\ g[a].key = k /\ Internal(g, b)
  BY DEF Grew
<1> QED
  BY <1>1, <1>2

-----------------------------------------------------------------------------
(* An erase leads the searches that came to the parent p of its leaf n to   *)
(* the sibling s of the leaf.                                              *)
Shrank(h, L, g, p, n, s) ==
  /\ s \in L \ {p, n, root} /\ p # n /\ Kids(h, p) = {n, s} /\ p \notin {root, low, high}
  /\ n \notin {root, low, high}
  /\ \A x \in L \ {p, n} : g[x].key = h[x].key /\ (Internal(g, x) <=> Internal(h, x))
  /\ \A x \in L \ {p}, j \in Int :
       Internal(h, x) => Toward(g, x, j) = IF Toward(h, x, j) = p THEN s ELSE Toward(h, x, j)

LEMMA ShrinkLeads ==
  ASSUME NEW h \in Heaps, NEW L \in SUBSET Nodes, Shape(h, L), NEW k \in Keys,
         NEW q \in L, NEW p \in L, NEW n \in L,
         Internal(h, q), Internal(h, p), p = Toward(h, q, k), n = Toward(h, p, k),
         ~ Internal(h, n), h[n].key = k,
         NEW g, g = Shrink(h, q, p, n)
  PROVE  \E s : Shrank(h, L, g, p, n, s)
<1> SUFFICES ASSUME NEW s, s = IF h[p].left = n THEN h[p].right ELSE h[p].left
             PROVE  Shrank(h, L, g, p, n, s)
  OBVIOUS
<1> SUFFICES ASSUME NEW top, top = Replaced(h, q, p, s) PROVE Shrank(h, L, g, p, n, s)
  OBVIOUS
<1>1. /\ Children(h, L) /\ p \in Kids(h, q) /\ n \in Kids(h, p)
      /\ p # n /\ q # n /\ q # p
      /\ p \notin {root, low, high} /\ n \notin {root, low, high}
  BY ErasePlace DEF Shape
<1>2. h[p].left # h[p].right /\ h[q].left # h[q].right
  BY <1>1 DEF Children
<1>3. Kids(h, p) = {n, s} /\ s # n
  BY <1>1, <1>2 DEF Kids
<1>4. s \in Kids(h, p) /\ s \in L \ {p, n, root}
  <2>1. s \in Kids(h, p)
    BY <1>3
  <2> QED
    BY <1>1, <1>3, <2>1, NoCycle DEF Children
<1>5. /\ top \in Fields /\ top.key = h[q].key
      /\ h[q].left = p => top.left = s /\ top.right = h[q].right
      /\ h[q].right = p => top.right = s /\ top.left = h[q].left
  BY <1>1, <1>2, <1>4, ReplacedIs
<1>6. g = [h EXCEPT ![q] = top]
  BY Zenon DEF Shrink
<1>7. g[q] = top /\ \A x \in L \ {q} : g[x] = h[x]
  BY <1>5, <1>6 DEF Heaps
<1>8. ASSUME NEW x \in L \ {p, n}
      PROVE  g[x].key = h[x].key /\ (Internal(g, x) <=> Internal(h, x))
  <2>1. CASE x = q
    <3>1. g[q].left # NULL /\ g[q].key = h[q].key
      BY <1>1, <1>4, <1>5, <1>7, TreeAssumption DEF Internal, Kids
    <3> QED
      BY <2>1, <3>1 DEF Internal
  <2>2. CASE x # q
    BY <1>7, <2>2 DEF Internal
  <2> QED
    BY <2>1, <2>2
<1>9. ASSUME NEW x \in L \ {p}, NEW j \in Int, Internal(h, x)
      PROVE  Toward(g, x, j) = IF Toward(h, x, j) = p THEN s ELSE Toward(h, x, j)
  <2>1. CASE x = q
    <3>1. g[q].key = h[q].key /\ (h[q].left = p \/ h[q].right = p)
      BY <1>1, <1>5, <1>7 DEF Kids
    <3>2. CASE h[q].left = p
      <4>1. g[q].left = s /\ g[q].right = h[q].right
        BY <1>5, <1>7, <3>2
      <4> QED
        BY <1>2, <2>1, <3>1, <3>2, <4>1 DEF Toward
    <3>3. CASE h[q].right = p
      <4>1. g[q].right = s /\ g[q].left = h[q].left
        BY <1>5, <1>7, <3>3
      <4> QED
        BY <1>2, <2>1, <3>1, <3>3, <4>1 DEF Toward
    <3> QED
      BY <3>1, <3>2, <3>3
  <2>2. CASE x # q
    <3>1. Toward(h, x, j) # p
      BY <1>1, <1>9, <2>2, TowardIsKid, OneParent
    <3>2. g[x] = h[x]
      BY <1>7, <2>2
    <3> QED
      BY <3>1, <3>2 DEF Toward
  <2> QED
    BY <2>1, <2>2
<1> QED
  BY <1>1, <1>3, <1>4, <1>8, <1>9 DEF Shrank

LEMMA ShrinkWay ==
  ASSUME NEW h \in Heaps, NEW L \in SUBSET Nodes, Shape(h, L), NEW p \in L, NEW n \in L, NEW s,
         Internal(h, p), ~ Internal(h, n),
         NEW g \in Heaps, NEW M \in SUBSET Nodes, Shape(g, M), Shrank(h, L, g, p, n, s),
         NEW j \in Int
  PROVE  \A y \in Way(h, j) : y \notin {p, n} => y \in Way(g, j)
<1> DEFINE S == {y \in Way(h, j) : (y \notin {p, n} => y \in Way(g, j)) /\ (y = p => s \in Way(g, j))}
<1>0. s \in L \ {p, n, root} /\ p # n /\ p # root /\ n # root /\ Kids(h, p) = {n, s}
  BY DEF Shrank
<1>1. ASSUME NEW y \in S, Internal(h, y) PROVE Toward(h, y, j) \in S
  <2>1. y \in Way(h, j) /\ y # n /\ y \in L /\ Toward(h, y, j) \in Way(h, j)
    BY <1>1, WayIs
  <2>2. CASE y = p
    <3>1. Toward(h, y, j) \in {n, s} /\ s \in Way(g, j)
      BY <1>0, <1>1, <2>2, TowardIsKid
    <3> QED
      BY <1>0, <2>1, <3>1
  <2>3. CASE y # p
    <3>1. /\ Internal(g, y) /\ y \in Way(g, j)
          /\ Toward(g, y, j) = IF Toward(h, y, j) = p THEN s ELSE Toward(h, y, j)
      BY <1>1, <2>1, <2>3 DEF Shrank
    <3>2. Toward(g, y, j) \in Way(g, j)
      BY <3>1, WayIs
    <3> QED
      BY <2>1, <3>1, <3>2
  <2> QED
    BY <2>2, <2>3
<1>2. S \in SUBSET Nodes /\ root \in S /\ Closed(h, j, S)
  BY <1>0, <1>1, WayIs DEF Closed
<1>3. Way(h, j) \subseteq S
  <2> HIDE DEF S
  <2> QED
    BY <1>2, FromLeast DEF Way
<1> QED
  BY <1>3

LEMMA ShrunkSorted ==
  ASSUME NEW h \in Heaps, NEW L \in SUBSET Nodes, Shape(h, L), Sorted(h, L),
         NEW p \in L, NEW n \in L, NEW s, Internal(h, p), ~ Internal(h, n),
         NEW g \in Heaps, NEW M \in SUBSET Nodes, M = L \ {p, n}, Shape(g, M),
         Shrank(h, L, g, p, n, s), Keys # {}
  PROVE  Sorted(g, M)
<1>1. ASSUME NEW j \in Int
      PROVE  \A y \in Way(h, j) : y \notin {p, n} => y \in Way(g, j)
  BY <1>1, ShrinkWay
<1>2. ASSUME NEW x \in M
      PROVE  /\ g[x].key = h[x].key /\ (Internal(g, x) <=> Internal(h, x))
             /\ x \in L \ {p, n} /\ h[x].key \in Int /\ h[x].key - 1 \in Int
  BY DEF Shrank, Heaps, Fields
<1>3. ASSUME NEW x \in M, ~ Internal(g, x), x \notin {low, high}
      PROVE  g[x].key \in Keys /\ x \in Way(g, g[x].key)
  BY <1>1, <1>2, <1>3 DEF Sorted
<1>4. g[root].right = IF h[root].right = p THEN s ELSE h[root].right
  <2>1. PICK k \in Keys : TRUE
    OBVIOUS
  <2>2. /\ root \in L /\ Internal(h, root) /\ Toward(h, root, k) = h[root].right
    BY FrameFacts
  <2>3. Toward(g, root, k) = g[root].right
    BY FrameFacts
  <2>4. k \in Int /\ p # root
    BY TreeAssumption DEF Keys, Shrank
  <2> QED
    BY <2>2, <2>3, <2>4 DEF Shrank
<1>5. ASSUME NEW x \in M, Internal(g, x), x \notin {root, g[root].right}
      PROVE  /\ g[x].key \in minKey + 1 .. maxKey
             /\ x \in Way(g, g[x].key) /\ x \in Way(g, g[x].key - 1)
  <2>1. x # h[root].right
    BY <1>2, <1>4, <1>5
  <2>2. /\ h[x].key \in minKey + 1 .. maxKey
        /\ x \in Way(h, h[x].key) /\ x \in Way(h, h[x].key - 1)
    BY <1>2, <1>5, <2>1 DEF Sorted
  <2> QED
    BY <1>1, <1>2, <2>2
<1> QED
  BY <1>3, <1>5 DEF Sorted

(* The erase removes its key: no other leaf has it. *)
LEMMA ShrunkElements ==
  ASSUME NEW h \in Heaps, NEW L \in SUBSET Nodes, Shape(h, L), Sorted(h, L), NEW k \in Keys,
         NEW p \in L, NEW n \in L, NEW s, Internal(h, p), ~ Internal(h, n), h[n].key = k,
         NEW g \in Heaps, NEW M \in SUBSET Nodes, M = L \ {p, n}, Shape(g, M), Sorted(g, M),
         Shrank(h, L, g, p, n, s)
  PROVE  ElementsOf(g) = ElementsOf(h) \ {k}
<1>1. /\ ElementsOf(g) = {j \in Keys : \E x \in M : ~ Internal(g, x) /\ g[x].key = j}
      /\ ElementsOf(h) = {j \in Keys : \E x \in L : ~ Internal(h, x) /\ h[x].key = j}
  BY ElementsOfIs
<1>2. \A x \in M : g[x].key = h[x].key /\ (Internal(g, x) <=> Internal(h, x))
  BY DEF Shrank
<1>3. ASSUME NEW x \in L, ~ Internal(h, x), h[x].key = k PROVE x = n
  <2>1. /\ h[low].key = minKey - 1 /\ h[high].key = maxKey + 1
        /\ k # minKey - 1 /\ k # maxKey + 1
    BY FrameFacts, TreeAssumption DEF Keys
  <2>2. x \notin {low, high} /\ n \notin {low, high}
    BY <1>3, <2>1
  <2>3. x \in Way(h, k) /\ n \in Way(h, k)
    BY <1>3, <2>2 DEF Sorted
  <2> QED
    BY <1>3, <2>3, OneLeaf
<1> QED
  BY <1>1, <1>2, <1>3

-----------------------------------------------------------------------------
(* The operations in progress, for the abstract set. *)
AbsCall == [t \in Threads |-> [op |-> op[t], key |-> key[t]]]

(* The contents E justify that the operation of t answers r and leaves S. *)
Explains(t, r, E, S) ==
  \/ op[t] = "insert" /\ r = TRUE /\ key[t] \notin E /\ S = E \cup {key[t]}
  \/ op[t] = "erase" /\ r = TRUE /\ key[t] \in E /\ S = E \ {key[t]}
  \/ op[t] = "insert" /\ r = FALSE /\ E \in seen[t] /\ key[t] \in E /\ S = E
  \/ op[t] = "erase" /\ r = FALSE /\ E \in seen[t] /\ key[t] \notin E /\ S = E
  \/ op[t] = "contains" /\ r = TRUE /\ E \in seen[t] /\ key[t] \in E /\ S = E
  \/ op[t] = "contains" /\ r = FALSE /\ E \in seen[t] /\ key[t] \notin E /\ S = E

LEMMA SetAnswer ==
  ASSUME NEW t \in Threads, NEW r, NEW E, NEW S, Contents = E, Contents' = S,
         AbsCall' = [AbsCall EXCEPT ![t] = Abstract!Idle],
         seen' = [u \in Threads |-> IF u = t \/ AbsCall[u] = Abstract!Idle
                                    THEN {} ELSE seen[u] \cup {S}],
         result' = [result EXCEPT ![t] = r], Explains(t, r, E, S)
  PROVE  Abstract!SetStep(t)
<1>1. AbsCall[t].op = op[t] /\ AbsCall[t].key = key[t]
  BY DEF AbsCall
<1>2. CASE op[t] = "insert" /\ r = TRUE /\ key[t] \notin E /\ S = E \cup {key[t]}
  <2>1. S = Contents \cup {AbsCall[t].key} /\ result' = [result EXCEPT ![t] = TRUE]
    BY <1>1, <1>2
  <2>2. Abstract!Return(t, TRUE, Contents \cup {AbsCall[t].key})
    BY <2>1, Zenon DEF Abstract!Return, AbsCall
  <2>3. Abstract!Insert(t)
    BY <1>1, <1>2, <2>2, Zenon DEF Abstract!Insert, AbsCall
  <2> QED
    BY <2>3 DEF Abstract!SetStep
<1>3. CASE op[t] = "erase" /\ r = TRUE /\ key[t] \in E /\ S = E \ {key[t]}
  <2>1. S = Contents \ {AbsCall[t].key} /\ result' = [result EXCEPT ![t] = TRUE]
    BY <1>1, <1>3
  <2>2. Abstract!Return(t, TRUE, Contents \ {AbsCall[t].key})
    BY <2>1, Zenon DEF Abstract!Return, AbsCall
  <2>3. Abstract!Erase(t)
    BY <1>1, <1>3, <2>2, Zenon DEF Abstract!Erase, AbsCall
  <2> QED
    BY <2>3 DEF Abstract!SetStep
<1>4. CASE op[t] = "insert" /\ r = FALSE /\ E \in seen[t] /\ key[t] \in E /\ S = E
  <2>1. Abstract!Return(t, FALSE, Contents)
    BY <1>4, Zenon DEF Abstract!Return, AbsCall
  <2>2. Abstract!InsertFails(t)
    BY <1>1, <1>4, <2>1, Zenon DEF Abstract!InsertFails, AbsCall
  <2> QED
    BY <2>2 DEF Abstract!SetStep
<1>5. CASE op[t] = "erase" /\ r = FALSE /\ E \in seen[t] /\ key[t] \notin E /\ S = E
  <2>1. Abstract!Return(t, FALSE, Contents)
    BY <1>5, Zenon DEF Abstract!Return, AbsCall
  <2>2. Abstract!EraseFails(t)
    BY <1>1, <1>5, <2>1, Zenon DEF Abstract!EraseFails, AbsCall
  <2> QED
    BY <2>2 DEF Abstract!SetStep
<1>6. CASE op[t] = "contains" /\ r = TRUE /\ E \in seen[t] /\ key[t] \in E /\ S = E
  <2>1. Abstract!Return(t, TRUE, Contents)
    BY <1>6, Zenon DEF Abstract!Return, AbsCall
  <2>2. (AbsCall[t].key \in E) = TRUE
    BY <1>1, <1>6
  <2>3. Abstract!Contains(t, TRUE)
    BY <1>1, <1>6, <2>1, <2>2, Zenon DEF Abstract!Contains, AbsCall
  <2> QED
    BY <2>3 DEF Abstract!SetStep
<1>7. CASE op[t] = "contains" /\ r = FALSE /\ E \in seen[t] /\ key[t] \notin E /\ S = E
  <2>1. Abstract!Return(t, FALSE, Contents)
    BY <1>7, Zenon DEF Abstract!Return, AbsCall
  <2>2. (AbsCall[t].key \in E) = FALSE
    BY <1>1, <1>7
  <2>3. Abstract!Contains(t, FALSE)
    BY <1>1, <1>7, <2>1, <2>2, Zenon DEF Abstract!Contains, AbsCall
  <2> QED
    BY <2>3 DEF Abstract!SetStep
<1> QED
  BY <1>2, <1>3, <1>4, <1>5, <1>6, <1>7 DEF Explains

(* A call of the abstract set. *)
LEMMA SetCall ==
  ASSUME NEW t \in Threads, NEW o \in {"insert", "erase", "contains"}, NEW k \in Keys,
         AbsCall[t] = Abstract!Idle, AbsCall' = [AbsCall EXCEPT ![t] = [op |-> o, key |-> k]],
         seen' = [seen EXCEPT ![t] = {Contents}], Contents' = Contents, result' = result
  PROVE  Abstract!SetStep(t)
<1>1. Abstract!Call(t, o, k)
  BY Zenon DEF Abstract!Call, AbsCall
<1>2. o \in {"insert", "erase", "contains"}
  OBVIOUS
<1> QED
  BY <1>1, <1>2, Zenon DEF Abstract!SetStep

-----------------------------------------------------------------------------
(* A search is on the way of its key, and an operation that is not over has *)
(* seen what the tree holds now.                                           *)
OnWay(t) == pc[t] \in {"search", "lockedSearch"} => loc[t].n \in Way(heap, key[t])

Over == {"idle", "free", "release"}

Asked(t) ==
  /\ op[t] = "none" <=> pc[t] \in Over
  /\ op[t] = "none" => key[t] = 0 /\ seen[t] = {}
  /\ op[t] # "none" => Elements \in seen[t]

SetInv ==
  /\ IInv /\ Sorted(heap, Linked)
  /\ \A t \in Threads : OnWay(t) /\ Asked(t)

(* What a step is for the set: nothing, *)
TreeStill ==
  /\ op' = op /\ key' = key /\ seen' = seen /\ result' = result
  /\ heap' = heap /\ Linked' = Linked

(* or an answer. *)
TreeAnswer(t) ==
  \E r, S : /\ Elements' = S /\ Explains(t, r, Elements, S)
            /\ op' = [op EXCEPT ![t] = "none"] /\ key' = [key EXCEPT ![t] = 0]
            /\ result' = [result EXCEPT ![t] = r]
            /\ seen' = [u \in Threads |-> IF u = t \/ op[u] = "none"
                                          THEN {} ELSE seen[u] \cup {S}]

LEMMA ElementsNow == Elements' = ElementsOf(heap')
BY DEF Elements

LEMMA SetNow ==
  ASSUME SetInv
  PROVE  heap \in Heaps /\ Linked \in SUBSET Nodes /\ Shape(heap, Linked) /\ Sorted(heap, Linked)
BY ShapeNow DEF SetInv

(* A thread that another's step does not make fail goes on. *)
LEMMA OthersWay ==
  ASSUME SetInv, NEW t \in Threads, NEW p, NEW R, NEW W, Goto(t, p, R, W),
         NEW u \in Threads, u # t, loc'[u] = loc[u], key'[u] = key[u],
         pc[u] \in {"search", "lockedSearch"} /\ reads[u] \cap W = {} =>
           loc[u].n \in Way(heap', key[u])
  PROVE  OnWay(u)' /\ (pc'[u] \in Over <=> pc[u] \in Over)
<1>1. SearchOK(u)
  BY DEF SetInv, IInv
<1> QED
  BY <1>1, GotoOther DEF OnWay, Over

(* A step of thread t that changes neither the tree nor an operation. *)
LEMMA StillKeeps ==
  ASSUME SetInv, IInv', TreeStill, NEW t \in Threads, NEW p, NEW R, NEW W, Goto(t, p, R, W),
         \A u \in Threads \ {t} : loc'[u] = loc[u],
         p \in {"search", "lockedSearch"} => loc'[t].n \in Way(heap, key[t]),
         p \in Over <=> pc[t] \in Over
  PROVE  SetInv'
<1>1. /\ op' = op /\ key' = key /\ seen' = seen /\ heap' = heap /\ Linked' = Linked
      /\ Elements' = Elements /\ pc'[t] = p
  BY ElementsNow DEF TreeStill, Elements, Goto
<1>2. Sorted(heap, Linked)'
  BY <1>1, SetNow
<1>3. OnWay(t)' /\ Asked(t)'
  BY <1>1 DEF OnWay, Asked, SetInv
<1>4. ASSUME NEW u \in Threads, u # t PROVE OnWay(u)' /\ Asked(u)'
  <2>1. OnWay(u) /\ Asked(u)
    BY DEF SetInv
  <2>2. loc'[u] = loc[u] /\ key'[u] = key[u]
    BY <1>1, <1>4
  <2>3. pc[u] \in {"search", "lockedSearch"} => loc[u].n \in Way(heap', key[u])
    BY <1>1, <2>1 DEF OnWay
  <2>4. OnWay(u)' /\ (pc'[u] \in Over <=> pc[u] \in Over)
    BY <1>4, <2>2, <2>3, OthersWay
  <2> QED
    BY <1>1, <2>1, <2>4 DEF Asked
<1> QED
  BY <1>2, <1>3, <1>4 DEF SetInv

LEMMA BeginSet == ASSUME SetInv, NEW t \in Threads, Begin(t) PROVE SetInv' /\ TreeStill
<1>1. /\ IInv /\ TypeOK /\ IInv' /\ pc[t] = "begin" /\ loc' = [loc EXCEPT ![t] = NoLoc]
      /\ heap' = heap /\ used' = used /\ UNCHANGED opVars
  BY BeginKeeps DEF Begin, SetInv, IInv
<1>2. PICK p, R : p \in {"search", "wait"} /\ Goto(t, p, R, {})
  BY DEF Begin
<1>3. loc'[t] = NoLoc /\ \A u \in Threads \ {t} : loc'[u] = loc[u]
  BY <1>1 DEF TypeOK
<1>4. pc'[t] = p
  BY <1>2 DEF Goto
<1>5. TreeStill
  BY <1>1, <1>2, <1>3, <1>4, SameLinked DEF TreeStill, opVars
<1>6. loc'[t].n \in Way(heap, key[t])
  BY <1>3, NoLocPlace, SetNow, WayIs
<1>7. p \in Over <=> pc[t] \in Over
  BY <1>1, <1>2 DEF Over
<1> QED
  BY <1>1, <1>2, <1>3, <1>5, <1>6, <1>7, StillKeeps

LEMMA AcquireSet == ASSUME SetInv, NEW t \in Threads, Acquire(t) PROVE SetInv' /\ TreeStill
<1>1. /\ IInv /\ TypeOK /\ IInv' /\ pc[t] = "acquire" /\ loc' = [loc EXCEPT ![t] = NoLoc]
      /\ heap' = heap /\ used' = used /\ UNCHANGED opVars
      /\ Goto(t, "lockedSearch", {}, {gLock})
  BY AcquireKeeps DEF Acquire, SetInv, IInv
<1>2. loc'[t] = NoLoc /\ \A u \in Threads \ {t} : loc'[u] = loc[u]
  BY <1>1 DEF TypeOK
<1>3. pc'[t] = "lockedSearch"
  BY <1>1 DEF Goto
<1>4. TreeStill
  BY <1>1, <1>2, <1>3, SameLinked DEF TreeStill, opVars
<1>5. loc'[t].n \in Way(heap, key[t])
  BY <1>2, NoLocPlace, SetNow, WayIs
<1>6. "lockedSearch" \in Over <=> pc[t] \in Over
  BY <1>1 DEF Over
<1> QED
  BY <1>1, <1>2, <1>4, <1>5, <1>6, StillKeeps

LEMMA AbortSet == ASSUME SetInv, NEW t \in Threads, Abort(t) PROVE SetInv' /\ TreeStill
<1>1. /\ IInv /\ IInv' /\ pc[t] = "search" /\ loc' = loc
      /\ heap' = heap /\ used' = used /\ UNCHANGED opVars /\ Goto(t, "wait", {}, {})
  BY AbortKeeps DEF Abort, SetInv
<1>2. pc'[t] = "wait"
  BY <1>1 DEF Goto
<1>3. TreeStill
  BY <1>1, <1>2, SameLinked DEF TreeStill, opVars
<1>4. "wait" \in Over <=> pc[t] \in Over
  BY <1>1 DEF Over
<1> QED
  BY <1>1, <1>3, <1>4, StillKeeps

LEMMA WaitSet == ASSUME SetInv, NEW t \in Threads, Wait(t) PROVE SetInv' /\ TreeStill
<1>1. /\ IInv /\ IInv' /\ pc[t] = "wait" /\ loc' = loc
      /\ heap' = heap /\ used' = used
      /\ op' = op /\ key' = key /\ seen' = seen /\ result' = result
  BY WaitKeeps DEF Wait, SetInv
<1>2. PICK p \in {"begin", "acquire"} : Goto(t, p, {}, {})
  BY DEF Wait
<1>3. pc'[t] = p
  BY <1>2 DEF Goto
<1>4. TreeStill
  BY <1>1, <1>2, <1>3, SameLinked DEF TreeStill
<1>5. p \in Over <=> pc[t] \in Over
  BY <1>1, <1>2 DEF Over
<1> QED
  BY <1>1, <1>2, <1>4, <1>5, StillKeeps

LEMMA SearchSet == ASSUME SetInv, NEW t \in Threads, Search(t) PROVE SetInv' /\ TreeStill
<1> SUFFICES ASSUME NEW n, n = loc[t].n, NEW k, k = key[t] PROVE SetInv' /\ TreeStill
  OBVIOUS
<1>1. /\ IInv /\ TypeOK /\ IInv' /\ pc[t] \in {"search", "lockedSearch"} /\ Internal(heap, n)
      /\ heap' = heap /\ used' = used /\ UNCHANGED opVars
      /\ loc' = [loc EXCEPT ![t] = [gp |-> @.p, p |-> n, n |-> Toward(heap, n, k)]]
      /\ n \in Way(heap, k)
  BY SearchKeeps DEF Search, SetInv, IInv, OnWay, isLeaf, Internal, Toward
<1>2. PICK p, R : p = pc[t] /\ Goto(t, p, R, {})
  BY <1>1 DEF Search
<1>3. loc'[t].n = Toward(heap, n, k) /\ \A u \in Threads \ {t} : loc'[u] = loc[u]
  BY <1>1 DEF TypeOK
<1>4. pc'[t] = p
  BY <1>2 DEF Goto
<1>5. TreeStill
  BY <1>1, <1>2, <1>3, <1>4, SameLinked DEF TreeStill, opVars
<1>6. loc'[t].n \in Way(heap, key[t])
  BY <1>1, <1>3, SetNow, WayIs
<1> QED
  BY <1>1, <1>2, <1>3, <1>5, <1>6, StillKeeps

LEMMA FreeSet == ASSUME SetInv, NEW t \in Threads, Free(t) PROVE SetInv' /\ TreeStill
<1>1. IInv /\ IInv'
  BY FreeKeeps DEF SetInv
<1>2. /\ pc[t] = "free" /\ heap' = heap /\ loc' = loc /\ UNCHANGED opVars /\ Linked' = Linked
      /\ \E p \in {"free", "release"} : Goto(t, p, {}, {})
  BY <1>1, FreeIs
<1>3. PICK p \in {"free", "release"} : Goto(t, p, {}, {})
  BY <1>2
<1>4. TreeStill
  BY <1>2 DEF TreeStill, opVars
<1>5. p \in Over <=> pc[t] \in Over
  BY <1>2, <1>3 DEF Over
<1> QED
  BY <1>1, <1>2, <1>3, <1>4, <1>5, StillKeeps

LEMMA ReleaseSet == ASSUME SetInv, NEW t \in Threads, Release(t) PROVE SetInv' /\ TreeStill
<1>1. /\ IInv /\ TypeOK /\ IInv' /\ pc[t] = "release" /\ loc' = [loc EXCEPT ![t] = NoLoc]
      /\ heap' = heap /\ used' = used /\ UNCHANGED opVars /\ Goto(t, "idle", {}, {gLock})
  BY ReleaseKeeps DEF Release, SetInv, IInv
<1>2. pc'[t] = "idle" /\ \A u \in Threads \ {t} : loc'[u] = loc[u]
  BY <1>1 DEF Goto, TypeOK
<1>3. TreeStill
  BY <1>1, <1>2, SameLinked DEF TreeStill, opVars
<1>4. "idle" \in Over <=> pc[t] \in Over
  BY <1>1 DEF Over
<1> QED
  BY <1>1, <1>2, <1>3, <1>4, StillKeeps

-----------------------------------------------------------------------------
(* The steps that are calls and answers. *)
LEMMA CallSet ==
  ASSUME SetInv, NEW t \in Threads, NEW o \in {"insert", "erase", "contains"}, NEW k \in Keys,
         Call(t, o, k)
  PROVE  SetInv' /\ Elements' = Elements
<1>1. /\ IInv /\ TypeOK /\ IInv' /\ pc[t] = "idle" /\ Goto(t, "begin", {}, {})
      /\ heap' = heap /\ used' = used /\ loc' = loc
      /\ op' = [op EXCEPT ![t] = o] /\ key' = [key EXCEPT ![t] = k]
      /\ seen' = [seen EXCEPT ![t] = {Elements}]
  BY CallKeeps DEF Call, SetInv, IInv
<1>2. pc'[t] = "begin"
  BY <1>1 DEF Goto
<1>3. Linked' = Linked /\ Elements' = Elements
  BY <1>1, <1>2, SameLinked DEF Elements
<1>4. Sorted(heap, Linked)'
  BY <1>1, <1>3, SetNow
<1>5. OnWay(t)' /\ Asked(t)'
  <2>1. op'[t] = o /\ seen'[t] = {Elements}
    BY <1>1 DEF TypeOK
  <2> QED
    BY <1>2, <1>3, <2>1 DEF OnWay, Asked, Over
<1>6. ASSUME NEW u \in Threads, u # t PROVE OnWay(u)' /\ Asked(u)'
  <2>1. OnWay(u) /\ Asked(u)
    BY DEF SetInv
  <2>2. loc'[u] = loc[u] /\ key'[u] = key[u] /\ op'[u] = op[u] /\ seen'[u] = seen[u]
    BY <1>1, <1>6 DEF TypeOK
  <2>3. pc[u] \in {"search", "lockedSearch"} => loc[u].n \in Way(heap', key[u])
    BY <1>1, <2>1 DEF OnWay
  <2>4. OnWay(u)' /\ (pc'[u] \in Over <=> pc[u] \in Over)
    BY <1>1, <1>6, <2>2, <2>3, OthersWay
  <2> QED
    BY <1>3, <2>1, <2>2, <2>4 DEF Asked
<1> QED
  BY <1>1, <1>3, <1>4, <1>5, <1>6 DEF SetInv

LEMMA EffectSet ==
  ASSUME SetInv, IInv', NEW t \in Threads, NEW r, NEW p \in Over, NEW W, NEW h,
         Effect(t, r, p, W, h), pc[t] \notin Over, Sorted(h, Linked'),
         Explains(t, r, Elements, ElementsOf(h)),
         \A u \in Threads \ {t} : loc'[u] = loc[u],
         \A u \in Threads \ {t} : pc[u] \in {"search", "lockedSearch"} /\ reads[u] \cap W = {} =>
                                    loc[u].n \in Way(h, key[u])
  PROVE  SetInv' /\ TreeAnswer(t)
<1>1. /\ heap' = h /\ Goto(t, p, {}, W) /\ result' = [result EXCEPT ![t] = r]
      /\ op' = [op EXCEPT ![t] = "none"] /\ key' = [key EXCEPT ![t] = 0] /\ TypeOK
      /\ seen' = [u \in Threads |-> IF u = t \/ seen[u] = {} THEN {}
                                    ELSE seen[u] \cup {ElementsOf(h)}]
  BY DEF Effect, SetInv, IInv
<1>2. Elements' = ElementsOf(h) /\ pc'[t] = p
  BY <1>1, ElementsNow DEF Goto
<1>3. \A u \in Threads : seen[u] = {} <=> op[u] = "none"
  BY DEF SetInv, Asked
<1>4. TreeAnswer(t)
  <2>1. seen' = [u \in Threads |-> IF u = t \/ op[u] = "none" THEN {}
                                   ELSE seen[u] \cup {ElementsOf(h)}]
    BY <1>1, <1>3
  <2> QED
    BY <1>1, <1>2, <2>1, Zenon DEF TreeAnswer
<1>5. Sorted(heap, Linked)'
  BY <1>1
<1>6. OnWay(t)' /\ Asked(t)'
  <2>1. op'[t] = "none" /\ key'[t] = 0 /\ seen'[t] = {}
    BY <1>1 DEF TypeOK
  <2> QED
    BY <1>2, <2>1 DEF OnWay, Asked, Over
<1>7. ASSUME NEW u \in Threads, u # t PROVE OnWay(u)' /\ Asked(u)'
  <2>1. Asked(u)
    BY DEF SetInv
  <2>2. /\ loc'[u] = loc[u] /\ key'[u] = key[u] /\ op'[u] = op[u]
        /\ seen'[u] = IF seen[u] = {} THEN {} ELSE seen[u] \cup {Elements'}
    BY <1>1, <1>2, <1>7 DEF TypeOK
  <2>3. OnWay(u)' /\ (pc'[u] \in Over <=> pc[u] \in Over)
    BY <1>1, <1>7, <2>2, OthersWay
  <2>4. Asked(u)'
    BY <2>1, <2>2, <2>3 DEF Asked
  <2> QED
    BY <2>3, <2>4
<1> QED
  BY <1>4, <1>5, <1>6, <1>7 DEF SetInv

(* A search that has come to a leaf has the answer. *)
LEMMA HitIs ==
  ASSUME SetInv, NEW t \in Threads, pc[t] \in {"search", "lockedSearch"}, AtLeaf(t)
  PROVE  /\ Hit(t) <=> key[t] \in Elements
         /\ loc[t].n \in Way(heap, key[t]) /\ Elements \in seen[t]
         /\ op[t] # "none" /\ pc[t] \notin Over
<1>1. /\ key[t] \in Keys /\ ~ Internal(heap, loc[t].n) /\ loc[t].n \in Way(heap, key[t])
      /\ op[t] # "none" /\ Elements \in seen[t] /\ pc[t] \notin Over
  BY EffectPlace DEF SetInv, OnWay, Asked, Over
<1>2. loc[t].n = LeafFor(heap, key[t])
  BY <1>1, SetNow, LeafForWay
<1> QED
  BY <1>1, <1>2 DEF Hit, Elements, ElementsOf

LEMMA NoChangeSet ==
  ASSUME SetInv, NEW t \in Threads, NEW p, Ending(t, p), p # "free", NoChange(t, p)
  PROVE  SetInv' /\ TreeAnswer(t)
<1> SUFFICES ASSUME NEW r, r = (op[t] = "contains" /\ Hit(t)) PROVE SetInv' /\ TreeAnswer(t)
  OBVIOUS
<1>1. /\ AtLeaf(t) /\ Effect(t, r, p, {}, heap) /\ used' = used
      /\ op[t] = "contains" \/ Hit(t) = (op[t] = "insert")
  BY DEF NoChange
<1>2. /\ IInv /\ IInv' /\ op[t] \in {"none", "insert", "erase", "contains"} /\ pc[t] # "free"
      /\ \A u \in Threads \ {t} : loc'[u] = loc[u]
      /\ pc[t] \in {"search", "lockedSearch"} /\ p \in Over
  BY NoChangeKeeps DEF SetInv, IInv, TypeOK, Ending, Over
<1>3. /\ Hit(t) <=> key[t] \in Elements
      /\ Elements \in seen[t] /\ op[t] # "none" /\ pc[t] \notin Over
  BY <1>1, <1>2, HitIs
<1>4. Linked' = Linked /\ ElementsOf(heap) = Elements
  <2>1. Goto(t, p, {}, {}) /\ pc'[t] = p
    BY <1>1 DEF Effect, Goto
  <2> QED
    BY <1>1, <1>2, <2>1, SameLinked DEF Elements
<1>5. Explains(t, r, Elements, Elements)
  <2>1. CASE op[t] = "contains" /\ Hit(t)
    BY <1>3, <2>1 DEF Explains
  <2>2. CASE op[t] = "contains" /\ ~ Hit(t)
    BY <1>3, <2>2 DEF Explains
  <2>3. CASE op[t] = "insert"
    <3>1. Hit(t)
      BY <1>1, <2>3
    <3> QED
      BY <1>3, <2>3, <3>1 DEF Explains
  <2>4. CASE op[t] = "erase"
    <3>1. ~ Hit(t)
      BY <1>1, <2>4
    <3> QED
      BY <1>3, <2>4, <3>1 DEF Explains
  <2> QED
    BY <1>2, <1>3, <2>1, <2>2, <2>3, <2>4
<1>6. Sorted(heap, Linked')
  BY <1>4, SetNow
<1>7. \A u \in Threads \ {t} : pc[u] \in {"search", "lockedSearch"} /\ reads[u] \cap {} = {} =>
                                 loc[u].n \in Way(heap, key[u])
  BY DEF SetInv, OnWay
<1>8. Effect(t, r, p, {}, heap) /\ Explains(t, r, Elements, ElementsOf(heap))
  BY <1>1, <1>4, <1>5
<1> QED
  BY <1>2, <1>3, <1>6, <1>7, <1>8, EffectSet

(* The tree after the effect, for the others. *)
LEMMA LinkedThen ==
  ASSUME SetInv, NEW t \in Threads, pc[t] \in {"search", "lockedSearch"},
         NEW p \in Over, NEW W, Goto(t, p, {}, W)
  PROVE  /\ p # "free" => Linked' = used'
         /\ p = "free" => Linked' = used' \ {loc'[t].p, loc'[t].n}
<1>1. pc'[t] = p
  BY DEF Goto
<1>2. ASSUME NEW u \in Threads, u # t PROVE pc'[u] # "free"
  <2>1. SearchOK(u) /\ pc[u] # "free"
    BY NothingPending DEF SetInv, IInv
  <2> QED
    BY <1>2, <2>1, GotoOther
<1> QED
  BY <1>1, <1>2, LinkedAfter

LEMMA InsertSet ==
  ASSUME SetInv, NEW t \in Threads, NEW p, Ending(t, p), p # "free", InsertHere(t, p)
  PROVE  SetInv' /\ TreeAnswer(t)
<1> SUFFICES ASSUME NEW x, x = loc[t].p, NEW n, n = loc[t].n, NEW k, k = key[t]
             PROVE  SetInv' /\ TreeAnswer(t)
  OBVIOUS
<1>0. PICK a \in Nodes \ used, b \in Nodes \ used :
        /\ AtLeaf(t) /\ a # b /\ used' = used \cup {a, b}
        /\ Effect(t, TRUE, p, {x}, Grown(t, a, b))
  BY InsertIs
<1> SUFFICES ASSUME NEW g, g = Grown(t, a, b), NEW W, W = {x}, NEW r, r = TRUE
             PROVE  SetInv' /\ TreeAnswer(t)
  OBVIOUS
<1>1. AtLeaf(t) /\ a # b /\ used' = used \cup {a, b} /\ Effect(t, r, p, W, g)
  BY <1>0
<1>2. op[t] = "insert" /\ ~ Hit(t)
  BY DEF InsertHere
<1>3. /\ IInv /\ IInv' /\ p \in Over /\ pc[t] \in {"search", "lockedSearch"}
      /\ \A u \in Threads \ {t} : loc'[u] = loc[u]
  BY InsertKeeps DEF SetInv, Ending, Over
<1>4. /\ Hit(t) <=> key[t] \in Elements
      /\ n \in Way(heap, k) /\ pc[t] \notin Over
  BY <1>1, <1>3, HitIs
<1>5. g = Grow(heap, x, n, k, a, b)
  BY Zenon DEF Grown, Grow, Replace, Replaced
<1>6. /\ heap \in Heaps /\ Linked \in SUBSET Nodes /\ Shape(heap, Linked) /\ Linked = used
      /\ Sorted(heap, Linked) /\ k \in Keys /\ n \in Linked /\ x \in Linked
      /\ ~ Internal(heap, n) /\ Internal(heap, x) /\ n = Toward(heap, x, k) /\ n # root
  <2>1. /\ Linked = used /\ k \in Keys /\ n \in Linked /\ x \in Linked
        /\ ~ Internal(heap, n) /\ Internal(heap, x) /\ n = Toward(heap, x, k)
    BY <1>1, <1>3, EffectPlace
  <2>2. Internal(heap, root)
    BY SetNow, FrameFacts
  <2> QED
    BY <2>1, <2>2, SetNow
<1>7. g \in Heaps /\ Shape(g, used \cup {a, b})
  BY <1>1, <1>5, <1>6, GrownShape
<1>8. Grew(heap, used, g, n, a, b, k)
  BY <1>1, <1>5, <1>6, GrowLeads
<1>9. Sorted(g, used \cup {a, b})
  <2>1. heap[n].key # k
    BY <1>2 DEF Hit
  <2> SUFFICES ASSUME NEW M, M = used \cup {a, b} PROVE Sorted(g, M)
    OBVIOUS
  <2> QED
    BY <1>4, <1>6, <1>7, <1>8, <2>1, GrownSorted
<1>10. Linked' = used \cup {a, b}
  <2>1. Goto(t, p, {}, W)
    BY <1>1 DEF Effect
  <2> QED
    BY <1>1, <1>3, <2>1, LinkedThen
<1>11. Explains(t, r, Elements, ElementsOf(g))
  <2> SUFFICES ASSUME NEW M, M = used \cup {a, b} PROVE Explains(t, r, Elements, ElementsOf(g))
    OBVIOUS
  <2>1. M \in SUBSET Nodes /\ Shape(g, M) /\ Sorted(g, M)
    BY <1>6, <1>7, <1>9
  <2>2. ElementsOf(g) = ElementsOf(heap) \cup {k}
    BY <1>6, <1>7, <1>8, <2>1, GrownElements
  <2> QED
    BY <1>2, <1>4, <2>2 DEF Explains, Elements
<1>12. ASSUME NEW u \in Threads \ {t}, pc[u] \in {"search", "lockedSearch"}, reads[u] \cap W = {}
       PROVE  loc[u].n \in Way(g, key[u])
  <2>1. /\ SearchOK(u) /\ pc[u] = "search" /\ loc[u].n \in Way(heap, key[u])
    BY <1>3, <1>12, NothingPending DEF SetInv, IInv, OnWay
  <2>2. /\ OnPath(heap, Linked, loc[u], key[u]) /\ Footprint(heap, Linked, loc[u], reads[u])
        /\ key[u] \in Int /\ x \notin reads[u]
    BY <1>12, <2>1, TreeAssumption DEF SearchOK, Keys
  <2>3. loc[u].n # n
    <3> SUFFICES ASSUME loc[u].n = n PROVE FALSE
      OBVIOUS
    <3>1. /\ loc[u].p \in Linked /\ Internal(heap, loc[u].p) /\ n = Toward(heap, loc[u].p, key[u])
          /\ loc[u].p \in reads[u]
      BY <1>6, <2>2 DEF OnPath, Footprint
    <3>2. Children(heap, Linked) /\ n \in Kids(heap, x) /\ n \in Kids(heap, loc[u].p)
      BY <1>6, <3>1, TowardIsKid DEF Shape
    <3> QED
      BY <1>6, <2>2, <3>1, <3>2, OneParent
  <2> SUFFICES ASSUME NEW M, M = used \cup {a, b} PROVE loc[u].n \in Way(g, key[u])
    OBVIOUS
  <2>4. M \in SUBSET Nodes /\ Shape(g, M) /\ used \in SUBSET Nodes /\ Shape(heap, used) /\ n \in used \ {root}
    BY <1>6, <1>7
  <2> QED
    BY <1>6, <1>7, <1>8, <2>1, <2>2, <2>3, <2>4, GrowWay
<1>13. Sorted(g, Linked')
  BY <1>9, <1>10
<1> QED
  BY <1>1, <1>3, <1>4, <1>11, <1>12, <1>13, EffectSet

LEMMA EraseSet ==
  ASSUME SetInv, NEW t \in Threads, NEW p, Ending(t, p), EraseHere(t, p),
         \/ p = "idle" /\ used' = used \ {loc[t].p, loc[t].n}
         \/ p = "free" /\ used' = used /\ loc' = loc
  PROVE  SetInv' /\ TreeAnswer(t)
<1> SUFFICES ASSUME NEW q, q = loc[t].gp, NEW x, x = loc[t].p, NEW n, n = loc[t].n,
                    NEW k, k = key[t], NEW g, g = Shrunk(t), NEW W, W = {q}, NEW r, r = TRUE
             PROVE  SetInv' /\ TreeAnswer(t)
  OBVIOUS
<1>1. /\ AtLeaf(t) /\ Hit(t) /\ op[t] = "erase" /\ Effect(t, r, p, W, g) /\ heap[n].key = k
  BY DEF EraseHere, Hit
<1>2. /\ IInv /\ IInv' /\ p \in Over /\ pc[t] \in {"search", "lockedSearch"}
      /\ \A u \in Threads \ {t} : loc'[u] = loc[u]
  BY EraseKeeps DEF SetInv, Ending, Over
<1>3. /\ Hit(t) <=> key[t] \in Elements
      /\ pc[t] \notin Over
  BY <1>1, <1>2, HitIs
<1>4. g = Shrink(heap, q, x, n)
  BY Zenon DEF Shrunk, Shrink, Replace, Replaced
<1>5. /\ heap \in Heaps /\ used \in SUBSET Nodes /\ Shape(heap, used) /\ Linked = used
      /\ Sorted(heap, used) /\ k \in Keys /\ n \in used /\ x \in used /\ q \in used
      /\ ~ Internal(heap, n) /\ Internal(heap, x) /\ n = Toward(heap, x, k)
      /\ Internal(heap, q) /\ x = Toward(heap, q, k)
  BY <1>1, <1>2, EffectPlace, SetNow
<1>6. g \in Heaps /\ Shape(g, used \ {x, n})
  BY <1>1, <1>4, <1>5, ShrunkShape
<1>7. PICK s : Shrank(heap, used, g, x, n, s)
  BY <1>1, <1>4, <1>5, ShrinkLeads
<1> SUFFICES ASSUME NEW M, M = used \ {x, n} PROVE SetInv' /\ TreeAnswer(t)
  OBVIOUS
<1>8. M \in SUBSET Nodes /\ Shape(g, M) /\ Keys # {}
  BY <1>5, <1>6
<1>9. Sorted(g, M)
  BY <1>5, <1>6, <1>7, <1>8, ShrunkSorted
<1>10. Linked' = M
  <2>1. Goto(t, p, {}, W)
    BY <1>1 DEF Effect
  <2> QED
    BY <1>2, <2>1, LinkedThen
<1>11. Explains(t, r, Elements, ElementsOf(g))
  <2>1. ElementsOf(g) = ElementsOf(heap) \ {k}
    BY <1>1, <1>5, <1>6, <1>7, <1>8, <1>9, ShrunkElements
  <2> QED
    BY <1>1, <1>3, <2>1 DEF Explains, Elements
<1>12. ASSUME NEW u \in Threads \ {t}, pc[u] \in {"search", "lockedSearch"}, reads[u] \cap W = {}
       PROVE  loc[u].n \in Way(g, key[u])
  <2>1. /\ SearchOK(u) /\ pc[u] = "search" /\ loc[u].n \in Way(heap, key[u])
    BY <1>2, <1>12, NothingPending DEF SetInv, IInv, OnWay
  <2>2. /\ OnPath(heap, used, loc[u], key[u]) /\ Footprint(heap, used, loc[u], reads[u])
        /\ key[u] \in Int /\ q \notin reads[u]
    BY <1>5, <1>12, <2>1, TreeAssumption DEF SearchOK, Keys
  <2>3. loc[u].n \notin {x, n}
    BY <1>1, <1>5, <2>2, ReadsNotErased
  <2> QED
    BY <1>5, <1>6, <1>7, <1>8, <2>1, <2>2, <2>3, ShrinkWay
<1>13. Sorted(g, Linked')
  BY <1>9, <1>10
<1> QED
  BY <1>1, <1>2, <1>3, <1>11, <1>12, <1>13, EffectSet

LEMMA CommitSet == ASSUME SetInv, NEW t \in Threads, Commit(t) PROVE SetInv' /\ TreeAnswer(t)
<1>1. pc[t] = "search" /\ held' = held /\ loc' = [loc EXCEPT ![t] = NoLoc]
  BY DEF Commit
<1>2. Ending(t, "idle")
  BY <1>1, NoLocPlace DEF Ending, SetInv, IInv, TypeOK
<1>3. \/ NoChange(t, "idle") \/ InsertHere(t, "idle")
      \/ EraseHere(t, "idle") /\ used' = used \ {loc[t].p, loc[t].n}
  BY Zenon DEF Commit
<1> QED
  BY <1>2, <1>3, NoChangeSet, InsertSet, EraseSet

LEMMA ChangeSet == ASSUME SetInv, NEW t \in Threads, Change(t) PROVE SetInv' /\ TreeAnswer(t)
<1>1. pc[t] = "lockedSearch" /\ held' = held /\ loc' = loc
  BY DEF Change
<1>2. \A p \in {"release", "free"} : Ending(t, p)
  BY <1>1 DEF Ending, SetInv, IInv, TypeOK
<1>3. \/ NoChange(t, "release") \/ InsertHere(t, "release")
      \/ EraseHere(t, "free") /\ used' = used
  BY Zenon DEF Change
<1> QED
  BY <1>1, <1>2, <1>3, NoChangeSet, InsertSet, EraseSet

-----------------------------------------------------------------------------
(* The steps of the tree, for the abstract set. *)
LEMMA TreeIdle ==
  ASSUME SetInv, NEW t \in Threads
  PROVE  (AbsCall[t] = Abstract!Idle) <=> (op[t] = "none")
<1>1. op[t] = "none" => key[t] = 0
  BY DEF SetInv, Asked
<1> QED
  BY <1>1 DEF AbsCall, Abstract!Idle

LEMMA TreeStillIs ==
  ASSUME structure = "tree", structure' = structure, TreeStill
  PROVE  UNCHANGED Abstract!setVars
<1>1. op' = op /\ key' = key /\ seen' = seen /\ result' = result /\ heap' = heap
  BY DEF TreeStill
<1>2. AbsCall' = AbsCall
  BY <1>1 DEF AbsCall
<1>3. Contents' = Contents
  BY <1>1 DEF Contents, Elements
<1> QED
  BY <1>1, <1>2, <1>3, Zenon DEF Abstract!setVars, AbsCall

LEMMA TreeAnswerIs ==
  ASSUME structure = "tree", structure' = structure, SetInv,
         NEW t \in Threads, TreeAnswer(t)
  PROVE  Abstract!SetStep(t)
<1> PICK r, S :
      /\ Elements' = S /\ Explains(t, r, Elements, S)
      /\ op' = [op EXCEPT ![t] = "none"] /\ key' = [key EXCEPT ![t] = 0]
      /\ result' = [result EXCEPT ![t] = r]
      /\ seen' = [u \in Threads |-> IF u = t \/ op[u] = "none" THEN {} ELSE seen[u] \cup {S}]
  BY Zenon DEF TreeAnswer
<1> SUFFICES ASSUME NEW E, E = Elements PROVE Abstract!SetStep(t)
  OBVIOUS
<1>1. op \in [Threads -> {"none", "insert", "erase", "contains"}] /\ key \in [Threads -> Int]
  BY DEF SetInv, IInv, TypeOK
<1>2. Contents = E /\ Contents' = S
  BY DEF Contents
<1>3. AbsCall' = [AbsCall EXCEPT ![t] = Abstract!Idle]
  BY <1>1 DEF AbsCall, Abstract!Idle
<1>4. seen' = [u \in Threads |-> IF u = t \/ AbsCall[u] = Abstract!Idle
                                 THEN {} ELSE seen[u] \cup {S}]
  BY TreeIdle
<1>5. result' = [result EXCEPT ![t] = r] /\ Explains(t, r, E, S)
  OBVIOUS
<1> QED
  BY <1>2, <1>3, <1>4, <1>5, SetAnswer

LEMMA TreeCallIs ==
  ASSUME structure = "tree", structure' = structure, SetInv, NEW t \in Threads,
         NEW o \in {"insert", "erase", "contains"}, NEW k \in Keys, Call(t, o, k)
  PROVE  Abstract!SetStep(t)
<1>1. /\ pc[t] = "idle" /\ op' = [op EXCEPT ![t] = o] /\ key' = [key EXCEPT ![t] = k]
      /\ seen' = [seen EXCEPT ![t] = {Elements}] /\ result' = result
  BY DEF Call
<1>2. op \in [Threads -> {"none", "insert", "erase", "contains"}] /\ key \in [Threads -> Int]
  BY DEF SetInv, IInv, TypeOK
<1>3. Contents = Elements /\ Contents' = Contents
  BY CallSet DEF Contents
<1>4. AbsCall[t] = Abstract!Idle
  <2>1. op[t] = "none"
    BY <1>1 DEF SetInv, Asked, Over
  <2> QED
    BY <2>1, TreeIdle
<1>5. AbsCall' = [AbsCall EXCEPT ![t] = [op |-> o, key |-> k]]
  BY <1>1, <1>2 DEF AbsCall
<1>6. seen' = [seen EXCEPT ![t] = {Contents}] /\ result' = result
  BY <1>1, <1>3
<1> QED
  BY <1>3, <1>4, <1>5, <1>6, SetCall

LEMMA TreeStep ==
  ASSUME structure = "tree", structure' = structure, SetInv, [Next]_vars
  PROVE  SetInv' /\ [Abstract!SetNext]_(Abstract!setVars)
<1>1. CASE UNCHANGED vars
  <2>1. /\ heap' = heap /\ used' = used /\ pc' = pc /\ op' = op /\ key' = key
        /\ loc' = loc /\ result' = result /\ seen' = seen
    BY <1>1 DEF vars
  <2>2. Linked' = Linked /\ IInv'
    BY <1>1, <2>1, NextKeeps DEF SetInv, Linked, Pending
  <2>3. TreeStill /\ Elements' = Elements
    BY <2>1, <2>2 DEF TreeStill, Elements
  <2>4. Sorted(heap, Linked)' /\ \A t \in Threads : OnWay(t)' /\ Asked(t)'
    BY <2>1, <2>2, <2>3 DEF SetInv, OnWay, Asked
  <2> QED
    BY <2>2, <2>3, <2>4, TreeStillIs DEF SetInv
<1>2. ASSUME NEW t \in Threads, CallStep(t) PROVE SetInv' /\ Abstract!SetStep(t)
  <2>1. PICK o \in {"insert", "erase", "contains"}, k \in Keys : Call(t, o, k)
    BY <1>2 DEF CallStep
  <2> QED
    BY <2>1, CallSet, TreeCallIs
<1>3. ASSUME NEW t \in Threads, Commit(t) \/ Change(t) PROVE SetInv' /\ Abstract!SetStep(t)
  BY <1>3, CommitSet, ChangeSet, TreeAnswerIs
<1>4. ASSUME NEW t \in Threads,
             Begin(t) \/ Abort(t) \/ Wait(t) \/ Acquire(t) \/ Search(t) \/ Free(t) \/ Release(t)
      PROVE  SetInv' /\ UNCHANGED Abstract!setVars
  <2>1. SetInv' /\ TreeStill
    BY <1>4, BeginSet, AbortSet, WaitSet, AcquireSet, SearchSet, FreeSet, ReleaseSet
  <2> QED
    BY <2>1, TreeStillIs
<1>5. CASE Next
  <2> PICK t \in Threads : CallStep(t) \/ Step(t)
    BY <1>5 DEF Next
  <2>1. CASE CallStep(t) \/ Commit(t) \/ Change(t)
    <3>1. SetInv' /\ Abstract!SetStep(t)
      BY <1>2, <1>3, <2>1
    <3> QED
      BY <3>1, Zenon DEF Abstract!SetNext
  <2>2. CASE \/ Begin(t) \/ Abort(t) \/ Wait(t) \/ Acquire(t) \/ Search(t) \/ Free(t)
             \/ Release(t)
    BY <1>4, <2>2
  <2> QED
    BY <2>1, <2>2, Zenon DEF Step
<1> QED
  BY <1>1, <1>5

(* A search tree, and before all operations. *)
SearchTree ==
  /\ heap \in Heaps /\ used \in SUBSET Nodes
  /\ Shape(heap, used) /\ Sorted(heap, used)

LEMMA EmptyTree == Init => SearchTree
<1> SUFFICES ASSUME Init PROVE SearchTree
  OBVIOUS
<1>1. heap \in Heaps /\ Linked \in SUBSET Nodes /\ Shape(heap, Linked)
  BY InitHolds, ShapeNow
<1>2. used = {root, low, high} /\ Linked = used
  BY DEF Init, Quiet, Linked, Pending
<1>3. /\ \A x \in used : ~ Internal(heap, x) => x \in {low, high}
      /\ \A x \in used : Internal(heap, x) => x = root
  BY <1>1, <1>2, FrameFacts
<1>4. Sorted(heap, used)
  BY <1>3 DEF Sorted
<1> QED
  BY <1>1, <1>2, <1>4 DEF SearchTree

LEMMA QuietTree == Quiet /\ SearchTree => SetInv
<1> SUFFICES ASSUME Quiet, SearchTree PROVE SetInv
  OBVIOUS
<1>1. /\ op = [t \in Threads |-> "none"] /\ key = [t \in Threads |-> 0]
      /\ seen = [t \in Threads |-> {}] /\ pc = [t \in Threads |-> "idle"]
      /\ result = [t \in Threads |-> FALSE] /\ held = FALSE /\ left \in [Threads -> Nat]
      /\ loc = [t \in Threads |-> NoLoc] /\ reads = [t \in Threads |-> {}]
      /\ retriesLeft = [t \in Threads |-> 0]
  BY DEF Quiet
<1>2. Linked = used
  BY <1>1 DEF Linked, Pending
<1>3. TypeOK
  <2>1. /\ heap \in [Nodes -> Fields] /\ used \subseteq Nodes
    BY DEF SearchTree, Heaps
  <2>2. loc \in [Threads -> Places]
    BY <1>1, NoLocPlace
  <2>3. /\ pc \in [Threads -> Labels]
        /\ op \in [Threads -> {"none", "insert", "erase", "contains"}]
        /\ key \in [Threads -> Int] /\ retriesLeft \in [Threads -> Int]
    BY <1>1 DEF Labels
  <2>4. result \in [Threads -> BOOLEAN] /\ held \in BOOLEAN
    BY <1>1
  <2>5. /\ reads \in [Threads -> SUBSET (Nodes \cup {gLock})]
        /\ seen \in [Threads -> SUBSET SUBSET Keys]
    BY <1>1
  <2> QED
    BY <1>1, <2>1, <2>2, <2>3, <2>4, <2>5 DEF TypeOK
<1>4. LockOK
  BY <1>1 DEF LockOK, Holds
<1>5. \A t \in Threads : SearchOK(t) /\ OnWay(t) /\ Asked(t)
  BY <1>1 DEF SearchOK, OnWay, Asked, Over
<1>6. Shape(heap, Linked) /\ Sorted(heap, Linked)
  BY <1>2 DEF SearchTree
<1> QED
  BY <1>3, <1>4, <1>5, <1>6 DEF SetInv, IInv

(* The tree under lock elision (tree/tree.h) is a linearizable set, for any *)
(* threads, keys, retries and memory, from any search tree on, of which the *)
(* empty one is one: the answer of an operation is that of the leaf where  *)
(* its search ends, which is the leaf of its key as long as its            *)
(* transaction has not failed.                                             *)
THEOREM TreeImplementsSet ==
  MCSpec /\ structure = "tree" /\ SearchTree => ImplementsSet
<1> DEFINE InUse == structure = "tree" /\ SetInv
<1>1. MCInit /\ structure = "tree" /\ SearchTree => InUse /\ Abstract!FilledInit
  <2> SUFFICES ASSUME MCInit, structure = "tree", SearchTree
               PROVE  InUse /\ Abstract!FilledInit
    OBVIOUS
  <2>1. Quiet
    BY Zenon DEF MCInit
  <2>2. SetInv
    BY <2>1, QuietTree
  <2>3. AbsCall = [t \in Threads |-> Abstract!Idle]
    BY <2>1 DEF Quiet, AbsCall, Abstract!Idle
  <2>4. Contents \in SUBSET Keys
    BY DEF Contents, Elements, ElementsOf
  <2>5. seen = [t \in Threads |-> {}] /\ result = [t \in Threads |-> FALSE]
    BY <2>1 DEF Quiet
  <2>6. Abstract!FilledInit
    BY <2>3, <2>4, <2>5, Zenon DEF Abstract!FilledInit, AbsCall
  <2> QED
    BY <2>2, <2>6
<1>2. InUse /\ [MCNext]_mcVars => InUse' /\ [Abstract!SetNext]_(Abstract!setVars)
  <2> SUFFICES ASSUME structure = "tree", SetInv, [MCNext]_mcVars
               PROVE  structure' = "tree" /\ SetInv' /\ [Abstract!SetNext]_(Abstract!setVars)
    OBVIOUS
  <2>1. structure' = structure /\ [Next]_vars
    BY Zenon DEF MCNext, mcVars, AllDone
  <2> QED
    BY <2>1, TreeStep
<1>3. MCSpec => MCInit /\ [][MCNext]_mcVars
  BY PTL DEF MCSpec
<1>4. ImplementsSet <=> Abstract!FilledInit /\ [][Abstract!SetNext]_(Abstract!setVars)
  BY DEF ImplementsSet, Abstract!FilledSpec
<1> QED
  <2> HIDE DEF InUse
  <2> QED
    BY <1>1, <1>2, <1>3, <1>4, PTL

-----------------------------------------------------------------------------
(* The hash table.                                                         *)
(*                                                                         *)
(* Remainders that are equal differ by a multiple of the divisor.          *)
LEMMA SameRemainder ==
  ASSUME NEW c \in Nat \ {0}, NEW a \in Nat, NEW d \in 0 .. c - 1, a % c = (a + d) % c
  PROVE  d = 0
<1> DEFINE q == a \div c
           r == (a + d) \div c
<1>1. a = c * q + (a % c) /\ a + d = c * r + ((a + d) % c) /\ q \in Nat /\ r \in Nat
  OBVIOUS
<1> HIDE DEF q, r
<1>2. d = c * (r - q)
  BY <1>1
<1>3. CASE r - q <= 0
  <2>1. c * (r - q) <= 0
    BY <1>1, <1>3
  <2> QED
    BY <1>2, <2>1
<1>4. CASE r - q >= 1
  <2>1. c * (r - q) >= c
    BY <1>1, <1>4
  <2> QED
    BY <1>2, <2>1
<1> QED
  BY <1>1, <1>3, <1>4

LEMMA EqualRemainders ==
  ASSUME NEW c \in Nat \ {0}, NEW a \in Nat, NEW i \in 0 .. c - 1, NEW j \in 0 .. c - 1,
         (a + i) % c = (a + j) % c
  PROVE  i = j
<1>1. CASE i <= j
  <2>1. a + i \in Nat /\ j - i \in 0 .. c - 1 /\ (a + i) + (j - i) = a + j
    BY <1>1
  <2>2. j - i = 0
    BY <2>1, SameRemainder
  <2> QED
    BY <2>2
<1>2. CASE j <= i
  <2>1. a + j \in Nat /\ i - j \in 0 .. c - 1 /\ (a + j) + (i - j) = a + i
    BY <1>2
  <2>2. i - j = 0
    BY <2>1, SameRemainder
  <2> QED
    BY <2>2
<1> QED
  BY <1>1, <1>2

LEMMA SmallRemainder ==
  ASSUME NEW c \in Nat \ {0}, NEW a \in 0 .. c - 1
  PROVE  a % c = a
OBVIOUS

LEMMA PastRemainder ==
  ASSUME NEW c \in Nat \ {0}, NEW a \in 0 .. c - 1
  PROVE  (c + a) % c = a
OBVIOUS

LEMMA Remainder ==
  ASSUME NEW c \in Nat \ {0}, NEW a \in Nat
  PROVE  a % c \in 0 .. c - 1
OBVIOUS

(* Probe n of a key with hash h in a table of c buckets. *)
Spot(h, n, c) == ((h + n) % Word) % c

LEMMA SpotType ==
  ASSUME NEW h \in 0 .. Word - 1, NEW n \in Nat, NEW c \in Nat \ {0}
  PROVE  Spot(h, n, c) \in 0 .. c - 1
<1>1. Word \in Nat \ {0} /\ h + n \in Nat
  BY TableAssumption
<1>2. (h + n) % Word \in Nat
  BY <1>1, Remainder
<1> QED
  BY <1>2, Remainder DEF Spot

(* Wherever h + i wraps around, e probes in a row go to e buckets, if the  *)
(* table has twice as many, and e is less than a word.                     *)
LEMMA Window ==
  ASSUME NEW h \in 0 .. Word - 1, NEW c \in Nat, NEW e \in Nat \ {0},
         2 * e <= c, e < Word
  PROVE  \E m \in Nat :
           /\ \A i \in 0 .. e - 1 : m + i \in 0 .. c - 1
           /\ \A i, j \in 0 .. e - 1 : Spot(h, m + i, c) = Spot(h, m + j, c) => i = j
<1>1. Word \in Nat \ {0} /\ c \in Nat \ {0}
  BY TableAssumption
<1>2. CASE h + e <= Word
  <2>1. ASSUME NEW i \in 0 .. e - 1 PROVE Spot(h, 0 + i, c) = (h + i) % c
    <3>1. h + (0 + i) = h + i /\ h + i \in 0 .. Word - 1
      BY <1>1, <1>2
    <3>2. (h + i) % Word = h + i
      BY <1>1, <3>1, SmallRemainder
    <3> QED
      BY <3>1, <3>2 DEF Spot
  <2>2. ASSUME NEW i \in 0 .. e - 1, NEW j \in 0 .. e - 1, Spot(h, 0 + i, c) = Spot(h, 0 + j, c)
        PROVE  i = j
    <3>1. (h + i) % c = (h + j) % c /\ h \in Nat /\ i \in 0 .. c - 1 /\ j \in 0 .. c - 1
      BY <1>1, <2>1, <2>2
    <3> QED
      BY <1>1, <3>1, EqualRemainders
  <2>3. \A i \in 0 .. e - 1 : 0 + i \in 0 .. c - 1
    OBVIOUS
  <2> QED
    BY <2>2, <2>3
<1>3. CASE h + e > Word
  <2> DEFINE m == Word - h
  <2>1. m \in Nat /\ m < e
    BY <1>1, <1>3
  <2>2. ASSUME NEW i \in 0 .. e - 1 PROVE Spot(h, m + i, c) = i
    <3>1. h + (m + i) = Word + i /\ i \in 0 .. Word - 1 /\ i \in 0 .. c - 1
      BY <1>1
    <3>2. (Word + i) % Word = i
      BY <1>1, <3>1, PastRemainder
    <3>3. i % c = i
      BY <1>1, <3>1, SmallRemainder
    <3> QED
      BY <3>1, <3>2, <3>3 DEF Spot
  <2>3. \A i \in 0 .. e - 1 : m + i \in 0 .. c - 1
    BY <2>1
  <2> HIDE DEF m
  <2> QED
    BY <2>1, <2>2, <2>3
<1> QED
  BY <1>1, <1>2, <1>3

(* A set of numbers has a least one. *)
LEMMA LeastOf ==
  ASSUME NEW W \in SUBSET Nat, W # {}
  PROVE  \E m \in W : \A n \in W : m <= n
<1>1. PICK m \in W : \A k \in W : ~ (<<k, m>> \in OpToRel(<, Nat))
  BY NatLessThanWellFounded, WFMin
<1>2. \A k \in W : ~ (k < m)
  BY <1>1, Zenon DEF OpToRel
<1> QED
  BY <1>2

-----------------------------------------------------------------------------
(* Tables: what a bucket may hold, the keys of the buckets in S, and where *)
(* they are.                                                               *)
Vals == Keys \cup {Table!EMPTY, Table!TOMBSTONE}

TypedTable(f, c) == c \in Nat /\ f \in [0 .. c - 1 -> Vals]

KeysIn(f, S) == {f[b] : b \in S} \cap Keys

(* A key is in one bucket at most, *)
DistinctIn(f, c) ==
  \A a, b \in 0 .. c - 1 : f[a] \in Keys /\ f[a] = f[b] => a = b

(* and no bucket that its probes meet before is empty. *)
PlacedIn(f, c) ==
  \A b \in 0 .. c - 1 : f[b] \in Keys =>
    \E n \in 0 .. c - 1 :
      /\ Spot(Hash[f[b]], n, c) = b
      /\ \A m \in 0 .. n - 1 : f[Spot(Hash[f[b]], m, c)] # Table!EMPTY

LEMMA ValsAre ==
  /\ Table!EMPTY \notin Keys /\ Table!TOMBSTONE \notin Keys
  /\ Table!EMPTY # Table!TOMBSTONE /\ \A k \in Keys : k \in Int /\ Hash[k] \in 0 .. Word - 1
BY TableAssumption DEF Table!EMPTY, Table!TOMBSTONE, Keys

LEMMA CardinalityIs == \A S : Table!Cardinality(S) = Cardinality(S)
BY DEF Table!Cardinality, Cardinality

LEMMA CapacityIs ==
  ASSUME NEW f, NEW c \in Nat, DOMAIN f = 0 .. c - 1
  PROVE  Table!Capacity(f) = c
<1>1. Cardinality(0 .. c - 1) = IF 0 > c - 1 THEN 0 ELSE c - 1 - 0 + 1
  BY FS_Interval
<1> QED
  BY <1>1, CardinalityIs DEF Table!Capacity

LEMMA LiveIs == \A f, S : Table!Live(f, S) = KeysIn(f, S)
BY DEF Table!Live, KeysIn

(* The keys of a table are finitely many. *)
LEMMA KeysFinite == \A S \in SUBSET Keys : IsFiniteSet(S) /\ Cardinality(S) \in Nat
<1>1. IsFiniteSet(Keys)
  BY TreeAssumption, FS_Interval DEF Keys
<1> QED
  BY <1>1, FS_Subset, FS_CardinalityType

LEMMA NewTableIs ==
  ASSUME NEW c \in Nat, NEW f, f = Table!NewTable(c)
  PROVE  /\ TypedTable(f, c) /\ DOMAIN f = 0 .. c - 1
         /\ KeysIn(f, 0 .. c - 1) = {} /\ DistinctIn(f, c) /\ PlacedIn(f, c)
         /\ \A b \in 0 .. c - 1 : f[b] # Table!TOMBSTONE
<1>1. /\ f \in [0 .. c - 1 -> {Table!EMPTY}] /\ DOMAIN f = 0 .. c - 1
      /\ \A b \in 0 .. c - 1 : f[b] = Table!EMPTY
  BY DEF Table!NewTable
<1>2. KeysIn(f, 0 .. c - 1) = {}
  BY <1>1, ValsAre DEF KeysIn
<1>3. DistinctIn(f, c) /\ PlacedIn(f, c)
  BY <1>1, ValsAre DEF DistinctIn, PlacedIn
<1>4. TypedTable(f, c)
  BY <1>1 DEF TypedTable, Vals
<1> QED
  BY <1>1, <1>2, <1>3, <1>4, ValsAre

(* A key that its probes have not met before an empty bucket, or before    *)
(* they end, is not in the table.                                          *)
LEMMA NotMet ==
  ASSUME NEW f, NEW c, TypedTable(f, c), PlacedIn(f, c), NEW k \in Keys, NEW n \in 0 .. c,
         \A m \in 0 .. n - 1 : f[Spot(Hash[k], m, c)] # k,
         n = c \/ f[Spot(Hash[k], n, c)] = Table!EMPTY
  PROVE  k \notin KeysIn(f, 0 .. c - 1)
<1> SUFFICES ASSUME NEW b \in 0 .. c - 1, f[b] = k PROVE FALSE
  BY DEF KeysIn
<1>1. PICK j \in 0 .. c - 1 : /\ Spot(Hash[k], j, c) = b
                              /\ \A m \in 0 .. j - 1 : f[Spot(Hash[k], m, c)] # Table!EMPTY
  BY DEF PlacedIn
<1>2. c \in Nat
  BY DEF TypedTable
<1>3. CASE j < n
  <2>1. j \in 0 .. n - 1
    BY <1>2, <1>3
  <2> QED
    BY <1>1, <2>1
<1>4. CASE j = n
  <2>1. f[Spot(Hash[k], n, c)] = Table!EMPTY
    BY <1>2, <1>4
  <2> QED
    BY <1>1, <1>4, <2>1, ValsAre
<1>5. CASE j > n
  <2>1. n \in 0 .. j - 1 /\ n # c
    BY <1>2, <1>5
  <2> QED
    BY <1>1, <2>1
<1> QED
  BY <1>2, <1>3, <1>4, <1>5

Good(f, c) == TypedTable(f, c) /\ DistinctIn(f, c) /\ PlacedIn(f, c)

(* Probe n is the first that meets an empty bucket, and key k is not there. *)
FreeAt(f, c, k, n) ==
  /\ k \notin KeysIn(f, 0 .. c - 1) /\ n \in 0 .. c - 1
  /\ \A m \in 0 .. n - 1 : f[Spot(Hash[k], m, c)] # Table!EMPTY
  /\ f[Spot(Hash[k], n, c)] = Table!EMPTY

(* What a store of k at its probe n does, *)
FillIs(f, c, k, n) ==
  LET g == [f EXCEPT ![Spot(Hash[k], n, c)] = k]
  IN /\ Good(g, c) /\ KeysIn(g, 0 .. c - 1) = KeysIn(f, 0 .. c - 1) \cup {k}
     /\ \A b \in 0 .. c - 1 : g[b] = Table!TOMBSTONE => f[b] = Table!TOMBSTONE

(* and one of a tombstone at bucket x. *)
BuryIs(f, c, x) ==
  LET g == [f EXCEPT ![x] = Table!TOMBSTONE]
  IN /\ Good(g, c) /\ KeysIn(g, 0 .. c - 1) = KeysIn(f, 0 .. c - 1) \ {f[x]}
     /\ f[x] \in KeysIn(f, 0 .. c - 1)

LEMMA FillKeeps ==
  ASSUME NEW f, NEW c, Good(f, c), NEW k \in Keys, NEW n, FreeAt(f, c, k, n)
  PROVE  FillIs(f, c, k, n)
<1> SUFFICES ASSUME NEW x, x = Spot(Hash[k], n, c), NEW g, g = [f EXCEPT ![x] = k]
             PROVE  /\ TypedTable(g, c) /\ DistinctIn(g, c) /\ PlacedIn(g, c)
                    /\ KeysIn(g, 0 .. c - 1) = KeysIn(f, 0 .. c - 1) \cup {k}
                    /\ \A b \in 0 .. c - 1 : g[b] = Table!TOMBSTONE => f[b] = Table!TOMBSTONE
  BY DEF FillIs, Good
<1>0. /\ TypedTable(f, c) /\ DistinctIn(f, c) /\ PlacedIn(f, c)
      /\ k \notin KeysIn(f, 0 .. c - 1) /\ n \in 0 .. c - 1 /\ f[x] = Table!EMPTY
      /\ \A m \in 0 .. n - 1 : f[Spot(Hash[k], m, c)] # Table!EMPTY
  BY DEF Good, FreeAt
<1>1. c \in Nat \ {0} /\ f \in [0 .. c - 1 -> Vals] /\ k \in Vals
  BY <1>0 DEF TypedTable, Vals
<1>2. x \in 0 .. c - 1
  BY <1>0, <1>1, ValsAre, SpotType
<1>3. /\ g \in [0 .. c - 1 -> Vals] /\ g[x] = k
      /\ \A b \in (0 .. c - 1) \ {x} : g[b] = f[b]
  BY <1>1, <1>2
<1>4. \A b \in 0 .. c - 1 : f[b] # k
  BY <1>0 DEF KeysIn
<1>5. KeysIn(g, 0 .. c - 1) = KeysIn(f, 0 .. c - 1) \cup {k}
  <2>1. ASSUME NEW y \in KeysIn(f, 0 .. c - 1) PROVE y \in KeysIn(g, 0 .. c - 1)
    <3>1. PICK b \in 0 .. c - 1 : y = f[b] /\ y \in Keys
      BY <2>1 DEF KeysIn
    <3>2. b # x
      BY <1>0, <3>1, ValsAre
    <3> QED
      BY <1>3, <3>1, <3>2 DEF KeysIn
  <2>2. k \in KeysIn(g, 0 .. c - 1)
    BY <1>2, <1>3 DEF KeysIn
  <2>3. ASSUME NEW y \in KeysIn(g, 0 .. c - 1), y # k PROVE y \in KeysIn(f, 0 .. c - 1)
    <3>1. PICK b \in 0 .. c - 1 : y = g[b] /\ y \in Keys
      BY <2>3 DEF KeysIn
    <3>2. b # x
      BY <1>3, <2>3, <3>1
    <3> QED
      BY <1>3, <3>1, <3>2 DEF KeysIn
  <2> QED
    BY <2>1, <2>2, <2>3
<1>6. DistinctIn(g, c)
  BY <1>0, <1>2, <1>3, <1>4 DEF DistinctIn
<1>7. ASSUME NEW h \in 0 .. Word - 1, NEW m \in Nat, f[Spot(h, m, c)] # Table!EMPTY
      PROVE  g[Spot(h, m, c)] # Table!EMPTY
  <2>1. Spot(h, m, c) \in 0 .. c - 1
    BY <1>1, SpotType
  <2> QED
    BY <1>3, <1>7, <2>1, ValsAre
<1>8. PlacedIn(g, c)
  <2> SUFFICES ASSUME NEW b \in 0 .. c - 1, g[b] \in Keys
               PROVE  \E j \in 0 .. c - 1 :
                        /\ Spot(Hash[g[b]], j, c) = b
                        /\ \A m \in 0 .. j - 1 : g[Spot(Hash[g[b]], m, c)] # Table!EMPTY
    BY DEF PlacedIn
  <2>1. ASSUME NEW j \in 0 .. c - 1, NEW y \in Keys,
               \A m \in 0 .. j - 1 : f[Spot(Hash[y], m, c)] # Table!EMPTY
        PROVE  \A m \in 0 .. j - 1 : g[Spot(Hash[y], m, c)] # Table!EMPTY
    <3> SUFFICES ASSUME NEW m \in 0 .. j - 1 PROVE g[Spot(Hash[y], m, c)] # Table!EMPTY
      OBVIOUS
    <3>1. m \in Nat /\ Hash[y] \in 0 .. Word - 1
      BY ValsAre
    <3> QED
      BY <1>7, <2>1, <3>1
  <2>2. CASE b = x
    <3>1. g[b] = k
      BY <1>3, <2>2
    <3>2. \A m \in 0 .. n - 1 : g[Spot(Hash[k], m, c)] # Table!EMPTY
      BY <1>0, <2>1
    <3> QED
      BY <1>0, <2>2, <3>1, <3>2
  <2>3. CASE b # x
    <3>1. g[b] = f[b]
      BY <1>3, <2>3
    <3>2. PICK j \in 0 .. c - 1 :
            /\ Spot(Hash[f[b]], j, c) = b
            /\ \A m \in 0 .. j - 1 : f[Spot(Hash[f[b]], m, c)] # Table!EMPTY
      BY <1>0, <3>1 DEF PlacedIn
    <3> QED
      BY <2>1, <3>1, <3>2
  <2> QED
    BY <2>2, <2>3
<1>9. \A b \in 0 .. c - 1 : g[b] = Table!TOMBSTONE => f[b] = Table!TOMBSTONE
  BY <1>3, ValsAre
<1>10. TypedTable(g, c)
  BY <1>1, <1>3 DEF TypedTable
<1> QED
  BY <1>5, <1>6, <1>8, <1>9, <1>10

LEMMA BuryKeeps ==
  ASSUME NEW f, NEW c, Good(f, c), NEW x \in 0 .. c - 1, f[x] \in Keys
  PROVE  BuryIs(f, c, x)
<1> SUFFICES ASSUME NEW k \in Keys, k = f[x], NEW g, g = [f EXCEPT ![x] = Table!TOMBSTONE]
             PROVE  /\ TypedTable(g, c) /\ DistinctIn(g, c) /\ PlacedIn(g, c)
                    /\ KeysIn(g, 0 .. c - 1) = KeysIn(f, 0 .. c - 1) \ {k}
                    /\ k \in KeysIn(f, 0 .. c - 1)
  BY DEF BuryIs, Good
<1>0. TypedTable(f, c) /\ DistinctIn(f, c) /\ PlacedIn(f, c)
  BY DEF Good
<1>1. c \in Nat \ {0} /\ f \in [0 .. c - 1 -> Vals] /\ Table!TOMBSTONE \in Vals
  BY <1>0 DEF TypedTable, Vals
<1>2. /\ g \in [0 .. c - 1 -> Vals] /\ g[x] = Table!TOMBSTONE
      /\ \A b \in (0 .. c - 1) \ {x} : g[b] = f[b]
  BY <1>1
<1>3. KeysIn(g, 0 .. c - 1) = KeysIn(f, 0 .. c - 1) \ {k}
  <2>1. ASSUME NEW y \in KeysIn(f, 0 .. c - 1), y # k PROVE y \in KeysIn(g, 0 .. c - 1)
    <3>1. PICK b \in 0 .. c - 1 : y = f[b] /\ y \in Keys
      BY <2>1 DEF KeysIn
    <3> QED
      BY <1>2, <2>1, <3>1 DEF KeysIn
  <2>2. ASSUME NEW y \in KeysIn(g, 0 .. c - 1) PROVE y \in KeysIn(f, 0 .. c - 1) /\ y # k
    <3>1. PICK b \in 0 .. c - 1 : y = g[b] /\ y \in Keys
      BY <2>2 DEF KeysIn
    <3>2. b # x
      BY <1>2, <3>1, ValsAre
    <3>3. f[b] = y
      BY <1>2, <3>1, <3>2
    <3> QED
      BY <1>0, <3>1, <3>2, <3>3 DEF KeysIn, DistinctIn
  <2> QED
    BY <2>1, <2>2
<1>4. DistinctIn(g, c)
  BY <1>0, <1>2, ValsAre DEF DistinctIn
<1>5. ASSUME NEW h \in 0 .. Word - 1, NEW m \in Nat, f[Spot(h, m, c)] # Table!EMPTY
      PROVE  g[Spot(h, m, c)] # Table!EMPTY
  <2>1. Spot(h, m, c) \in 0 .. c - 1
    BY <1>1, SpotType
  <2> QED
    BY <1>2, <1>5, <2>1, ValsAre
<1>6. PlacedIn(g, c)
  <2> SUFFICES ASSUME NEW b \in 0 .. c - 1, g[b] \in Keys
               PROVE  \E j \in 0 .. c - 1 :
                        /\ Spot(Hash[g[b]], j, c) = b
                        /\ \A m \in 0 .. j - 1 : g[Spot(Hash[g[b]], m, c)] # Table!EMPTY
    BY DEF PlacedIn
  <2>1. b # x /\ g[b] = f[b]
    BY <1>2, ValsAre
  <2>2. PICK j \in 0 .. c - 1 :
          /\ Spot(Hash[f[b]], j, c) = b
          /\ \A m \in 0 .. j - 1 : f[Spot(Hash[f[b]], m, c)] # Table!EMPTY
    BY <1>0, <2>1 DEF PlacedIn
  <2>3. ASSUME NEW m \in 0 .. j - 1 PROVE g[Spot(Hash[f[b]], m, c)] # Table!EMPTY
    <3>1. m \in Nat /\ Hash[f[b]] \in 0 .. Word - 1
      BY <2>1, ValsAre
    <3> QED
      BY <1>5, <2>2, <3>1
  <2> QED
    BY <2>1, <2>2, <2>3
<1>7. k \in KeysIn(f, 0 .. c - 1)
  BY DEF KeysIn
<1>8. TypedTable(g, c)
  BY <1>1, <1>2 DEF TypedTable
<1> QED
  BY <1>3, <1>4, <1>6, <1>7, <1>8

(* There is an empty bucket on the path of every key that is still to be   *)
(* moved to a table with two buckets for each key.                         *)
LEMMA Room ==
  ASSUME NEW f, NEW c, TypedTable(f, c), DistinctIn(f, c),
         \A b \in 0 .. c - 1 : f[b] # Table!TOMBSTONE,
         NEW S \in SUBSET Keys, KeysIn(f, 0 .. c - 1) \subseteq S,
         NEW k \in S, k \notin KeysIn(f, 0 .. c - 1), 2 * Cardinality(S) <= c
  PROVE  \E n \in 0 .. c - 1 : f[Spot(Hash[k], n, c)] = Table!EMPTY
<1> DEFINE e == Cardinality(S)
           h == Hash[k]
<1>1. IsFiniteSet(S) /\ e \in Nat \ {0} /\ c \in Nat \ {0}
  <2>1. IsFiniteSet(S) /\ e \in Nat /\ e # 0
    BY KeysFinite, FS_EmptySet
  <2> QED
    BY <2>1 DEF TypedTable
<1>2. e < Word
  <2>1. Word \in Nat /\ Word >= 2
    BY TableAssumption
  <2>2. IsFiniteSet(1 .. Word - 1) /\ Cardinality(1 .. Word - 1) = Word - 1
    <3>1. /\ IsFiniteSet(1 .. Word - 1)
          /\ Cardinality(1 .. Word - 1) = IF 1 > Word - 1 THEN 0 ELSE Word - 1 - 1 + 1
      BY <2>1, FS_Interval
    <3> QED
      BY <2>1, <3>1
  <2>3. S \in SUBSET (1 .. Word - 1)
    BY TableAssumption
  <2>4. Cardinality(S) <= Cardinality(1 .. Word - 1)
    BY <2>2, <2>3, FS_Subset
  <2> QED
    BY <1>1, <2>1, <2>2, <2>4
<1>3. h \in 0 .. Word - 1 /\ 2 * e <= c
  BY ValsAre
<1> HIDE DEF e, h
<1>4. PICK m \in Nat :
        /\ \A i \in 0 .. e - 1 : m + i \in 0 .. c - 1
        /\ \A i, j \in 0 .. e - 1 : Spot(h, m + i, c) = Spot(h, m + j, c) => i = j
  BY <1>1, <1>2, <1>3, Window
<1> SUFFICES ASSUME \A n \in 0 .. c - 1 : f[Spot(h, n, c)] # Table!EMPTY
             PROVE  FALSE
  BY DEF h
<1> DEFINE g == [i \in 0 .. e - 1 |-> f[Spot(h, m + i, c)]]
           T == S \ {k}
<1>5. ASSUME NEW i \in 0 .. e - 1
      PROVE  /\ Spot(h, m + i, c) \in 0 .. c - 1 /\ f[Spot(h, m + i, c)] \in T
             /\ f[Spot(h, m + i, c)] \in Keys
  <2>1. m + i \in 0 .. c - 1 /\ m + i \in Nat /\ c \in Nat \ {0} /\ h \in 0 .. Word - 1
    BY <1>1, <1>3, <1>4
  <2>2. Spot(h, m + i, c) \in 0 .. c - 1
    BY <2>1, SpotType
  <2>3. f[Spot(h, m + i, c)] # Table!EMPTY
    BY <2>1
  <2>4. f[Spot(h, m + i, c)] \in Keys
    BY <2>2, <2>3 DEF TypedTable, Vals
  <2>5. f[Spot(h, m + i, c)] \in KeysIn(f, 0 .. c - 1)
    BY <2>2, <2>4 DEF KeysIn
  <2> QED
    BY <2>2, <2>4, <2>5
<1>6. g \in [0 .. e - 1 -> T]
  BY <1>5
<1>7. IsFiniteSet(T) /\ Cardinality(T) = e - 1
  BY <1>1, FS_RemoveElement DEF e
<1>8. IsFiniteSet(0 .. e - 1) /\ Cardinality(0 .. e - 1) = e
  <2>1. /\ IsFiniteSet(0 .. e - 1)
        /\ Cardinality(0 .. e - 1) = IF 0 > e - 1 THEN 0 ELSE e - 1 - 0 + 1
    BY <1>1, FS_Interval
  <2> QED
    BY <1>1, <2>1
<1>9. Cardinality(T) < Cardinality(0 .. e - 1)
  BY <1>1, <1>7, <1>8
<1>10. PICK i, j \in 0 .. e - 1 : i # j /\ g[i] = g[j]
  <2> HIDE DEF g, T
  <2> QED
    BY <1>6, <1>7, <1>8, <1>9, FS_PigeonHole
<1>11. f[Spot(h, m + i, c)] = f[Spot(h, m + j, c)]
  BY <1>10
<1>12. Spot(h, m + i, c) = Spot(h, m + j, c)
  BY <1>5, <1>11 DEF DistinctIn
<1> QED
  BY <1>4, <1>10, <1>12

-----------------------------------------------------------------------------
(* The counters. *)
Counter == [global : Int, sub : [Threads -> Int]]

LEMMA AccurateIs ==
  ASSUME NEW d \in Counter
  PROVE  /\ Table!getAccurate(d) = d.global + SumFunctionOnSet(d.sub, Threads)
         /\ SumFunctionOnSet(d.sub, Threads) \in Int /\ Table!getAccurate(d) \in Int
<1>1. Table!SumFunction(d.sub) = SumFunctionOnSet(d.sub, DOMAIN d.sub)
  BY Zenon DEF Table!SumFunction, Table!SumFunctionOnSet, Table!FoldFunctionOnSet,
     Table!MapThenFoldSet, SumFunctionOnSet, FoldFunctionOnSet, MapThenFoldSet
<1>2. DOMAIN d.sub = Threads /\ d.global \in Int /\ \A t \in Threads : d.sub[t] \in Int
  BY DEF Counter
<1>3. SumFunctionOnSet(d.sub, Threads) \in Int
  BY <1>2, TableAssumption, SumType
<1> QED
  BY <1>1, <1>2, <1>3 DEF Table!getAccurate

LEMMA ZeroCounter ==
  ASSUME NEW n \in Int
  PROVE  /\ [Table!Zero EXCEPT !.global = n] \in Counter
         /\ Table!getAccurate([Table!Zero EXCEPT !.global = n]) = n
<1> SUFFICES ASSUME NEW d, d = [Table!Zero EXCEPT !.global = n]
             PROVE  d \in Counter /\ Table!getAccurate(d) = n
  OBVIOUS
<1>1. d \in Counter /\ d.global = n /\ d.sub = [t \in Threads |-> 0]
  BY DEF Table!Zero, Counter
<1>2. SumFunctionOnSet(d.sub, Threads) = 0
  BY <1>1, TableAssumption, SumZero
<1>3. Table!getAccurate(d) = d.global + SumFunctionOnSet(d.sub, Threads)
  BY <1>1, AccurateIs
<1> QED
  BY <1>1, <1>2, <1>3

LEMMA ZeroIs == Table!Zero \in Counter /\ Table!getAccurate(Table!Zero) = 0
<1>1. Table!Zero = [Table!Zero EXCEPT !.global = 0]
  BY DEF Table!Zero
<1> QED
  BY <1>1, ZeroCounter

(* inc adds one, wherever it adds it. *)
LEMMA IncAdds ==
  ASSUME NEW d \in Counter, NEW t \in Threads, NEW e, e = Table!inc(d, t)
  PROVE  e \in Counter /\ Table!getAccurate(e) = Table!getAccurate(d) + 1
<1>1. d.global \in Int /\ d.sub \in [Threads -> Int] /\ d.sub[t] \in Int
  BY DEF Counter
<1>2. PICK v \in Int :
        /\ e.sub = [d.sub EXCEPT ![t] = v] /\ e \in Counter
        /\ e.global + v = d.global + d.sub[t] + 1
  <2>1. CASE d.sub[t] + 1 >= Flush
    <3>1. e = [global |-> d.global + d.sub[t] + 1, sub |-> [d.sub EXCEPT ![t] = 0]]
      BY <2>1 DEF Table!inc
    <3> QED
      BY <1>1, <3>1 DEF Counter
  <2>2. CASE ~ (d.sub[t] + 1 >= Flush)
    <3>1. e = [d EXCEPT !.sub[t] = @ + 1]
      BY <2>2 DEF Table!inc
    <3>2. e.sub = [d.sub EXCEPT ![t] = d.sub[t] + 1] /\ e.global = d.global /\ e \in Counter
      BY <1>1, <3>1 DEF Counter
    <3> QED
      BY <1>1, <3>2
  <2> QED
    BY <2>1, <2>2
<1>3. SumFunctionOnSet(e.sub, Threads) = (SumFunctionOnSet(d.sub, Threads) - d.sub[t]) + e.sub[t]
  <2> SUFFICES ASSUME NEW f, f = d.sub, NEW g, g = e.sub
               PROVE  SumFunctionOnSet(g, Threads) = (SumFunctionOnSet(f, Threads) - f[t]) + g[t]
    OBVIOUS
  <2>1. IsFiniteSet(Threads) /\ \A u \in Threads : f[u] \in Int /\ g[u] \in Int
    BY <1>1, <1>2, TableAssumption DEF Counter
  <2>2. \A u \in Threads \ {t} : f[u] = g[u]
    BY <1>1, <1>2
  <2> QED
    BY <2>1, <2>2, SumChange
<1>4. e.sub[t] = v
  BY <1>1, <1>2
<1>5. e.global \in Int
  BY <1>2 DEF Counter
<1>6. /\ Table!getAccurate(d) = d.global + SumFunctionOnSet(d.sub, Threads)
      /\ SumFunctionOnSet(d.sub, Threads) \in Int
  BY AccurateIs
<1>7. Table!getAccurate(e) = e.global + SumFunctionOnSet(e.sub, Threads)
  BY <1>2, AccurateIs
<1> QED
  BY <1>1, <1>2, <1>3, <1>4, <1>5, <1>6, <1>7

-----------------------------------------------------------------------------
(* The invariant of the hash table. *)
Cap == Table!Capacity(data)
OldCap == Table!Capacity(old)

(* The keys in the table, and those that are still to be moved. *)
InTable == KeysIn(data, 0 .. Cap - 1)
ToMove == KeysIn(old, at.i .. OldCap - 1)

Steps == {"outside", "insert", "erase", "move"}

TableType ==
  /\ TypedTable(data, Cap) /\ TypedTable(old, OldCap)
  /\ approxInserts \in Counter /\ approxDeletes \in Counter
  /\ at \in [step : Steps, i : Nat]
  /\ op \in [Threads -> {"none", "insert", "erase"}] /\ key \in [Threads -> Int]

(* One thread is inside, with an operation that fits what it does. *)
InGuard ==
  /\ at.step = "outside" => holder = Nobody
  /\ at.step # "outside" =>
       holder \in Threads /\ op[holder] = IF at.step = "erase" THEN "erase" ELSE "insert"
  /\ \A t \in Threads : IF op[t] = "none" THEN key[t] = 0 ELSE key[t] \in Keys
  /\ at.step \in {"insert", "erase"} => at.i <= Cap
  /\ at.step = "move" => at.i <= OldCap

Distinct == DistinctIn(data, Cap)
Placed == PlacedIn(data, Cap)

(* The probes have met neither the key nor an empty bucket. *)
Probing ==
  at.step \in {"insert", "erase"} =>
    \A m \in 0 .. at.i - 1 :
      data[Spot(Hash[key[holder]], m, Cap)] \notin {key[holder], Table!EMPTY}

(* A key is in the new table or still to be moved, and in one bucket.  The *)
(* new table has four buckets for each key, and no tombstones.             *)
Moving ==
  at.step = "move" =>
    /\ \A a, b \in at.i .. OldCap - 1 : old[a] \in Keys /\ old[a] = old[b] => a = b
    /\ InTable \cap ToMove = {}
    /\ \A b \in 0 .. Cap - 1 : data[b] # Table!TOMBSTONE
    /\ 4 * Cardinality(InTable \cup ToMove) <= Cap

(* The keys in the table, and outside it during an expansion. *)
Stored == InTable \cup (IF at.step = "move" THEN ToMove ELSE {})

(* The counters never say that there are fewer keys than there are. *)
Counted == Cardinality(Stored) <= Table!getAccurateSize

TableInv ==
  TableType /\ InGuard /\ Distinct /\ Placed /\ Probing /\ Moving /\ Counted

LEMMA ElementsAre == TableType => Table!Elements = Stored
<1> SUFFICES ASSUME TableType PROVE Table!Elements = Stored
  OBVIOUS
<1>1. DOMAIN data = 0 .. Cap - 1 /\ DOMAIN old = 0 .. OldCap - 1 /\ OldCap \in Nat /\ at.i \in Nat
  BY DEF TableType, TypedTable
<1>2. {b \in DOMAIN old : b >= at.i} = at.i .. OldCap - 1
  BY <1>1
<1>3. Table!Live(data, DOMAIN data) = InTable
  BY <1>1, LiveIs DEF InTable
<1>4. Table!Live(old, {b \in DOMAIN old : b >= at.i}) = ToMove
  BY <1>2, LiveIs DEF ToMove
<1> QED
  BY <1>3, <1>4 DEF Table!Elements, Stored

LEMMA StoredKeys == InTable \in SUBSET Keys /\ ToMove \in SUBSET Keys /\ Stored \in SUBSET Keys
BY DEF InTable, ToMove, Stored, KeysIn

(* The next state of what is defined by capacities, sums and cardinalities. *)
LEMMA CapAfter == Cap' = Table!Capacity(data') /\ OldCap' = Table!Capacity(old')
BY Zenon DEF Cap, OldCap, Table!Capacity, Table!Cardinality

LEMMA SizeAfter ==
  Table!getAccurateSize' = Table!getAccurate(approxInserts') - Table!getAccurate(approxDeletes')
BY Zenon DEF Table!getAccurateSize, Table!getAccurate, Table!SumFunction, Table!SumFunctionOnSet,
   Table!FoldFunctionOnSet, Table!MapThenFoldSet

LEMMA CardinalityAfter ==
  /\ Cardinality(Stored)' = Cardinality(Stored')
  /\ Cardinality(InTable \cup ToMove)' = Cardinality(InTable' \cup ToMove')
BY Zenon DEF Cardinality

LEMMA TableAfter ==
  /\ TypedTable(data, Cap)' <=> TypedTable(data', Cap')
  /\ TypedTable(old, OldCap)' <=> TypedTable(old', OldCap')
  /\ Distinct' <=> DistinctIn(data', Cap')
  /\ Placed' <=> PlacedIn(data', Cap')
  /\ InTable' = KeysIn(data', 0 .. Cap' - 1)
  /\ ToMove' = KeysIn(old', at'.i .. OldCap' - 1)
  /\ Probing' <=> (at'.step \in {"insert", "erase"} =>
                     \A m \in 0 .. at'.i - 1 :
                       data'[Spot(Hash[key'[holder']], m, Cap')] \notin {key'[holder'], Table!EMPTY})
<1>1. /\ TypedTable(data, Cap)' <=> TypedTable(data', Cap')
      /\ TypedTable(old, OldCap)' <=> TypedTable(old', OldCap')
  BY DEF TypedTable, Vals, Table!EMPTY, Table!TOMBSTONE
<1>2. (Distinct' <=> DistinctIn(data', Cap')) /\ (Placed' <=> PlacedIn(data', Cap'))
  BY Zenon DEF Distinct, Placed, DistinctIn, PlacedIn, Spot, Table!EMPTY
<1>3. InTable' = KeysIn(data', 0 .. Cap' - 1) /\ ToMove' = KeysIn(old', at'.i .. OldCap' - 1)
  BY Zenon DEF InTable, ToMove, KeysIn
<1>4. Probing' <=> (at'.step \in {"insert", "erase"} =>
                      \A m \in 0 .. at'.i - 1 :
                        data'[Spot(Hash[key'[holder']], m, Cap')] \notin {key'[holder'], Table!EMPTY})
  BY Zenon DEF Probing, Spot, Table!EMPTY
<1> QED
  BY <1>1, <1>2, <1>3, <1>4

(* The key that is to be moved next finds room. *)
LEMMA MoveFits ==
  ASSUME TableInv, at.step = "move", at.i < OldCap, NEW k \in Keys, k = old[at.i]
  PROVE  /\ k \in Stored /\ k \notin InTable
         /\ \E n \in 0 .. Cap - 1 : data[Spot(Hash[k], n, Cap)] = Table!EMPTY
<1>1. /\ TypedTable(data, Cap) /\ DistinctIn(data, Cap) /\ Cap \in Nat
      /\ at.i \in Nat /\ OldCap \in Nat
  BY DEF TableInv, TableType, Distinct, TypedTable
<1>2. k \in ToMove
  <2>1. at.i \in at.i .. OldCap - 1
    BY <1>1
  <2> QED
    BY <2>1 DEF ToMove, KeysIn
<1>3. /\ k \notin InTable /\ \A b \in 0 .. Cap - 1 : data[b] # Table!TOMBSTONE
      /\ 4 * Cardinality(Stored) <= Cap /\ Stored = InTable \cup ToMove
  BY <1>2 DEF TableInv, Moving, Stored
<1>4. Stored \in SUBSET Keys /\ Cardinality(Stored) \in Nat
  BY StoredKeys, KeysFinite
<1>5. 2 * Cardinality(Stored) <= Cap
  BY <1>1, <1>3, <1>4
<1>6. InTable \subseteq Stored /\ k \in Stored
  BY <1>2, <1>3
<1>7. \E n \in 0 .. Cap - 1 : data[Spot(Hash[k], n, Cap)] = Table!EMPTY
  BY <1>1, <1>3, <1>4, <1>5, <1>6, Room DEF InTable
<1> QED
  BY <1>3, <1>6, <1>7

LEMMA SlotIs ==
  \A k, n : Table!Slot(k, n, data) = Spot(Hash[k], n, Cap)
BY DEF Table!Slot, Spot, Cap

LEMMA TableInit == Table!Init => TableInv /\ Table!Elements = {}
<1> SUFFICES ASSUME Table!Init PROVE TableInv /\ Table!Elements = {}
  OBVIOUS
<1>1. InitCap \in Nat /\ 0 \in Nat
  BY TableAssumption
<1>2. data = Table!NewTable(InitCap) /\ old = Table!NewTable(0)
  BY DEF Table!Init
<1>3. /\ TypedTable(data, InitCap) /\ DOMAIN data = 0 .. InitCap - 1
      /\ KeysIn(data, 0 .. InitCap - 1) = {}
      /\ DistinctIn(data, InitCap) /\ PlacedIn(data, InitCap)
  BY <1>1, <1>2, NewTableIs
<1>4. TypedTable(old, 0) /\ DOMAIN old = 0 .. 0 - 1
  BY <1>1, <1>2, NewTableIs
<1>5. Cap = InitCap /\ OldCap = 0
  BY <1>1, <1>3, <1>4, CapacityIs DEF Cap, OldCap
<1>6. at.step = "outside" /\ at.i = 0 /\ at \in [step : Steps, i : Nat] /\ holder = Nobody
  BY DEF Table!Init, Table!Outside, Steps
<1>7. TableType
  BY <1>3, <1>4, <1>5, <1>6, ZeroIs DEF TableType, Table!Init
<1>8. InGuard /\ Probing /\ Moving
  BY <1>6 DEF InGuard, Probing, Moving, Table!Init
<1>9. Stored = {}
  BY <1>3, <1>5, <1>6 DEF Stored, InTable
<1>10. Table!getAccurateSize = 0
  BY ZeroIs DEF Table!getAccurateSize, Table!Init
<1>11. Counted
  BY <1>9, <1>10, FS_EmptySet DEF Counted
<1> QED
  BY <1>3, <1>5, <1>7, <1>8, <1>9, <1>11, ElementsAre DEF TableInv, Distinct, Placed

-----------------------------------------------------------------------------
(* What a step is for the set: nothing, *)
Still ==
  /\ op' = op /\ key' = key /\ seen' = seen /\ result' = result
  /\ Table!Elements' = Table!Elements

(* or the answer r of thread t, with S in the set from now on, *)
Answers(t, r, S) ==
  /\ Table!Elements' = S
  /\ op' = [op EXCEPT ![t] = "none"] /\ key' = [key EXCEPT ![t] = 0]
  /\ result' = [result EXCEPT ![t] = r]
  /\ seen' = [u \in Threads |-> IF u = t \/ op[u] = "none" THEN {} ELSE seen[u] \cup {S}]

(* which the contents of the set justify. *)
Justified(t, r, S) ==
  LET E == Table!Elements
  IN \/ op[t] = "insert" /\ r = TRUE /\ key[t] \notin E /\ S = E \cup {key[t]}
     \/ op[t] = "erase" /\ r = TRUE /\ key[t] \in E /\ S = E \ {key[t]}
     \/ op[t] = "insert" /\ r = FALSE /\ key[t] \in E /\ S = E
     \/ op[t] = "erase" /\ r = FALSE /\ key[t] \notin E /\ S = E

Progress(t) == Still \/ \E r, S : Answers(t, r, S) /\ Justified(t, r, S)

LEMMA ElementsAfter == TableType' => Table!Elements' = Stored'
<1>1. (TableType => Table!Elements = Stored)'
  BY ElementsAre, PTL
<1> QED
  BY <1>1

LEMMA SameTables ==
  ASSUME data' = data, old' = old
  PROVE  Cap' = Cap /\ OldCap' = OldCap /\ InTable' = InTable
<1>1. Cap' = Cap /\ OldCap' = OldCap
  BY CapAfter DEF Cap, OldCap
<1> QED
  BY <1>1, TableAfter DEF InTable

(* The operation of t returns and leaves the buckets d. *)
LEMMA ReturnKeeps ==
  ASSUME TableInv, NEW t \in Threads, NEW r, NEW d, Table!Return(t, r, d),
         TypedTable(d, Cap), DistinctIn(d, Cap), PlacedIn(d, Cap),
         NEW S, S = KeysIn(d, 0 .. Cap - 1),
         NEW i, i = approxInserts', i \in Counter, NEW e, e = approxDeletes', e \in Counter,
         Cardinality(S) <= Table!getAccurate(i) - Table!getAccurate(e)
  PROVE  TableInv' /\ Answers(t, r, S)
<1>1. /\ data' = d /\ old' = old /\ holder' = Nobody /\ at' = [step |-> "outside", i |-> 0]
      /\ op' = [op EXCEPT ![t] = "none"] /\ key' = [key EXCEPT ![t] = 0]
      /\ result' = [result EXCEPT ![t] = r]
      /\ seen' = [u \in Threads |-> IF u = t \/ op[u] = "none" THEN {}
                                    ELSE seen[u] \cup {Table!Live(d, DOMAIN d)}]
  BY DEF Table!Return, Table!Outside
<1>2. DOMAIN d = 0 .. Cap - 1 /\ Cap \in Nat
  BY DEF TypedTable
<1>3. Cap' = Cap /\ OldCap' = OldCap
  <2>1. Table!Capacity(d) = Cap
    BY <1>2, CapacityIs
  <2> QED
    BY <1>1, <2>1, CapAfter DEF OldCap
<1>4. TableType /\ InGuard
  BY DEF TableInv
<1>5. TableType'
  <2>1. TypedTable(data, Cap)' /\ TypedTable(old, OldCap)'
    BY <1>1, <1>3, <1>4, TableAfter DEF TableType
  <2>2. at' \in [step : Steps, i : Nat]
    BY <1>1 DEF Steps
  <2>3. /\ op' \in [Threads -> {"none", "insert", "erase"}] /\ key' \in [Threads -> Int]
    BY <1>1, <1>4 DEF TableType
  <2> QED
    BY <2>1, <2>2, <2>3 DEF TableType
<1>6. Distinct' /\ Placed'
  BY <1>1, <1>3, TableAfter
<1>7. at'.step = "outside"
  BY <1>1
<1>8. InGuard'
  <2>1. ASSUME NEW u \in Threads
        PROVE  IF op'[u] = "none" THEN key'[u] = 0 ELSE key'[u] \in Keys
    <3>1. CASE u = t
      BY <1>1, <1>4, <3>1 DEF TableType
    <3>2. CASE u # t
      BY <1>1, <1>4, <3>2 DEF TableType, InGuard
    <3> QED
      BY <3>1, <3>2
  <2> QED
    BY <1>1, <1>7, <2>1 DEF InGuard
<1>9. Probing' /\ Moving'
  <2>1. at'.step \notin {"insert", "erase", "move"}
    BY <1>7
  <2> QED
    BY <2>1 DEF Probing, Moving
<1>10. Stored' = S /\ Table!Elements' = S
  <2>1. InTable' = S
    BY <1>1, <1>3, TableAfter
  <2>2. Stored' = InTable'
    BY <1>7 DEF Stored
  <2> QED
    BY <1>5, <2>1, <2>2, ElementsAfter
<1>11. Counted'
  BY <1>10, CardinalityAfter, SizeAfter DEF Counted
<1>12. Table!Live(d, DOMAIN d) = S
  BY <1>2, LiveIs
<1>13. Answers(t, r, S)
  BY <1>1, <1>10, <1>12 DEF Answers
<1> QED
  BY <1>5, <1>6, <1>8, <1>9, <1>11, <1>13 DEF TableInv

(* The next probe of an operation. *)
LEMMA ProbeKeeps ==
  ASSUME TableInv, NEW t \in Threads, holder = t, at.step \in {"insert", "erase"}, at.i < Cap,
         data[Spot(Hash[key[t]], at.i, Cap)] \notin {key[t], Table!EMPTY}, Table!NextProbe
  PROVE  TableInv' /\ Still
<1>1. /\ data' = data /\ old' = old /\ holder' = holder /\ at' = [at EXCEPT !.i = @ + 1]
      /\ op' = op /\ key' = key /\ result' = result /\ seen' = seen
      /\ approxInserts' = approxInserts /\ approxDeletes' = approxDeletes
  BY DEF Table!NextProbe, Table!opVars, Table!counters
<1>2. Cap' = Cap /\ OldCap' = OldCap /\ InTable' = InTable
  BY <1>1, SameTables
<1>3. TableType /\ InGuard /\ Distinct /\ Placed /\ Probing /\ Counted
  BY DEF TableInv
<1>4. at.i \in Nat /\ at'.i = at.i + 1 /\ at'.step = at.step /\ at' \in [step : Steps, i : Nat]
      /\ Cap \in Nat
  BY <1>1, <1>3 DEF TableType, TypedTable
<1>5. TypedTable(data, Cap)' /\ TypedTable(old, OldCap)' /\ Distinct' /\ Placed'
  BY <1>1, <1>2, <1>3, TableAfter DEF TableType, Distinct, Placed
<1>6. TableType'
  BY <1>1, <1>3, <1>4, <1>5 DEF TableType
<1>7. InGuard'
  BY <1>1, <1>2, <1>3, <1>4 DEF InGuard
<1>8. Probing'
  <2>1. ASSUME NEW m \in 0 .. at'.i - 1
        PROVE  data[Spot(Hash[key[t]], m, Cap)] \notin {key[t], Table!EMPTY}
    <3>1. CASE m = at.i
      BY <3>1
    <3>2. CASE m # at.i
      <4>1. m \in 0 .. at.i - 1
        BY <1>4, <3>2
      <4> QED
        BY <1>3, <4>1 DEF Probing
    <3> QED
      BY <3>1, <3>2
  <2> QED
    BY <1>1, <1>2, <2>1, TableAfter
<1>9. Moving'
  BY <1>4 DEF Moving
<1>10. Stored' = Stored /\ Stored = InTable
  BY <1>2, <1>4 DEF Stored
<1>11. Counted'
  BY <1>1, <1>3, <1>10, CardinalityAfter, SizeAfter DEF Counted, Table!getAccurateSize
<1>12. Table!Elements' = Table!Elements
  BY <1>3, <1>6, <1>10, ElementsAfter, ElementsAre
<1> QED
  BY <1>1, <1>5, <1>6, <1>7, <1>8, <1>9, <1>11, <1>12 DEF TableInv, Still

(* What is known where an operation probes. *)
LEMMA ProbePlace ==
  ASSUME TableInv, NEW t \in Threads, holder = t, at.step \in {"insert", "erase"},
         NEW k, k = key[t], NEW n, n = at.i, NEW h, h = Hash[k]
  PROVE  /\ k \in Keys /\ n \in 0 .. Cap /\ h \in 0 .. Word - 1 /\ Cap \in Nat
         /\ op[t] = at.step /\ Table!Elements = InTable
         /\ TypedTable(data, Cap) /\ DistinctIn(data, Cap) /\ PlacedIn(data, Cap)
         /\ \A m \in 0 .. n - 1 : data[Spot(h, m, Cap)] # k /\ data[Spot(h, m, Cap)] # Table!EMPTY
         /\ n < Cap => Spot(h, n, Cap) \in 0 .. Cap - 1 /\ Table!Here(t) = Spot(h, n, Cap)
         /\ approxInserts \in Counter /\ approxDeletes \in Counter
         /\ Cardinality(InTable) <= Table!getAccurate(approxInserts) - Table!getAccurate(approxDeletes)
         /\ Cardinality(InTable) \in Nat /\ IsFiniteSet(InTable)
<1>1. TableType /\ InGuard /\ Distinct /\ Placed /\ Probing /\ Counted
  BY DEF TableInv
<1>2. op[t] = at.step /\ k \in Keys /\ n \in 0 .. Cap /\ Cap \in Nat
  BY <1>1 DEF InGuard, TableType, TypedTable
<1>3. h \in 0 .. Word - 1
  BY <1>2, ValsAre
<1>4. ASSUME n < Cap PROVE Spot(h, n, Cap) \in 0 .. Cap - 1 /\ Table!Here(t) = Spot(h, n, Cap)
  <2>1. n \in Nat /\ Cap \in Nat \ {0}
    BY <1>2, <1>4
  <2> QED
    BY <1>3, <2>1, SpotType, SlotIs DEF Table!Here
<1>5. Stored = InTable /\ Table!Elements = InTable
  BY <1>1, ElementsAre DEF Stored
<1>6. \A m \in 0 .. n - 1 : data[Spot(h, m, Cap)] # k /\ data[Spot(h, m, Cap)] # Table!EMPTY
  BY <1>1 DEF Probing
<1>7. Cardinality(InTable) <= Table!getAccurate(approxInserts) - Table!getAccurate(approxDeletes)
  BY <1>1, <1>5 DEF Counted, Table!getAccurateSize
<1>8. Cardinality(InTable) \in Nat /\ IsFiniteSet(InTable)
  BY StoredKeys, KeysFinite
<1> QED
  BY <1>1, <1>2, <1>3, <1>4, <1>5, <1>6, <1>7, <1>8 DEF TableType, Distinct, Placed

(* An insert meets its key, an empty bucket, or something else. *)
LEMMA InsertProbeKeeps ==
  ASSUME TableInv, NEW t \in Threads, Table!InsertProbe(t)
  PROVE  TableInv' /\ Progress(t)
<1> SUFFICES ASSUME NEW k, k = key[t], NEW n, n = at.i, NEW h, h = Hash[k],
                    NEW x, x = Spot(h, n, Cap)
             PROVE  TableInv' /\ Progress(t)
  OBVIOUS
<1>1. holder = t /\ at.step = "insert" /\ at.i < Cap
  BY DEF Table!InsertProbe, Cap
<1>2. /\ k \in Keys /\ n \in 0 .. Cap - 1 /\ n \in 0 .. Cap
      /\ h \in 0 .. Word - 1 /\ Cap \in Nat
      /\ op[t] = "insert" /\ Table!Elements = InTable
      /\ TypedTable(data, Cap) /\ DistinctIn(data, Cap) /\ PlacedIn(data, Cap)
      /\ \A m \in 0 .. n - 1 : data[Spot(h, m, Cap)] # k /\ data[Spot(h, m, Cap)] # Table!EMPTY
      /\ x \in 0 .. Cap - 1 /\ Table!Here(t) = x
      /\ approxInserts \in Counter /\ approxDeletes \in Counter
      /\ Cardinality(InTable) <= Table!getAccurate(approxInserts) - Table!getAccurate(approxDeletes)
      /\ Cardinality(InTable) \in Nat /\ IsFiniteSet(InTable)
  BY <1>1, ProbePlace
<1>3. \/ data[x] = k /\ Table!Return(t, FALSE, data) /\ UNCHANGED Table!counters
      \/ /\ data[x] = Table!EMPTY /\ Table!Return(t, TRUE, [data EXCEPT ![x] = k])
         /\ approxInserts' = Table!inc(approxInserts, t) /\ approxDeletes' = approxDeletes
      \/ data[x] \notin {k, Table!EMPTY} /\ Table!NextProbe
  BY <1>2 DEF Table!InsertProbe
<1>4. CASE data[x] = k /\ Table!Return(t, FALSE, data) /\ UNCHANGED Table!counters
  <2>1. approxInserts' = approxInserts /\ approxDeletes' = approxDeletes
    BY <1>4 DEF Table!counters
  <2>2. k \in InTable
    BY <1>2, <1>4 DEF InTable, KeysIn
  <2>3. TableInv' /\ Answers(t, FALSE, InTable)
    BY <1>2, <1>4, <2>1, ReturnKeeps DEF InTable
  <2>4. Justified(t, FALSE, InTable)
    BY <1>2, <2>2 DEF Justified
  <2> QED
    BY <2>3, <2>4 DEF Progress
<1>5. CASE /\ data[x] = Table!EMPTY /\ Table!Return(t, TRUE, [data EXCEPT ![x] = k])
           /\ approxInserts' = Table!inc(approxInserts, t) /\ approxDeletes' = approxDeletes
  <2> SUFFICES ASSUME NEW g, g = [data EXCEPT ![x] = k], NEW e, e = Table!inc(approxInserts, t),
                      NEW S, S = KeysIn(g, 0 .. Cap - 1)
               PROVE  TableInv' /\ Progress(t)
    OBVIOUS
  <2>1. k \notin InTable
    BY <1>2, <1>5, NotMet DEF InTable
  <2>2. TypedTable(g, Cap) /\ DistinctIn(g, Cap) /\ PlacedIn(g, Cap) /\ S = InTable \cup {k}
    <3>1. Good(data, Cap) /\ FreeAt(data, Cap, k, n) /\ g = [data EXCEPT ![Spot(Hash[k], n, Cap)] = k]
      BY <1>2, <1>5, <2>1 DEF InTable, Good, FreeAt
    <3>2. FillIs(data, Cap, k, n)
      BY <1>2, <3>1, FillKeeps
    <3> QED
      BY <3>1, <3>2 DEF InTable, FillIs, Good
  <2>3. e \in Counter /\ Table!getAccurate(e) = Table!getAccurate(approxInserts) + 1
    BY <1>2, IncAdds
  <2>4. Cardinality(S) = Cardinality(InTable) + 1
    BY <1>2, <2>1, <2>2, FS_AddElement
  <2>5. Cardinality(S) <= Table!getAccurate(e) - Table!getAccurate(approxDeletes)
    <3>1. /\ Table!getAccurate(approxInserts) \in Int /\ Table!getAccurate(approxDeletes) \in Int
      BY <1>2, AccurateIs
    <3> QED
      BY <1>2, <2>3, <2>4, <3>1
  <2>6. Table!Return(t, TRUE, g) /\ approxInserts' = e /\ approxDeletes' = approxDeletes
    BY <1>5
  <2>7. TableInv' /\ Answers(t, TRUE, S)
    BY <1>2, <2>2, <2>3, <2>5, <2>6, ReturnKeeps
  <2>8. Justified(t, TRUE, S)
    BY <1>2, <2>1, <2>2 DEF Justified
  <2> QED
    BY <2>7, <2>8 DEF Progress
<1>6. CASE data[x] \notin {k, Table!EMPTY} /\ Table!NextProbe
  <2>1. TableInv' /\ Still
    BY <1>1, <1>6, ProbeKeeps
  <2> QED
    BY <2>1 DEF Progress
<1> QED
  BY <1>3, <1>4, <1>5, <1>6

(* The same for an erase, *)
LEMMA ErasedProbeKeeps ==
  ASSUME TableInv, NEW t \in Threads, Table!ErasedProbe(t)
  PROVE  TableInv' /\ Progress(t)
<1> SUFFICES ASSUME NEW k, k = key[t], NEW n, n = at.i, NEW h, h = Hash[k],
                    NEW x, x = Spot(h, n, Cap)
             PROVE  TableInv' /\ Progress(t)
  OBVIOUS
<1>1. holder = t /\ at.step = "erase" /\ at.i < Cap
  BY DEF Table!ErasedProbe, Cap
<1>2. /\ k \in Keys /\ n \in 0 .. Cap - 1 /\ n \in 0 .. Cap
      /\ h \in 0 .. Word - 1 /\ Cap \in Nat
      /\ op[t] = "erase" /\ Table!Elements = InTable
      /\ TypedTable(data, Cap) /\ DistinctIn(data, Cap) /\ PlacedIn(data, Cap)
      /\ \A m \in 0 .. n - 1 : data[Spot(h, m, Cap)] # k /\ data[Spot(h, m, Cap)] # Table!EMPTY
      /\ x \in 0 .. Cap - 1 /\ Table!Here(t) = x
      /\ approxInserts \in Counter /\ approxDeletes \in Counter
      /\ Cardinality(InTable) <= Table!getAccurate(approxInserts) - Table!getAccurate(approxDeletes)
      /\ Cardinality(InTable) \in Nat /\ IsFiniteSet(InTable)
  BY <1>1, ProbePlace
<1>3. \/ data[x] = Table!EMPTY /\ Table!Return(t, FALSE, data) /\ UNCHANGED Table!counters
      \/ /\ data[x] = k /\ Table!Return(t, TRUE, [data EXCEPT ![x] = Table!TOMBSTONE])
         /\ approxDeletes' = Table!inc(approxDeletes, t) /\ approxInserts' = approxInserts
      \/ data[x] \notin {k, Table!EMPTY} /\ Table!NextProbe
  BY <1>2 DEF Table!ErasedProbe
<1>4. CASE data[x] = Table!EMPTY /\ Table!Return(t, FALSE, data) /\ UNCHANGED Table!counters
  <2>1. approxInserts' = approxInserts /\ approxDeletes' = approxDeletes
    BY <1>4 DEF Table!counters
  <2>2. k \notin InTable
    BY <1>2, <1>4, NotMet DEF InTable
  <2>3. TableInv' /\ Answers(t, FALSE, InTable)
    BY <1>2, <1>4, <2>1, ReturnKeeps DEF InTable
  <2>4. Justified(t, FALSE, InTable)
    BY <1>2, <2>2 DEF Justified
  <2> QED
    BY <2>3, <2>4 DEF Progress
<1>5. CASE /\ data[x] = k /\ Table!Return(t, TRUE, [data EXCEPT ![x] = Table!TOMBSTONE])
           /\ approxDeletes' = Table!inc(approxDeletes, t) /\ approxInserts' = approxInserts
  <2> SUFFICES ASSUME NEW g, g = [data EXCEPT ![x] = Table!TOMBSTONE],
                      NEW e, e = Table!inc(approxDeletes, t),
                      NEW S, S = KeysIn(g, 0 .. Cap - 1)
               PROVE  TableInv' /\ Progress(t)
    OBVIOUS
  <2>1. /\ TypedTable(g, Cap) /\ DistinctIn(g, Cap) /\ PlacedIn(g, Cap)
        /\ S = InTable \ {k} /\ k \in InTable
    <3>1. Good(data, Cap) /\ data[x] \in Keys /\ data[x] = k
      BY <1>2, <1>5 DEF Good
    <3>2. BuryIs(data, Cap, x)
      BY <1>2, <3>1, BuryKeeps
    <3> QED
      BY <3>1, <3>2 DEF InTable, BuryIs, Good
  <2>2. e \in Counter /\ Table!getAccurate(e) = Table!getAccurate(approxDeletes) + 1
    BY <1>2, IncAdds
  <2>3. Cardinality(S) = Cardinality(InTable) - 1
    BY <1>2, <2>1, FS_RemoveElement
  <2>4. Cardinality(S) <= Table!getAccurate(approxInserts) - Table!getAccurate(e)
    <3>1. /\ Table!getAccurate(approxInserts) \in Int /\ Table!getAccurate(approxDeletes) \in Int
      BY <1>2, AccurateIs
    <3> QED
      BY <1>2, <2>2, <2>3, <3>1
  <2>5. Table!Return(t, TRUE, g) /\ approxInserts' = approxInserts /\ approxDeletes' = e
    BY <1>5
  <2>6. TableInv' /\ Answers(t, TRUE, S)
    BY <1>2, <2>1, <2>2, <2>4, <2>5, ReturnKeeps
  <2>7. Justified(t, TRUE, S)
    BY <1>2, <2>1 DEF Justified
  <2> QED
    BY <2>6, <2>7 DEF Progress
<1>6. CASE data[x] \notin {k, Table!EMPTY} /\ Table!NextProbe
  <2>1. TableInv' /\ Still
    BY <1>1, <1>6, ProbeKeeps
  <2> QED
    BY <2>1 DEF Progress
<1> QED
  BY <1>3, <1>4, <1>5, <1>6

(* and for one that has seen the whole table. *)
LEMMA EraseOverrunKeeps ==
  ASSUME TableInv, NEW t \in Threads, Table!EraseOverrun(t)
  PROVE  TableInv' /\ Progress(t)
<1> SUFFICES ASSUME NEW k, k = key[t], NEW n, n = at.i, NEW h, h = Hash[k]
             PROVE  TableInv' /\ Progress(t)
  OBVIOUS
<1>1. /\ holder = t /\ at.step = "erase" /\ n = Cap /\ Table!Return(t, FALSE, data)
      /\ approxInserts' = approxInserts /\ approxDeletes' = approxDeletes
  BY DEF Table!EraseOverrun, Cap, Table!counters
<1>2. /\ k \in Keys /\ n \in 0 .. Cap /\ op[t] = "erase" /\ Table!Elements = InTable
      /\ TypedTable(data, Cap) /\ DistinctIn(data, Cap) /\ PlacedIn(data, Cap)
      /\ \A m \in 0 .. n - 1 : data[Spot(h, m, Cap)] # k
      /\ approxInserts \in Counter /\ approxDeletes \in Counter
      /\ Cardinality(InTable) <= Table!getAccurate(approxInserts) - Table!getAccurate(approxDeletes)
  BY <1>1, ProbePlace
<1>3. k \notin InTable
  BY <1>1, <1>2, NotMet DEF InTable
<1>4. TableInv' /\ Answers(t, FALSE, InTable)
  BY <1>1, <1>2, ReturnKeeps DEF InTable
<1>5. Justified(t, FALSE, InTable)
  BY <1>2, <1>3 DEF Justified
<1> QED
  BY <1>4, <1>5 DEF Progress

-----------------------------------------------------------------------------
(* A step that leaves the tables and the counters alone. *)
LEMMA AsideKeeps ==
  ASSUME TableInv, data' = data, old' = old,
         approxInserts' = approxInserts, approxDeletes' = approxDeletes,
         TableType', InGuard', Probing', at'.step = "move" <=> at.step = "move",
         at.step = "move" => at'.i = at.i
  PROVE  TableInv' /\ Table!Elements' = Table!Elements
<1>1. Cap' = Cap /\ OldCap' = OldCap /\ InTable' = InTable
  BY SameTables
<1>2. TableType /\ Distinct /\ Placed /\ Moving /\ Counted
  BY DEF TableInv
<1>3. Distinct' /\ Placed'
  BY <1>1, <1>2, TableAfter DEF Distinct, Placed
<1>4. at.step = "move" => ToMove' = ToMove
  BY <1>1, TableAfter DEF ToMove
<1>5. Moving'
  BY <1>1, <1>2, <1>4, CardinalityAfter DEF Moving
<1>6. Stored' = Stored
  BY <1>1, <1>4 DEF Stored
<1>7. Counted'
  BY <1>2, <1>6, CardinalityAfter, SizeAfter DEF Counted, Table!getAccurateSize
<1>8. Table!Elements' = Table!Elements
  BY <1>2, <1>6, ElementsAre, ElementsAfter
<1> QED
  BY <1>3, <1>5, <1>7, <1>8 DEF TableInv

LEMMA EnterKeeps ==
  ASSUME TableInv, NEW t \in Threads, Table!EnterGuard(t)
  PROVE  TableInv' /\ Still
<1>1. /\ data' = data /\ old' = old /\ holder' = t /\ at' = [step |-> op[t], i |-> 0]
      /\ op' = op /\ key' = key /\ result' = result /\ seen' = seen
      /\ approxInserts' = approxInserts /\ approxDeletes' = approxDeletes
      /\ holder = Nobody /\ op[t] # "none"
  BY DEF Table!EnterGuard, Table!opVars, Table!counters
<1>2. TableType /\ InGuard /\ holder \notin Threads
  BY <1>1, TableAssumption DEF TableInv
<1>3. at.step = "outside" /\ op[t] \in {"insert", "erase"} /\ at'.step = op[t] /\ at'.i = 0
  BY <1>1, <1>2 DEF TableType, InGuard
<1>4. Cap' = Cap /\ OldCap' = OldCap
  BY <1>1, SameTables
<1>5. TableType'
  <2>1. TypedTable(data, Cap)' /\ TypedTable(old, OldCap)'
    BY <1>1, <1>2, <1>4, TableAfter DEF TableType
  <2> QED
    BY <1>1, <1>2, <1>3, <2>1 DEF TableType, Steps
<1>6. Cap \in Nat
  BY <1>2 DEF TableType, TypedTable
<1>7. InGuard'
  BY <1>1, <1>2, <1>3, <1>4, <1>6 DEF InGuard
<1>8. Probing'
  BY <1>3, TableAfter
<1>9. TableInv' /\ Table!Elements' = Table!Elements
  BY <1>1, <1>3, <1>5, <1>7, <1>8, AsideKeeps
<1> QED
  BY <1>1, <1>9 DEF Still

LEMMA CallInTableKeeps ==
  ASSUME TableInv, NEW t \in Threads, NEW o \in {"insert", "erase"}, NEW k \in Keys,
         Table!Call(t, o, k)
  PROVE  TableInv' /\ Table!Elements' = Table!Elements
<1>1. /\ data' = data /\ old' = old /\ holder' = holder /\ at' = at /\ op[t] = "none"
      /\ op' = [op EXCEPT ![t] = o] /\ key' = [key EXCEPT ![t] = k]
      /\ approxInserts' = approxInserts /\ approxDeletes' = approxDeletes
  BY DEF Table!Call, Table!counters
<1>2. TableType /\ InGuard /\ Probing
  BY DEF TableInv
<1>3. Cap' = Cap /\ OldCap' = OldCap
  BY <1>1, SameTables
<1>4. TableType'
  <2>1. TypedTable(data, Cap)' /\ TypedTable(old, OldCap)'
    BY <1>1, <1>2, <1>3, TableAfter DEF TableType
  <2>2. k \in Int
    BY ValsAre
  <2> QED
    BY <1>1, <1>2, <2>1, <2>2 DEF TableType
<1>5. at.step # "outside" => holder # t /\ holder \in Threads
  BY <1>1, <1>2 DEF InGuard
<1>6. InGuard'
  <2>1. ASSUME NEW u \in Threads
        PROVE  IF op'[u] = "none" THEN key'[u] = 0 ELSE key'[u] \in Keys
    BY <1>1, <1>2 DEF TableType, InGuard
  <2>2. at.step # "outside" => op'[holder] = op[holder]
    BY <1>1, <1>2, <1>5 DEF TableType
  <2> QED
    BY <1>1, <1>2, <1>3, <2>1, <2>2 DEF InGuard
<1>7. Probing'
  <2>1. at.step \in {"insert", "erase"} => key'[holder] = key[holder]
    BY <1>1, <1>2, <1>5 DEF TableType
  <2> QED
    BY <1>1, <1>2, <1>3, <2>1, TableAfter DEF Probing
<1> QED
  BY <1>1, <1>4, <1>6, <1>7, AsideKeeps

-----------------------------------------------------------------------------
(* The expansion: a new table, *)
LEMMA ExpandKeeps ==
  ASSUME TableInv, NEW t \in Threads, Table!Expand(t)
  PROVE  TableInv' /\ Still
<1> SUFFICES ASSUME NEW c, c = 4 * Table!getAccurateSize, NEW f, f = Table!NewTable(c)
             PROVE  TableInv' /\ Still
  OBVIOUS
<1>1. /\ holder = t /\ at.step = "insert" /\ data' = f /\ old' = data /\ holder' = holder
      /\ at' = [step |-> "move", i |-> 0]
      /\ op' = op /\ key' = key /\ result' = result /\ seen' = seen
      /\ approxInserts' = approxInserts /\ approxDeletes' = approxDeletes
  BY DEF Table!Expand, Table!opVars, Table!counters
<1>2. TableType /\ InGuard /\ Distinct /\ Counted /\ Cap \in Nat
  BY DEF TableInv, TableType, TypedTable
<1>3. Stored = InTable
  BY <1>1 DEF Stored
<1>4. c \in Nat /\ 4 * Cardinality(InTable) <= c
  <2>1. Cardinality(InTable) \in Nat
    BY StoredKeys, KeysFinite
  <2>2. Table!getAccurateSize \in Int
    BY <1>2, AccurateIs DEF Table!getAccurateSize, TableType
  <2> QED
    BY <1>2, <1>3, <2>1, <2>2 DEF Counted
<1>5. /\ TypedTable(f, c) /\ DOMAIN f = 0 .. c - 1 /\ KeysIn(f, 0 .. c - 1) = {}
      /\ DistinctIn(f, c) /\ PlacedIn(f, c) /\ \A b \in 0 .. c - 1 : f[b] # Table!TOMBSTONE
  BY <1>4, NewTableIs
<1>6. Cap' = c /\ OldCap' = Cap
  <2>1. Table!Capacity(f) = c
    BY <1>4, <1>5, CapacityIs
  <2> QED
    BY <1>1, <2>1, CapAfter DEF Cap
<1>7. TableType'
  <2>1. TypedTable(data, Cap)' /\ TypedTable(old, OldCap)'
    BY <1>1, <1>2, <1>5, <1>6, TableAfter DEF TableType
  <2> QED
    BY <1>1, <1>2, <2>1 DEF TableType, Steps
<1>8. Distinct' /\ Placed'
  BY <1>1, <1>5, <1>6, TableAfter
<1>9. InGuard'
  BY <1>1, <1>2, <1>6 DEF InGuard
<1>10. Probing'
  <2>1. at'.step \notin {"insert", "erase"}
    BY <1>1
  <2> QED
    BY <2>1, TableAfter
<1>11. InTable' = {} /\ ToMove' = InTable /\ at'.i = 0 /\ at'.step = "move"
  BY <1>1, <1>5, <1>6, TableAfter DEF InTable
<1>12. Moving'
  <2>1. \A a, b \in 0 .. Cap - 1 : data[a] \in Keys /\ data[a] = data[b] => a = b
    BY <1>2 DEF Distinct, DistinctIn
  <2>2. 4 * Cardinality(InTable' \cup ToMove') <= Cap'
    BY <1>4, <1>6, <1>11
  <2>3. \A b \in 0 .. Cap' - 1 : data'[b] # Table!TOMBSTONE
    BY <1>1, <1>5, <1>6
  <2> QED
    BY <1>1, <1>6, <1>11, <2>1, <2>2, <2>3, CardinalityAfter DEF Moving, Table!TOMBSTONE
<1>13. Stored' = Stored
  BY <1>3, <1>11 DEF Stored
<1>14. Counted'
  BY <1>1, <1>2, <1>13, CardinalityAfter, SizeAfter DEF Counted, Table!getAccurateSize
<1>15. Table!Elements' = Table!Elements
  BY <1>2, <1>7, <1>13, ElementsAre, ElementsAfter
<1> QED
  BY <1>1, <1>7, <1>8, <1>9, <1>10, <1>12, <1>14, <1>15 DEF TableInv, Still

(* to which the keys are moved, one by one: those from bucket i on are the *)
(* one there, if there is one, and those after it. *)
LEMMA ToMoveNext ==
  ASSUME NEW i \in Nat, NEW c \in Nat, i < c, NEW f
  PROVE  KeysIn(f, i .. c - 1) = ({f[i]} \cap Keys) \cup KeysIn(f, i + 1 .. c - 1)
<1>1. i .. c - 1 = {i} \cup (i + 1 .. c - 1)
  OBVIOUS
<1> QED
  BY <1>1, Zenon DEF KeysIn

(* The bucket where a key goes. *)
LEMMA FirstFreeIs ==
  ASSUME TypedTable(data, Cap), NEW k \in Keys, k \notin InTable, Table!Free(k) # {}
  PROVE  \E n : FreeAt(data, Cap, k, n) /\ Table!FirstFree(k) = Spot(Hash[k], n, Cap)
<1>1. DOMAIN data = 0 .. Cap - 1 /\ Cap \in Nat
  BY DEF TypedTable
<1>2. Table!Free(k) = {n \in 0 .. Cap - 1 : data[Spot(Hash[k], n, Cap)] \in {k, Table!EMPTY}}
  BY <1>1, SlotIs DEF Table!Free
<1>3. Table!Free(k) \in SUBSET Nat
  BY <1>2
<1>4. \E n \in Table!Free(k) : \A m \in Table!Free(k) : n <= m
  BY <1>3, LeastOf
<1> DEFINE n == CHOOSE n \in Table!Free(k) : \A m \in Table!Free(k) : n <= m
<1>5. n \in Table!Free(k) /\ \A m \in Table!Free(k) : n <= m
  BY <1>4
<1>6. Table!FirstFree(k) = Spot(Hash[k], n, Cap)
  BY SlotIs DEF Table!FirstFree
<1> HIDE DEF n
<1>7. n \in 0 .. Cap - 1 /\ data[Spot(Hash[k], n, Cap)] \in {k, Table!EMPTY}
  BY <1>2, <1>5
<1>8. data[Spot(Hash[k], n, Cap)] # k
  <2>1. Spot(Hash[k], n, Cap) \in 0 .. Cap - 1
    <3>1. Cap \in Nat \ {0} /\ n \in Nat /\ Hash[k] \in 0 .. Word - 1
      BY <1>1, <1>7, ValsAre
    <3> QED
      BY <3>1, SpotType
  <2> QED
    BY <2>1 DEF InTable, KeysIn
<1>9. ASSUME NEW m \in 0 .. n - 1 PROVE data[Spot(Hash[k], m, Cap)] # Table!EMPTY
  <2>1. m \in 0 .. Cap - 1 /\ m < n
    BY <1>1, <1>7
  <2>2. m \notin Table!Free(k)
    BY <1>5, <1>7, <2>1
  <2> QED
    BY <1>2, <2>1, <2>2
<1>10. FreeAt(data, Cap, k, n)
  BY <1>7, <1>8, <1>9 DEF FreeAt, InTable
<1> QED
  BY <1>6, <1>10

LEMMA MoveKeeps ==
  ASSUME TableInv, NEW t \in Threads, Table!Move(t)
  PROVE  TableInv' /\ Still
<1> SUFFICES ASSUME NEW i, i = at.i, NEW k, k = old[i],
                    NEW Rest, Rest = KeysIn(old, i + 1 .. OldCap - 1)
             PROVE  TableInv' /\ Still
  OBVIOUS
<1>1. /\ holder = t /\ at.step = "move" /\ i < OldCap /\ old' = old /\ holder' = holder
      /\ at' = [at EXCEPT !.i = @ + 1] /\ approxDeletes' = approxDeletes
      /\ op' = op /\ key' = key /\ result' = result /\ seen' = seen
      /\ \/ k \notin Keys /\ data' = data /\ approxInserts' = approxInserts
         \/ /\ k \in Keys /\ Table!Free(k) # {}
            /\ data' = [data EXCEPT ![Table!FirstFree(k)] = k]
            /\ approxInserts' = Table!inc(approxInserts, t)
  BY DEF Table!Move, Table!NextProbe, Table!opVars, Table!counters, OldCap
<1>2. /\ TableType /\ InGuard /\ Distinct /\ Placed /\ Moving /\ Counted
      /\ Cap \in Nat /\ OldCap \in Nat /\ i \in Nat
  BY DEF TableInv, TableType, TypedTable
<1>3. at'.i = i + 1 /\ at'.step = "move" /\ at' \in [step : Steps, i : Nat]
  BY <1>1, <1>2 DEF TableType, Steps
<1>4. /\ \A a, b \in i .. OldCap - 1 : old[a] \in Keys /\ old[a] = old[b] => a = b
      /\ InTable \cap ToMove = {}
      /\ \A b \in 0 .. Cap - 1 : data[b] # Table!TOMBSTONE
      /\ 4 * Cardinality(InTable \cup ToMove) <= Cap
      /\ Stored = InTable \cup ToMove
  BY <1>1, <1>2 DEF Moving, Stored
<1>5. ToMove = ({k} \cap Keys) \cup Rest
  BY <1>1, <1>2, ToMoveNext DEF ToMove
<1>6. k \in Keys => k \notin Rest
  <2> SUFFICES ASSUME k \in Keys, NEW b \in i + 1 .. OldCap - 1, old[b] = k PROVE FALSE
    BY DEF KeysIn
  <2>1. i \in i .. OldCap - 1 /\ b \in i .. OldCap - 1 /\ i # b
    BY <1>1, <1>2
  <2> QED
    BY <1>4, <2>1
<1>7. OldCap' = OldCap
  BY <1>1, CapAfter DEF OldCap
<1>8. ToMove' = Rest
  BY <1>1, <1>3, <1>7, TableAfter
<1>9. /\ Cap' = Cap /\ Good(data', Cap)
      /\ InTable' = InTable \cup ({k} \cap Keys)
      /\ \A b \in 0 .. Cap - 1 : data'[b] # Table!TOMBSTONE
      /\ approxInserts' \in Counter
      /\ Table!getAccurate(approxInserts') >= Table!getAccurate(approxInserts)
      /\ Table!getAccurate(approxInserts') \in Int
  <2>1. Table!getAccurate(approxInserts) \in Int
    BY <1>2, AccurateIs DEF TableType
  <2>2. CASE k \notin Keys /\ data' = data /\ approxInserts' = approxInserts
    <3>1. Cap' = Cap /\ InTable' = InTable
      BY <1>1, <2>2, SameTables
    <3>2. Good(data', Cap)
      BY <1>2, <2>2 DEF Good, TableType, Distinct, Placed
    <3> QED
      BY <1>2, <1>4, <2>1, <2>2, <3>1, <3>2 DEF TableType
  <2>3. CASE /\ k \in Keys /\ Table!Free(k) # {}
             /\ data' = [data EXCEPT ![Table!FirstFree(k)] = k]
             /\ approxInserts' = Table!inc(approxInserts, t)
    <3>1. k \notin InTable /\ TypedTable(data, Cap) /\ Good(data, Cap)
      BY <1>2, <1>4, <1>5, <2>3 DEF Good, TableType, Distinct, Placed
    <3>2. PICK n : FreeAt(data, Cap, k, n) /\ Table!FirstFree(k) = Spot(Hash[k], n, Cap)
      BY <2>3, <3>1, FirstFreeIs
    <3> SUFFICES ASSUME NEW g, g = [data EXCEPT ![Spot(Hash[k], n, Cap)] = k],
                        NEW e, e = Table!inc(approxInserts, t)
                 PROVE  /\ Cap' = Cap /\ Good(g, Cap)
                        /\ InTable' = InTable \cup {k}
                        /\ \A b \in 0 .. Cap - 1 : g[b] # Table!TOMBSTONE
                        /\ e \in Counter
                        /\ Table!getAccurate(e) >= Table!getAccurate(approxInserts)
                        /\ Table!getAccurate(e) \in Int
      BY <2>3, <3>2
    <3>3. FillIs(data, Cap, k, n)
      BY <2>3, <3>1, <3>2, FillKeeps
    <3>4. /\ Good(g, Cap) /\ KeysIn(g, 0 .. Cap - 1) = InTable \cup {k}
          /\ \A b \in 0 .. Cap - 1 : g[b] = Table!TOMBSTONE => data[b] = Table!TOMBSTONE
      BY <3>3 DEF FillIs, InTable
    <3>5. data' = g
      BY <2>3, <3>2
    <3>6. Cap' = Cap
      <4>1. DOMAIN g = 0 .. Cap - 1
        BY <3>4 DEF Good, TypedTable
      <4>2. Table!Capacity(g) = Cap
        BY <1>2, <4>1, CapacityIs
      <4> QED
        BY <3>5, <4>2, CapAfter
    <3>7. InTable' = InTable \cup {k}
      BY <3>4, <3>5, <3>6, TableAfter
    <3>8. e \in Counter /\ Table!getAccurate(e) = Table!getAccurate(approxInserts) + 1
      BY <1>2, IncAdds DEF TableType
    <3> QED
      BY <1>4, <2>1, <3>4, <3>6, <3>7, <3>8
  <2> QED
    BY <1>1, <2>2, <2>3
<1>10. /\ InTable' \cup ToMove' = InTable \cup ToMove /\ InTable' \cap ToMove' = {}
  BY <1>4, <1>5, <1>6, <1>8, <1>9
<1>11. TableType'
  <2>1. TypedTable(data, Cap)' /\ TypedTable(old, OldCap)'
    BY <1>1, <1>2, <1>7, <1>9, TableAfter DEF TableType, Good
  <2> QED
    BY <1>1, <1>2, <1>3, <1>9, <2>1 DEF TableType
<1>12. Distinct' /\ Placed'
  BY <1>9, TableAfter DEF Good
<1>13. InGuard'
  BY <1>1, <1>2, <1>3, <1>7 DEF InGuard
<1>14. Probing'
  BY <1>3, TableAfter
<1>15. Moving'
  <2>1. \A a, b \in i + 1 .. OldCap - 1 : old[a] \in Keys /\ old[a] = old[b] => a = b
    <3>1. \A a \in i + 1 .. OldCap - 1 : a \in i .. OldCap - 1
      BY <1>2
    <3> QED
      BY <1>4, <3>1
  <2>2. 4 * Cardinality(InTable' \cup ToMove') <= Cap'
    BY <1>4, <1>9, <1>10
  <2>3. \A b \in 0 .. Cap' - 1 : data'[b] # Table!TOMBSTONE
    BY <1>9
  <2> QED
    BY <1>1, <1>3, <1>7, <1>10, <2>1, <2>2, <2>3, CardinalityAfter DEF Moving, Table!TOMBSTONE
<1>16. Stored' = Stored
  BY <1>3, <1>4, <1>10 DEF Stored
<1>17. Counted'
  <2>1. /\ Cardinality(Stored) <= Table!getAccurate(approxInserts) - Table!getAccurate(approxDeletes)
        /\ Table!getAccurate(approxInserts) \in Int /\ Table!getAccurate(approxDeletes) \in Int
    BY <1>2, AccurateIs DEF TableType, Counted, Table!getAccurateSize
  <2>2. Cardinality(Stored) \in Nat
    BY StoredKeys, KeysFinite
  <2>3. Cardinality(Stored) <= Table!getAccurate(approxInserts') - Table!getAccurate(approxDeletes)
    BY <1>9, <2>1, <2>2
  <2> QED
    BY <1>1, <1>16, <2>3, CardinalityAfter, SizeAfter DEF Counted
<1>18. Table!Elements' = Table!Elements
  BY <1>2, <1>11, <1>16, ElementsAre, ElementsAfter
<1> QED
  BY <1>1, <1>11, <1>12, <1>13, <1>14, <1>15, <1>17, <1>18 DEF TableInv, Still

(* and the insert starts again. *)
LEMMA EndExpandKeeps ==
  ASSUME TableInv, NEW t \in Threads, Table!EndExpand(t)
  PROVE  TableInv' /\ Still
<1> SUFFICES ASSUME NEW z, z = Table!getAccurateSize,
                    NEW e, e = [Table!Zero EXCEPT !.global = z]
             PROVE  TableInv' /\ Still
  OBVIOUS
<1>1. /\ holder = t /\ at.step = "move" /\ at.i = OldCap
      /\ data' = data /\ old' = old /\ holder' = holder
      /\ at' = [step |-> "insert", i |-> 0]
      /\ op' = op /\ key' = key /\ result' = result /\ seen' = seen
      /\ approxInserts' = e /\ approxDeletes' = Table!Zero
  BY DEF Table!EndExpand, Table!opVars, OldCap
<1>2. TableType /\ InGuard /\ Distinct /\ Placed /\ Counted /\ Cap \in Nat /\ OldCap \in Nat
  BY DEF TableInv, TableType, TypedTable
<1>3. Cap' = Cap /\ OldCap' = OldCap /\ InTable' = InTable
  BY <1>1, SameTables
<1>4. z \in Int
  <2>1. Table!getAccurate(approxInserts) \in Int /\ Table!getAccurate(approxDeletes) \in Int
    BY <1>2, AccurateIs DEF TableType
  <2> QED
    BY <2>1 DEF Table!getAccurateSize
<1>5. e \in Counter /\ Table!getAccurate(e) = z /\ Table!Zero \in Counter
      /\ Table!getAccurate(Table!Zero) = 0
  BY <1>4, ZeroCounter, ZeroIs
<1>6. TableType'
  <2>1. TypedTable(data, Cap)' /\ TypedTable(old, OldCap)'
    BY <1>1, <1>2, <1>3, TableAfter DEF TableType
  <2>2. approxInserts' \in Counter /\ approxDeletes' \in Counter
    BY <1>1, <1>5
  <2>3. at' \in [step : Steps, i : Nat]
    BY <1>1 DEF Steps
  <2>4. TableType' <=> /\ TypedTable(data, Cap)' /\ TypedTable(old, OldCap)'
                       /\ approxInserts' \in Counter /\ approxDeletes' \in Counter
                       /\ at' \in [step : Steps, i : Nat]
                       /\ op' \in [Threads -> {"none", "insert", "erase"}] /\ key' \in [Threads -> Int]
    BY DEF TableType, Counter, Steps
  <2> QED
    BY <1>1, <1>2, <2>1, <2>2, <2>3, <2>4 DEF TableType
<1>7. Distinct' /\ Placed'
  BY <1>1, <1>2, <1>3, TableAfter DEF Distinct, Placed
<1>8. InGuard'
  BY <1>1, <1>2, <1>3 DEF InGuard
<1>9. Probing'
  <2>1. at'.i = 0
    BY <1>1
  <2> QED
    BY <2>1, TableAfter
<1>10. Moving'
  <2>1. at'.step # "move"
    BY <1>1
  <2> QED
    BY <2>1 DEF Moving
<1>11. Stored' = Stored
  <2>1. ToMove = {}
    <3>1. at.i .. OldCap - 1 = {}
      BY <1>1, <1>2
    <3> QED
      BY <3>1 DEF ToMove, KeysIn
  <2>2. at'.step = "insert"
    BY <1>1
  <2> QED
    BY <1>3, <2>1, <2>2 DEF Stored
<1>12. Counted'
  <2>1. Table!getAccurateSize' = z
    <3>1. Table!getAccurate(approxInserts') = z /\ Table!getAccurate(approxDeletes') = 0
      BY <1>1, <1>5
    <3> QED
      BY <1>4, <3>1, SizeAfter
  <2> QED
    BY <1>2, <1>11, <2>1, CardinalityAfter DEF Counted
<1>13. Table!Elements' = Table!Elements
  BY <1>2, <1>6, <1>11, ElementsAre, ElementsAfter
<1> QED
  BY <1>1, <1>6, <1>7, <1>8, <1>9, <1>10, <1>12, <1>13 DEF TableInv, Still

-----------------------------------------------------------------------------
(* Every step of the table. *)
LEMMA TableSame == ASSUME TableInv, UNCHANGED Table!vars PROVE TableInv' /\ Still
<1>1. /\ data' = data /\ old' = old /\ holder' = holder /\ at' = at
      /\ op' = op /\ key' = key /\ result' = result /\ seen' = seen
      /\ approxInserts' = approxInserts /\ approxDeletes' = approxDeletes
  BY DEF Table!vars, Table!counters
<1>2. TableType /\ InGuard /\ Probing
  BY DEF TableInv
<1>3. Cap' = Cap /\ OldCap' = OldCap
  BY <1>1, SameTables
<1>4. TableType'
  <2>1. TypedTable(data, Cap)' /\ TypedTable(old, OldCap)'
    BY <1>1, <1>2, <1>3, TableAfter DEF TableType
  <2> QED
    BY <1>1, <1>2, <2>1 DEF TableType
<1>5. InGuard' /\ Probing'
  BY <1>1, <1>2, <1>3, TableAfter DEF InGuard, Probing
<1>6. TableInv' /\ Table!Elements' = Table!Elements
  BY <1>1, <1>4, <1>5, AsideKeeps
<1> QED
  BY <1>1, <1>6 DEF Still

LEMMA TableStep ==
  ASSUME TableInv, Table!Next
  PROVE  /\ TableInv'
         /\ \/ Still
            \/ \E t \in Threads : Progress(t)
            \/ \E t \in Threads, o \in {"insert", "erase"}, k \in Keys :
                 Table!Call(t, o, k) /\ Table!Elements' = Table!Elements
<1>1. CASE Table!Finished
  BY <1>1, TableSame DEF Table!Finished
<1>2. CASE \E t \in Threads :
             \/ \E o \in {"insert", "erase"}, k \in Keys : Table!Call(t, o, k)
             \/ Table!EnterGuard(t) \/ Table!InsertProbe(t) \/ Table!InsertOverrun(t)
             \/ Table!ErasedProbe(t) \/ Table!EraseOverrun(t)
             \/ Table!Expand(t) \/ Table!Move(t) \/ Table!EndExpand(t)
  <2> PICK t \in Threads :
             \/ \E o \in {"insert", "erase"}, k \in Keys : Table!Call(t, o, k)
             \/ Table!EnterGuard(t) \/ Table!InsertProbe(t) \/ Table!InsertOverrun(t)
             \/ Table!ErasedProbe(t) \/ Table!EraseOverrun(t)
             \/ Table!Expand(t) \/ Table!Move(t) \/ Table!EndExpand(t)
    BY <1>2
  <2>1. CASE \E o \in {"insert", "erase"}, k \in Keys : Table!Call(t, o, k)
    BY <2>1, CallInTableKeeps
  <2>2. CASE Table!EnterGuard(t)
    BY <2>2, EnterKeeps
  <2>3. CASE Table!InsertProbe(t)
    BY <2>3, InsertProbeKeeps
  <2>4. CASE Table!InsertOverrun(t)
    <3>1. /\ data' = data /\ old' = old /\ holder' = holder /\ at' = at
          /\ op' = op /\ key' = key /\ result' = result /\ seen' = seen
          /\ approxInserts' = approxInserts /\ approxDeletes' = approxDeletes
      BY <2>4 DEF Table!InsertOverrun, Table!Fails, Table!opVars, Table!counters
    <3>2. TableType /\ InGuard /\ Probing /\ Cap' = Cap /\ OldCap' = OldCap
      BY <3>1, SameTables DEF TableInv
    <3>3. TableType'
      <4>1. TypedTable(data, Cap)' /\ TypedTable(old, OldCap)'
        BY <3>1, <3>2, TableAfter DEF TableType
      <4> QED
        BY <3>1, <3>2, <4>1 DEF TableType
    <3>4. InGuard' /\ Probing'
      BY <3>1, <3>2, TableAfter DEF InGuard, Probing
    <3>5. TableInv' /\ Table!Elements' = Table!Elements
      BY <3>1, <3>3, <3>4, AsideKeeps
    <3> QED
      BY <3>1, <3>5 DEF Still
  <2>5. CASE Table!ErasedProbe(t)
    BY <2>5, ErasedProbeKeeps
  <2>6. CASE Table!EraseOverrun(t)
    BY <2>6, EraseOverrunKeeps
  <2>7. CASE Table!Expand(t)
    BY <2>7, ExpandKeeps
  <2>8. CASE Table!Move(t)
    BY <2>8, MoveKeeps
  <2>9. CASE Table!EndExpand(t)
    BY <2>9, EndExpandKeeps
  <2> QED
    BY <2>1, <2>2, <2>3, <2>4, <2>5, <2>6, <2>7, <2>8, <2>9
<1> QED
  BY <1>1, <1>2, Zenon DEF Table!Next

-----------------------------------------------------------------------------
(* The runs of MC_Elided.  For the abstract set, a thread in an operation  *)
(* has seen what the table holds now. *)
Witnessed ==
  DOMAIN seen = Threads /\ \A t \in Threads : op[t] # "none" => Table!Elements \in seen[t]

(* A run of the tree leaves the table as it was made. *)
Untouched ==
  /\ data = Table!NewTable(InitCap) /\ old = Table!NewTable(0) /\ at = Table!Outside
  /\ approxInserts = Table!Zero /\ approxDeletes = Table!Zero

RunInv ==
  \/ structure = "table" /\ TableInv /\ Witnessed
  \/ structure = "tree" /\ Untouched

LEMMA CallIdle ==
  ASSUME TableInv, NEW t \in Threads
  PROVE  (AbsCall[t] = Abstract!Idle) <=> (op[t] = "none")
<1>1. op[t] = "none" => key[t] = 0
  BY DEF TableInv, InGuard
<1> QED
  BY <1>1 DEF AbsCall, Abstract!Idle

(* A step that is nothing for the table is nothing for the abstract set, *)
LEMMA StillIs ==
  ASSUME structure = "table", structure' = structure, Witnessed, Still
  PROVE  Witnessed' /\ UNCHANGED Abstract!setVars
<1>1. op' = op /\ key' = key /\ seen' = seen /\ result' = result
      /\ Table!Elements' = Table!Elements
  BY DEF Still
<1>2. Witnessed'
  BY <1>1 DEF Witnessed
<1>3. AbsCall' = AbsCall
  BY <1>1 DEF AbsCall
<1>4. Contents' = Contents
  BY <1>1 DEF Contents
<1> QED
  BY <1>1, <1>2, <1>3, <1>4, Zenon DEF Abstract!setVars, AbsCall

(* an answer is one of its answers, *)
LEMMA AnswerIs ==
  ASSUME structure = "table", structure' = structure, TableInv, Witnessed,
         NEW t \in Threads, NEW r, NEW S, Answers(t, r, S), Justified(t, r, S)
  PROVE  Witnessed' /\ Abstract!SetStep(t)
<1> SUFFICES ASSUME NEW E, E = Table!Elements
             PROVE  Witnessed' /\ Abstract!SetStep(t)
  OBVIOUS
<1>1. /\ Table!Elements' = S
      /\ op' = [op EXCEPT ![t] = "none"] /\ key' = [key EXCEPT ![t] = 0]
      /\ result' = [result EXCEPT ![t] = r]
      /\ seen' = [u \in Threads |-> IF u = t \/ op[u] = "none" THEN {} ELSE seen[u] \cup {S}]
  BY DEF Answers
<1>2. /\ op \in [Threads -> {"none", "insert", "erase"}] /\ key \in [Threads -> Int]
  BY DEF TableInv, TableType
<1>3. Contents = E /\ Contents' = S
  BY <1>1 DEF Contents
<1>4. AbsCall' = [AbsCall EXCEPT ![t] = Abstract!Idle]
  BY <1>1, <1>2 DEF AbsCall, Abstract!Idle
<1>5. seen' = [u \in Threads |-> IF u = t \/ AbsCall[u] = Abstract!Idle
                                 THEN {} ELSE seen[u] \cup {S}]
  BY <1>1, CallIdle
<1>6. op[t] # "none" => E \in seen[t]
  BY DEF Witnessed
<1>7. Explains(t, r, E, S)
  BY <1>6 DEF Justified, Explains
<1>8. Abstract!SetStep(t)
  BY <1>1, <1>3, <1>4, <1>5, <1>7, SetAnswer
<1>9. Witnessed'
  BY <1>1, <1>2 DEF Witnessed
<1> QED
  BY <1>8, <1>9

(* and a call is a call. *)
LEMMA CallIs ==
  ASSUME structure = "table", structure' = structure, TableInv, Witnessed,
         NEW t \in Threads, NEW o \in {"insert", "erase"}, NEW k \in Keys,
         Table!Call(t, o, k), Table!Elements' = Table!Elements
  PROVE  Witnessed' /\ Abstract!SetStep(t)
<1>1. /\ op[t] = "none" /\ op' = [op EXCEPT ![t] = o] /\ key' = [key EXCEPT ![t] = k]
      /\ seen' = [seen EXCEPT ![t] = {Table!Elements}] /\ result' = result
  BY DEF Table!Call
<1>2. /\ op \in [Threads -> {"none", "insert", "erase"}] /\ key \in [Threads -> Int]
  BY DEF TableInv, TableType
<1>3. Contents = Table!Elements /\ Contents' = Contents
  BY DEF Contents
<1>4. AbsCall[t] = Abstract!Idle
  BY <1>1, CallIdle
<1>5. AbsCall' = [AbsCall EXCEPT ![t] = [op |-> o, key |-> k]]
  BY <1>1, <1>2 DEF AbsCall
<1>6. seen' = [seen EXCEPT ![t] = {Contents}] /\ result' = result
  BY <1>1, <1>3
<1>7. Abstract!SetStep(t)
  <2>1. o \in {"insert", "erase", "contains"}
    OBVIOUS
  <2> QED
    BY <1>3, <1>4, <1>5, <1>6, <2>1, SetCall
<1>8. Witnessed'
  BY <1>1, <1>2 DEF Witnessed
<1> QED
  BY <1>7, <1>8

LEMMA TableRunStep ==
  ASSUME structure = "table", TableInv, Witnessed, [MCNext]_mcVars
  PROVE  /\ structure' = structure /\ TableInv' /\ Witnessed'
         /\ [Abstract!SetNext]_(Abstract!setVars)
<1>1. structure' = structure /\ (Table!Next \/ UNCHANGED Table!vars)
  BY Zenon DEF MCNext, mcVars, tableOnly, vars, Table!vars, Table!counters
<1>2. CASE UNCHANGED Table!vars
  BY <1>1, <1>2, TableSame, StillIs
<1>3. CASE Table!Next
  <2>1. /\ TableInv'
        /\ \/ Still
           \/ \E t \in Threads : Progress(t)
           \/ \E t \in Threads, o \in {"insert", "erase"}, k \in Keys :
                Table!Call(t, o, k) /\ Table!Elements' = Table!Elements
    BY <1>3, TableStep
  <2>2. CASE Still
    BY <1>1, <2>1, <2>2, StillIs
  <2>3. CASE \E t \in Threads : \E r, S : Answers(t, r, S) /\ Justified(t, r, S)
    <3>1. Witnessed' /\ \E t \in Threads : Abstract!SetStep(t)
      BY <1>1, <2>3, AnswerIs
    <3> QED
      BY <1>1, <2>1, <3>1, Zenon DEF Abstract!SetNext
  <2>4. CASE \E t \in Threads, o \in {"insert", "erase"}, k \in Keys :
               Table!Call(t, o, k) /\ Table!Elements' = Table!Elements
    <3>1. Witnessed' /\ \E t \in Threads : Abstract!SetStep(t)
      BY <1>1, <2>4, CallIs
    <3> QED
      BY <1>1, <2>1, <3>1, Zenon DEF Abstract!SetNext
  <2> QED
    BY <2>1, <2>2, <2>3, <2>4 DEF Progress
<1> QED
  BY <1>1, <1>2, <1>3

(* A run starts in the invariant, *)
LEMMA RunInit == MCInit => RunInv
<1> SUFFICES ASSUME MCInit PROVE RunInv
  OBVIOUS
<1>1. Table!Init /\ structure \in {"tree", "table"}
  BY DEF MCInit
<1>2. TableInv
  BY <1>1, TableInit
<1>3. Witnessed
  BY <1>1 DEF Witnessed, Table!Init
<1>4. Untouched
  BY <1>1 DEF Untouched, Table!Init
<1> QED
  BY <1>1, <1>2, <1>3, <1>4 DEF RunInv

(* and stays there. *)
LEMMA RunStep == RunInv /\ [MCNext]_mcVars => RunInv'
<1> SUFFICES ASSUME RunInv, [MCNext]_mcVars PROVE RunInv'
  OBVIOUS
<1>1. CASE structure = "table" /\ TableInv /\ Witnessed
  BY <1>1, TableRunStep DEF RunInv
<1>2. CASE structure = "tree" /\ Untouched
  <2>1. UNCHANGED <<tableOnly, structure>>
    BY <1>2, Zenon DEF MCNext, mcVars
  <2>2. Untouched'
    BY <1>2, <2>1 DEF Untouched, tableOnly, Table!NewTable, Table!Outside, Table!Zero, Table!EMPTY
  <2> QED
    BY <1>2, <2>1, <2>2 DEF RunInv
<1> QED
  BY <1>1, <1>2 DEF RunInv

LEMMA RunInvariant == MCSpec => []RunInv
<1>1. MCSpec => MCInit /\ [][MCNext]_mcVars
  BY PTL DEF MCSpec
<1> QED
  BY <1>1, RunInit, RunStep, PTL

(* So does the insert that asked for the expansion, in a table with any     *)
(* bucket: its key is there already; or the table has two buckets for that  *)
(* key and each of the others; or there is no other, and all are empty.     *)
LEMMA RetryRoom ==
  ASSUME TableInv, at.step = "move", Cap > 0
  PROVE  Table!Free(key[holder]) # {}
<1> SUFFICES ASSUME NEW k, k = key[holder] PROVE Table!Free(k) # {}
  OBVIOUS
<1> DEFINE S == InTable \cup ToMove
<1>1. /\ TypedTable(data, Cap) /\ DistinctIn(data, Cap) /\ PlacedIn(data, Cap)
      /\ Cap \in Nat \ {0} /\ DOMAIN data = 0 .. Cap - 1
  BY DEF TableInv, TableType, Distinct, Placed, TypedTable
<1>2. k \in Keys /\ Hash[k] \in 0 .. Word - 1
  <2>1. holder \in Threads /\ op[holder] = "insert"
    BY DEF TableInv, InGuard
  <2> QED
    BY <2>1, ValsAre DEF TableInv, InGuard
<1>3. /\ \A b \in 0 .. Cap - 1 : data[b] # Table!TOMBSTONE
      /\ 4 * Cardinality(S) <= Cap
  BY DEF TableInv, Moving
<1>4. S \in SUBSET Keys /\ IsFiniteSet(S) /\ Cardinality(S) \in Nat /\ InTable \subseteq S
  BY StoredKeys, KeysFinite
<1>5. ASSUME NEW n \in 0 .. Cap - 1, data[Spot(Hash[k], n, Cap)] \in {k, Table!EMPTY}
      PROVE  Table!Free(k) # {}
  BY <1>1, <1>5, SlotIs DEF Table!Free
<1> HIDE DEF S
<1>6. CASE k \in InTable
  <2>1. PICK b \in 0 .. Cap - 1 : data[b] = k
    BY <1>6 DEF InTable, KeysIn
  <2>2. PICK n \in 0 .. Cap - 1 : Spot(Hash[k], n, Cap) = b
    BY <1>1, <1>2, <2>1 DEF PlacedIn
  <2> QED
    BY <1>5, <2>1, <2>2
<1>7. CASE k \notin InTable /\ Cardinality(S) >= 1
  <2>1. IsFiniteSet(S \cup {k}) /\ Cardinality(S \cup {k}) <= Cardinality(S) + 1
        /\ Cardinality(S \cup {k}) \in Nat
    <3>1. /\ IsFiniteSet(S \cup {k})
          /\ \/ Cardinality(S \cup {k}) = Cardinality(S)
             \/ Cardinality(S \cup {k}) = Cardinality(S) + 1
      BY <1>4, FS_AddElement
    <3> QED
      BY <1>4, <3>1
  <2>2. 2 * Cardinality(S \cup {k}) <= Cap
    BY <1>1, <1>3, <1>4, <1>7, <2>1
  <2>3. S \cup {k} \in SUBSET Keys /\ InTable \subseteq S \cup {k}
    BY <1>2, <1>4
  <2>4. PICK n \in 0 .. Cap - 1 : data[Spot(Hash[k], n, Cap)] = Table!EMPTY
    <3> DEFINE T == S \cup {k}
    <3>1. /\ T \in SUBSET Keys /\ KeysIn(data, 0 .. Cap - 1) \subseteq T
          /\ k \in T /\ k \notin KeysIn(data, 0 .. Cap - 1)
          /\ 2 * Cardinality(T) <= Cap
      BY <1>7, <2>2, <2>3 DEF InTable
    <3> HIDE DEF T
    <3> QED
      BY <1>1, <1>3, <3>1, Room
  <2> QED
    BY <1>5, <2>4
<1>8. CASE Cardinality(S) = 0
  <2>1. InTable = {}
    BY <1>4, <1>8, FS_EmptySet
  <2>2. 0 \in 0 .. Cap - 1 /\ Spot(Hash[k], 0, Cap) \in 0 .. Cap - 1
    BY <1>1, <1>2, SpotType
  <2>3. data[Spot(Hash[k], 0, Cap)] \notin Keys
    BY <2>1, <2>2 DEF InTable, KeysIn
  <2>4. data[Spot(Hash[k], 0, Cap)] = Table!EMPTY
    BY <1>1, <1>3, <2>2, <2>3 DEF TypedTable, Vals
  <2> QED
    BY <1>5, <2>2, <2>4
<1>9. Cardinality(S) = 0 \/ Cardinality(S) >= 1
  BY <1>4
<1> QED
  BY <1>6, <1>7, <1>8, <1>9

LEMMA TableFitsNow == RunInv => TableFits
<1> SUFFICES ASSUME RunInv PROVE TableFits
  OBVIOUS
<1>1. CASE structure = "table" /\ TableInv /\ Witnessed
  <2>1. TableType /\ Counted
    BY <1>1 DEF TableInv
  <2>2. Table!Cardinality(Table!Elements) <= Table!getAccurateSize
    BY <2>1, ElementsAre, CardinalityIs DEF Counted
  <2>3. ASSUME at.step = "move", at.i < OldCap, NEW k, k = old[at.i], k \in Keys
        PROVE  Table!Free(k) # {}
    <3>1. PICK n \in 0 .. Cap - 1 : data[Spot(Hash[k], n, Cap)] = Table!EMPTY
      BY <1>1, <2>3, MoveFits
    <3>2. n \in DOMAIN data /\ Table!Slot(k, n, data) = Spot(Hash[k], n, Cap)
      BY <2>1, SlotIs DEF TableType, TypedTable
    <3> QED
      BY <3>1, <3>2 DEF Table!Free
  <2>4. at.step = "move" /\ Cap > 0 => Table!Free(key[holder]) # {}
    BY <1>1, RetryRoom
  <2> QED
    BY <2>2, <2>3, <2>4
       DEF TableFits, Table!TableFits, Table!CountersCover, Table!MovesFit, Table!RetryFits,
           Cap, OldCap
<1>2. CASE structure = "tree" /\ Untouched
  <2>1. at.step # "move"
    BY <1>2 DEF Untouched, Table!Outside
  <2>2. TypedTable(data, InitCap) /\ KeysIn(data, 0 .. InitCap - 1) = {}
    BY <1>2, TableAssumption, NewTableIs DEF Untouched
  <2>3. Table!Elements = {}
    <3>1. Table!Live(data, DOMAIN data) = {}
      BY <2>2, LiveIs DEF TypedTable
    <3> QED
      BY <2>1, <3>1 DEF Table!Elements
  <2>4. Table!getAccurateSize = 0
    BY <1>2, ZeroIs DEF Table!getAccurateSize, Untouched
  <2>5. Table!Cardinality(Table!Elements) = 0
    BY <2>3, CardinalityIs, FS_EmptySet
  <2> QED
    BY <2>1, <2>4, <2>5
       DEF TableFits, Table!TableFits, Table!CountersCover, Table!MovesFit, Table!RetryFits
<1> QED
  BY <1>1, <1>2 DEF RunInv

(* An expansion of the hash table finds room for every key it moves         *)
(* (hash/hashtable.h:82): the counters never say that there are fewer keys  *)
(* than there are, the new table has four buckets for each, and the probes  *)
(* of a key, although h + i wraps around, come to more different buckets    *)
(* than there are keys.  There is room too for the insert that asked for    *)
(* the expansion, but only in a table that has buckets at all: when the     *)
(* counters say zero it has none, and the insert comes to assert(false).    *)
THEOREM ExpansionFits == MCSpec => []TableFits
BY RunInvariant, TableFitsNow, PTL

(* The hash table under lock elision (hash/hashtable.h) is a linearizable   *)
(* set through every expansion, for any threads, keys, hash function and    *)
(* initial capacity.                                                        *)
THEOREM TableImplementsSet == MCSpec /\ structure = "table" => ImplementsSet
<1> DEFINE InUse == structure = "table" /\ TableInv /\ Witnessed
<1>1. MCInit /\ structure = "table" => InUse /\ Abstract!FilledInit
  <2> SUFFICES ASSUME MCInit, structure = "table" PROVE InUse /\ Abstract!FilledInit
    OBVIOUS
  <2>1. Table!Init
    BY DEF MCInit
  <2>2. InUse
    BY RunInit DEF RunInv
  <2>3. Contents = {}
    BY <2>1, TableInit DEF Contents
  <2>4. AbsCall = [t \in Threads |-> Abstract!Idle]
    BY <2>1 DEF AbsCall, Table!Init, Abstract!Idle
  <2>5. seen = [t \in Threads |-> {}] /\ result = [t \in Threads |-> FALSE]
    BY <2>1 DEF Table!Init
  <2>6. Contents \in SUBSET Keys
    BY <2>3
  <2>7. Abstract!FilledInit
    BY <2>4, <2>5, <2>6, Zenon DEF Abstract!FilledInit, AbsCall
  <2> QED
    BY <2>2, <2>7
<1>2. InUse /\ [MCNext]_mcVars => InUse' /\ [Abstract!SetNext]_(Abstract!setVars)
  BY TableRunStep
<1>3. MCSpec => MCInit /\ [][MCNext]_mcVars
  BY PTL DEF MCSpec
<1>4. ImplementsSet <=> Abstract!FilledInit /\ [][Abstract!SetNext]_(Abstract!setVars)
  BY DEF ImplementsSet, Abstract!FilledSpec
<1> QED
  <2> HIDE DEF InUse
  <2> QED
    BY <1>1, <1>2, <1>3, <1>4, PTL
=============================================================================
