----------------------------- MODULE ElidedTree -----------------------------
(***************************************************************************)
(* The external binary search tree of assignment-7 (tree/tree.h): the      *)
(* sequential code runs as a hardware transaction that reads the lock      *)
(* gLock first, or, after MAX_RETRIES failed transactions, under gLock.    *)
(*                                                                         *)
(* A transaction fails at once when another thread writes a node it has    *)
(* read, or gLock; it may also fail for no reason.  Its own writes become  *)
(* visible all together at _xend.  Erased nodes are freed and their memory *)
(* is used again.                                                          *)
(***************************************************************************)
EXTENDS Integers

CONSTANTS Threads,         \* the threads that use the tree
          minKey, maxKey,  \* the range of the keys
          MAX_RETRIES,     \* transactions that fail before the lock is taken
          Nodes,           \* the addresses of nodes, a bound on the memory
          NULL,            \* no node
          root, low, high, \* the three nodes of the constructor
          gLock            \* the address of the lock

ASSUME TreeAssumption ==
  /\ minKey \in Int /\ maxKey \in Int /\ MAX_RETRIES \in Nat
  /\ {root, low, high} \subseteq Nodes /\ NULL \notin Nodes /\ gLock \notin Nodes
  /\ root # low /\ root # high /\ low # high

Keys == minKey .. maxKey

VARIABLES heap,        \* the fields of each node
          used,        \* the nodes that are allocated
          held,        \* gLock->isHeld()
          pc,          \* where each thread is
          op, key,     \* the operation it executes, and on which key
          loc,         \* the SearchRecord
          reads,       \* what its transaction has read
          retriesLeft, \* how often it may still fail before it takes the lock
          left,        \* the operations it may still make
          result,      \* what its last operation returned
          seen         \* history: the keys in the tree since the call

vars == <<heap, used, held, pc, op, key, loc, reads, retriesLeft, left,
          result, seen>>

createInternal(k, l, r) == [key |-> k, left |-> l, right |-> r]
createLeaf(k) == createInternal(k, NULL, NULL)

isLeaf(n) == heap[n].left = NULL

(* The leaf a search for k ends at: the tree has two sentinel leaves and   *)
(* one leaf for each key, so no path is longer than this.                  *)
LeafFor(h, k) ==
  LET at[d \in Nat] ==
        IF d = 0 THEN root
        ELSE LET n == at[d - 1]
             IN IF h[n].left = NULL THEN n
                ELSE IF k < h[n].key THEN h[n].left ELSE h[n].right
  IN at[maxKey - minKey + 2]

(* The keys in the tree, as getSumOfKeys finds them. *)
ElementsOf(h) == {k \in Keys : h[LeafFor(h, k)].key = k}
Elements == ElementsOf(heap)

NoLoc == [gp |-> NULL, p |-> NULL, n |-> root]

(* No operation is running. *)
Quiet ==
  /\ held = FALSE
  /\ pc = [t \in Threads |-> "idle"]
  /\ op = [t \in Threads |-> "none"]
  /\ key = [t \in Threads |-> 0]
  /\ loc = [t \in Threads |-> NoLoc]
  /\ reads = [t \in Threads |-> {}]
  /\ retriesLeft = [t \in Threads |-> 0]
  /\ left \in [Threads -> Nat]
  /\ result = [t \in Threads |-> FALSE]
  /\ seen = [t \in Threads |-> {}]

Init ==
  /\ heap = [n \in Nodes |-> IF n = root THEN createInternal(minKey - 1, low, high)
                             ELSE createLeaf(IF n = low THEN minKey - 1 ELSE maxKey + 1)]
  /\ used = {root, low, high}
  /\ Quiet

-----------------------------------------------------------------------------
(* The transactions of others that fail when thread t writes to W. *)
Killed(t, W) == {u \in Threads \ {t} : reads[u] \cap W # {}}

(* Thread t goes on at p, having read R in its transaction, and written W. *)
Goto(t, p, R, W) ==
  /\ pc' = [u \in Threads |-> IF u = t THEN p ELSE IF u \in Killed(t, W) THEN "wait" ELSE pc[u]]
  /\ reads' = [u \in Threads |-> IF u = t THEN R ELSE IF u \in Killed(t, W) THEN {} ELSE reads[u]]

(* contains, insertIfAbsent or erase *)
Call(t, o, k) ==
  /\ pc[t] = "idle" /\ left[t] > 0
  /\ left' = [left EXCEPT ![t] = @ - 1]
  /\ Goto(t, "begin", {}, {})
  /\ op' = [op EXCEPT ![t] = o]
  /\ key' = [key EXCEPT ![t] = k]
  /\ retriesLeft' = [retriesLeft EXCEPT ![t] = MAX_RETRIES]
  /\ seen' = [seen EXCEPT ![t] = {Elements}]
  /\ UNCHANGED <<heap, used, held, loc, result>>

opVars == <<op, key, retriesLeft, left, result, seen>>

(* Mutant of Begin: the transaction does not look at the lock. *)
BeginUnsubscribed(t) ==
  /\ pc[t] = "begin"
  /\ loc' = [loc EXCEPT ![t] = NoLoc]
  /\ Goto(t, "search", {}, {})
  /\ UNCHANGED <<heap, used, held, opVars>>

(* _xbegin, and the lock is the first thing the transaction reads. *)
Begin(t) ==
  /\ pc[t] = "begin"
  /\ loc' = [loc EXCEPT ![t] = NoLoc]
  /\ \/ ~ held /\ Goto(t, "search", {gLock}, {})
     \/ held /\ Goto(t, "wait", {}, {})
  /\ UNCHANGED <<heap, used, held, opVars>>

(* A transaction may fail at any time: capacity, an interrupt, a conflict  *)
(* the hardware sees where there is none.                                  *)
Abort(t) ==
  /\ pc[t] = "search"
  /\ Goto(t, "wait", {}, {})
  /\ UNCHANGED <<heap, used, held, loc, opVars>>

(* Mutant of Wait: failed transactions are not counted. *)
WaitUncounted(t) ==
  /\ pc[t] = "wait" /\ ~ held
  /\ Goto(t, "begin", {}, {})
  /\ UNCHANGED <<heap, used, held, loc, opVars>>

(* After a failure: wait for the lock to be free, then try again or go for *)
(* the lock.                                                               *)
Wait(t) ==
  /\ pc[t] = "wait" /\ ~ held
  /\ retriesLeft' = [retriesLeft EXCEPT ![t] = @ - 1]
  /\ Goto(t, IF retriesLeft[t] > 1 THEN "begin" ELSE "acquire", {}, {})
  /\ UNCHANGED <<heap, used, held, op, key, loc, left, result, seen>>

(* Mutant of Acquire: the lock is taken while another thread holds it. *)
AcquireTaken(t) ==
  /\ pc[t] = "acquire"
  /\ held' = TRUE
  /\ loc' = [loc EXCEPT ![t] = NoLoc]
  /\ Goto(t, "lockedSearch", {}, {gLock})
  /\ UNCHANGED <<heap, used, opVars>>

(* gLock->acquire() *)
Acquire(t) ==
  /\ pc[t] = "acquire" /\ ~ held
  /\ held' = TRUE
  /\ loc' = [loc EXCEPT ![t] = NoLoc]
  /\ Goto(t, "lockedSearch", {}, {gLock})
  /\ UNCHANGED <<heap, used, opVars>>

(* search, in a transaction or under the lock: one node further *)
Search(t) ==
  LET n == loc[t].n
  IN /\ pc[t] \in {"search", "lockedSearch"} /\ ~ isLeaf(n)
     /\ loc' = [loc EXCEPT ![t] = [gp |-> @.p, p |-> n,
                  n |-> IF key[t] < heap[n].key THEN heap[n].left ELSE heap[n].right]]
     /\ Goto(t, pc[t], IF pc[t] = "search" THEN reads[t] \cup {n} ELSE {}, {})
     /\ UNCHANGED <<heap, used, held, opVars>>

-----------------------------------------------------------------------------
AtLeaf(t) == isLeaf(loc[t].n)
Hit(t) == heap[loc[t].n].key = key[t]

(* Node x gets the child c in the place of the child old. *)
Replace(x, old, c) ==
  IF heap[x].left = old THEN [heap[x] EXCEPT !.left = c] ELSE [heap[x] EXCEPT !.right = c]

(* sequentialInsertIfAbsent at its leaf: a new leaf a, a new node b. *)
Grown(t, a, b) ==
  LET n == loc[t].n
      k == key[t]
  IN [heap EXCEPT ![a] = createLeaf(k),
                  ![b] = IF k < heap[n].key THEN createInternal(heap[n].key, a, n)
                         ELSE createInternal(k, n, a),
                  ![loc[t].p] = Replace(loc[t].p, n, b)]

(* sequentialErase at its leaf: the sibling takes the place of the parent. *)
Shrunk(t) ==
  LET p == loc[t].p
      sibling == IF heap[p].left = loc[t].n THEN heap[p].right ELSE heap[p].left
  IN [heap EXCEPT ![loc[t].gp] = Replace(loc[t].gp, p, sibling)]

(* The operation of t has its effect, or none, and its answer is r.  Under *)
(* the lock it has still to go through p.                                  *)
Effect(t, r, p, W, h) ==
  /\ heap' = h
  /\ Goto(t, p, {}, W)
  /\ result' = [result EXCEPT ![t] = r]
  /\ seen' = [u \in Threads |-> IF u = t \/ seen[u] = {} THEN {}
                                ELSE seen[u] \cup {ElementsOf(h)}]
  /\ op' = [op EXCEPT ![t] = "none"]
  /\ key' = [key EXCEPT ![t] = 0]
  /\ retriesLeft' = [retriesLeft EXCEPT ![t] = 0]
  /\ UNCHANGED left

(* A contains, or an update that has nothing to change. *)
NoChange(t, p) ==
  /\ AtLeaf(t) /\ (op[t] = "contains" \/ Hit(t) = (op[t] = "insert"))
  /\ Effect(t, op[t] = "contains" /\ Hit(t), p, {}, heap)
  /\ UNCHANGED used

(* new returns addresses that are not in use. *)
InsertHere(t, p) ==
  LET a == CHOOSE n \in Nodes : n \notin used
      b == CHOOSE n \in Nodes : n \notin used \cup {a}
  IN /\ AtLeaf(t) /\ op[t] = "insert" /\ ~ Hit(t)
     /\ {a, b} \subseteq Nodes \ used /\ a # b
     /\ used' = used \cup {a, b}
     /\ Effect(t, TRUE, p, {loc[t].p}, Grown(t, a, b))

EraseHere(t, p) ==
  /\ AtLeaf(t) /\ op[t] = "erase" /\ Hit(t)
  /\ Effect(t, TRUE, p, {loc[t].gp}, Shrunk(t))

(* The last reads of a transaction, its writes and _xend.  The deletes are *)
(* part of the transaction.                                                *)
Commit(t) ==
  /\ pc[t] = "search"
  /\ loc' = [loc EXCEPT ![t] = NoLoc]
  /\ \/ NoChange(t, "idle")
     \/ InsertHere(t, "idle")
     \/ EraseHere(t, "idle") /\ used' = used \ {loc[t].p, loc[t].n}
  /\ UNCHANGED held

(* The same under the lock, where the deletes follow one by one. *)
Change(t) ==
  /\ pc[t] = "lockedSearch"
  /\ \/ NoChange(t, "release")
     \/ InsertHere(t, "release")
     \/ EraseHere(t, "free") /\ UNCHANGED used
  /\ UNCHANGED <<held, loc>>

Free(t) ==
  /\ pc[t] = "free"
  /\ \/ /\ loc[t].p \in used /\ used' = used \ {loc[t].p}
        /\ Goto(t, "free", {}, {})
     \/ /\ loc[t].p \notin used /\ used' = used \ {loc[t].n}
        /\ Goto(t, "release", {}, {})
  /\ UNCHANGED <<heap, held, loc, opVars>>

(* gLock->release() *)
Release(t) ==
  /\ pc[t] = "release"
  /\ held' = FALSE
  /\ loc' = [loc EXCEPT ![t] = NoLoc]
  /\ Goto(t, "idle", {}, {gLock})
  /\ UNCHANGED <<heap, used, opVars>>

-----------------------------------------------------------------------------
CallStep(t) == \E o \in {"insert", "erase", "contains"}, k \in Keys : Call(t, o, k)

Step(t) ==
  \/ Begin(t) \/ Abort(t) \/ Wait(t) \/ Acquire(t) \/ Search(t)
  \/ Commit(t) \/ Change(t) \/ Free(t) \/ Release(t)

Next == \E t \in Threads : CallStep(t) \/ Step(t)

Spec == Init /\ [][Next]_vars

(* Threads run at any speed, but none stops inside an operation. *)
FairSpec == Spec /\ \A t \in Threads : WF_vars(Step(t))

-----------------------------------------------------------------------------
(* No operation stands on a node that was freed. *)
NoFreedNodeRead ==
  \A t \in Threads : pc[t] \in {"search", "lockedSearch"} =>
    {loc[t].n, loc[t].p, loc[t].gp} \ {NULL} \subseteq used

(* Every operation ends, as long as the others end, even if every         *)
(* transaction fails: threads do not wait for the lock for ever.           *)
OperationsEnd == \A t \in Threads : pc[t] # "idle" ~> pc[t] = "idle"
=============================================================================
