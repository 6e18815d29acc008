------------------------------- MODULE Debra -------------------------------
(***************************************************************************)
(* Epoch-based reclamation (reclaimer_debra.h behind record_manager.h) of  *)
(* the nodes of the list and of the tree.  An operation runs under a       *)
(* guard: startOp announces the epoch, endOp sets the quiescent bit of the *)
(* announcement.  A retired node waits in a bag of its thread until the    *)
(* bags have been rotated often enough, and is then deleted.  Stores to    *)
(* announcedEpoch are plain ones: they wait in a store buffer until the    *)
(* next barrier at the latest.                                             *)
(***************************************************************************)
EXTENDS Integers, Sequences, FiniteSets

CONSTANTS NUM_PROCESSES,                      \* the threads are 0 .. NUM_PROCESSES - 1
          MIN_OPS_BEFORE_READ,                \* operations per look at another thread
          NUMBER_OF_EPOCH_BAGS,
          NUMBER_OF_ALWAYS_EMPTY_EPOCH_BAGS,
          Records,                            \* the addresses of nodes
          Budgets                             \* how many operations threads make

Threads == 0 .. NUM_PROCESSES - 1
EPOCH_INCREMENT == 2

(* What the constants are; it is assumed where they get their values.     *)
Proper ==
  /\ NUM_PROCESSES \in Nat \ {0}
  /\ MIN_OPS_BEFORE_READ \in Nat \ {0}
  /\ NUMBER_OF_EPOCH_BAGS \in Nat
  /\ NUMBER_OF_ALWAYS_EMPTY_EPOCH_BAGS \in Nat \ {0}
  /\ NUMBER_OF_EPOCH_BAGS - NUMBER_OF_ALWAYS_EMPTY_EPOCH_BAGS >= 5
  /\ Budgets \subseteq [Threads -> Nat]

VARIABLES epoch,        \* the global epoch
          announcedEpoch, buffer,   \* each announcement, and stores not yet seen
          localEpoch,   \* localvar_announcedEpoch
          epochbags, index,         \* the bags of each thread, and the current one
          checked,      \* how many threads each thread found in the epoch
          opsSinceRead, \* its operations since it last looked at one
          pc,           \* where each thread is
          left,         \* the operations it may still make
          linked,       \* the nodes of the data structure
          free,         \* the nodes that are not allocated
          own,          \* the nodes that each operation reached
          borrowed,     \* those it got from the k-CAS of operations under way
          late,         \* those it got from the k-CAS of operations that ended
          unlinked,     \* the nodes it took out and has not yet retired
          leads,        \* what a node points to once it is taken out
          started,      \* history: the epoch when the operation's guard was seen
          unlinkedAt    \* history: the epoch when a node was taken out

epochVars == <<epoch, announcedEpoch, buffer, localEpoch, checked, opsSinceRead, started>>
bagVars == <<epochbags, index>>
nodeVars == <<linked, free, own, borrowed, late, unlinked, leads, unlinkedAt>>
vars == <<epochVars, bagVars, pc, left, nodeVars>>

QUIESCENT(a) == a % EPOCH_INCREMENT = 1
BITS_EPOCH(a) == a - (a % EPOCH_INCREMENT)
GET_WITH_QUIESCENT(e) == e + 1

(* The epoch of a node that was never taken out. *)
Never == - 8

Init ==
  /\ epoch = 0
  /\ announcedEpoch = [t \in Threads |-> GET_WITH_QUIESCENT(0)]
  /\ buffer = [t \in Threads |-> << >>]
  /\ localEpoch = [t \in Threads |-> GET_WITH_QUIESCENT(0)]
  /\ epochbags = [t \in Threads |-> [b \in 0 .. NUMBER_OF_EPOCH_BAGS - 1 |-> {}]]
  /\ index = [t \in Threads |-> 0]
  /\ checked = [t \in Threads |-> 0]
  /\ opsSinceRead = [t \in Threads |-> 0]
  /\ pc = [t \in Threads |-> "quiescent"]
  /\ left \in Budgets
  /\ linked \in SUBSET Records
  /\ free = Records \ linked
  /\ own = [t \in Threads |-> {}]
  /\ borrowed = [t \in Threads |-> {}]
  /\ late = [t \in Threads |-> {}]
  /\ unlinked = [t \in Threads |-> {}]
  /\ leads = [r \in Records |-> {}]
  /\ started = [t \in Threads |-> 0]
  /\ unlinkedAt = [r \in Records |-> Never]

-----------------------------------------------------------------------------
Goto(t, p) == pc' = [pc EXCEPT ![t] = p]

Store(t, a) == buffer' = [buffer EXCEPT ![t] = Append(@, a)]

(* The oldest store of t becomes visible. *)
Drain(t) ==
  /\ buffer[t] # << >>
  /\ announcedEpoch' = [announcedEpoch EXCEPT ![t] = Head(buffer[t])]
  /\ buffer' = [buffer EXCEPT ![t] = Tail(@)]
  /\ started' = [started EXCEPT ![t] = IF QUIESCENT(Head(buffer[t])) THEN 0 ELSE epoch]
  /\ UNCHANGED <<epoch, localEpoch, checked, opsSinceRead, bagVars, pc, left, nodeVars>>

(* startOp reads the epoch; a new one starts a new scan. *)
StartOp(t) ==
  /\ pc[t] = "quiescent" /\ left[t] > 0
  /\ left' = [left EXCEPT ![t] = @ - 1]
  /\ localEpoch' = [localEpoch EXCEPT ![t] = epoch]
  /\ \/ epoch = localEpoch[t] /\ Goto(t, "announce") /\ UNCHANGED checked
     \/ /\ epoch # localEpoch[t]
        /\ checked' = [checked EXCEPT ![t] = 0]
        /\ Goto(t, "rotate")
  /\ UNCHANGED <<epoch, announcedEpoch, buffer, started, opsSinceRead, bagVars, nodeVars>>

(* Mutant of Rotate: it deletes what was retired four rotations ago. *)
RotateFour(t) ==
  /\ pc[t] = "rotate"
  /\ LET nextIndex == (index[t] + 1) % NUMBER_OF_EPOCH_BAGS
         freeable == (nextIndex + NUMBER_OF_EPOCH_BAGS - 4) % NUMBER_OF_EPOCH_BAGS
     IN /\ free' = free \cup epochbags[t][freeable]
        /\ epochbags' = [epochbags EXCEPT ![t][freeable] = {}]
        /\ index' = [index EXCEPT ![t] = nextIndex]
  /\ Goto(t, "announce")
  /\ UNCHANGED <<epochVars, left, linked, own, borrowed, late, unlinked, leads, unlinkedAt>>

(* rotateEpochBags deletes the nodes of an old bag, all of them: behind    *)
(* pool_none, addMoveFullBlocks is deallocateAndClear;                     *)
Rotate(t) ==
  /\ pc[t] = "rotate"
  /\ LET nextIndex == (index[t] + 1) % NUMBER_OF_EPOCH_BAGS
         freeable == (nextIndex + NUMBER_OF_ALWAYS_EMPTY_EPOCH_BAGS)
                       % NUMBER_OF_EPOCH_BAGS
     IN /\ free' = free \cup epochbags[t][freeable]
        /\ epochbags' = [epochbags EXCEPT ![t][freeable] = {}]
        /\ index' = [index EXCEPT ![t] = nextIndex]
  /\ Goto(t, "announce")
  /\ UNCHANGED <<epochVars, left, linked, own, borrowed, late, unlinked, leads, unlinkedAt>>

(* then the epoch is announced, *)
Announce(t) ==
  /\ pc[t] = "announce"
  /\ Store(t, localEpoch[t])
  /\ Goto(t, "scan")
  /\ UNCHANGED <<epoch, announcedEpoch, localEpoch, checked, opsSinceRead, started, bagVars,
                 left, nodeVars>>

(* and once in MIN_OPS_BEFORE_READ operations another thread is checked. *)
Scan(t) ==
  /\ pc[t] = "scan"
  /\ LET otherTid == checked[t]
         otherAnnounce == IF otherTid = t THEN localEpoch[t]
                          ELSE announcedEpoch[otherTid]
         agrees == \/ BITS_EPOCH(otherAnnounce) = localEpoch[t]
                   \/ QUIESCENT(otherAnnounce)
     IN \/ /\ opsSinceRead[t] + 1 # MIN_OPS_BEFORE_READ
           /\ opsSinceRead' = [opsSinceRead EXCEPT ![t] = @ + 1]
           /\ Goto(t, "enter")
           /\ UNCHANGED checked
        \/ /\ opsSinceRead[t] + 1 = MIN_OPS_BEFORE_READ
           /\ opsSinceRead' = [opsSinceRead EXCEPT ![t] = 0]
           /\ \/ /\ agrees
                 /\ checked' = [checked EXCEPT ![t] = @ + 1]
                 /\ Goto(t, IF checked[t] + 1 >= NUM_PROCESSES
                            THEN "advance" ELSE "enter")
              \/ ~ agrees /\ Goto(t, "enter") /\ UNCHANGED checked
  /\ UNCHANGED <<epoch, announcedEpoch, buffer, localEpoch, started, bagVars,
                 left, nodeVars>>

(* A full scan advances the epoch by compare-and-swap, a barrier too. *)
Advance(t) ==
  /\ pc[t] = "advance" /\ buffer[t] = << >>
  /\ epoch' = IF epoch = localEpoch[t] THEN epoch + EPOCH_INCREMENT ELSE epoch
  /\ Goto(t, "enter")
  /\ UNCHANGED <<announcedEpoch, buffer, localEpoch, checked, opsSinceRead, started, bagVars,
                 left, nodeVars>>

(* Mutant of Enter: no barrier. *)
EnterUnfenced(t) ==
  /\ pc[t] = "enter"
  /\ Goto(t, "inside")
  /\ UNCHANGED <<epochVars, bagVars, left, nodeVars>>

(* The barrier after startOp, __sync_synchronize. *)
Enter(t) ==
  /\ pc[t] = "enter" /\ buffer[t] = << >>
  /\ Goto(t, "inside")
  /\ UNCHANGED <<epochVars, bagVars, left, nodeVars>>

-----------------------------------------------------------------------------
(* What the operations of the list and of the tree do to their nodes.      *)

(* A search reads a pointer in the structure, *)
Reach(t) ==
  /\ pc[t] = "inside"
  /\ \E r \in linked : own' = [own EXCEPT ![t] = @ \cup {r}]
  /\ UNCHANGED <<epochVars, bagVars, pc, left, linked, free, borrowed, late, unlinked, leads,
                 unlinkedAt>>

(* or in a node that was taken out while it looked on. *)
Follow(t) ==
  /\ pc[t] = "inside"
  /\ \E r \in own[t] \ linked : \E q \in leads[r] :
       own' = [own EXCEPT ![t] = @ \cup {q}]
  /\ UNCHANGED <<epochVars, bagVars, pc, left, linked, free, borrowed, late, unlinked, leads,
                 unlinkedAt>>

(* It meets the k-CAS of another operation, u, and will help it: the words *)
(* of the k-CAS are in nodes that u reached.                               *)
Borrow(t) ==
  /\ pc[t] = "inside"
  /\ \E u \in Threads \ {t} :
       borrowed' = [borrowed EXCEPT ![t] = @ \cup own[u]]
  /\ UNCHANGED <<epochVars, bagVars, pc, left, linked, free, own, late, unlinked, leads,
                 unlinkedAt>>

(* Or the k-CAS of an operation that has ended: a thread u that began to   *)
(* help that one while it was under way, and is still inside, can put its  *)
(* tag back into a word, and helpOther compares nothing but the sequence   *)
(* number.  The descriptor is decided, so that t only writes to its words, *)
(* which u got then; when u leaves help, the words are clean again or the  *)
(* descriptor is of another use and nobody can help it.                    *)
BorrowLate(t) ==
  /\ pc[t] = "inside"
  /\ \E u \in Threads \ {t} :
       late' = [late EXCEPT ![t] = @ \cup borrowed[u]]
  /\ UNCHANGED <<epochVars, bagVars, pc, left, linked, free, own, borrowed, unlinked, leads,
                 unlinkedAt>>

(* What one k-CAS links or takes out: one node of the list, two of the tree. *)
Few(N) == N # {} /\ Cardinality(N) <= 2

(* insertIfAbsent links new nodes, *)
Link(t) ==
  /\ pc[t] = "inside"
  /\ \E N \in SUBSET free :
       /\ Few(N)
       /\ linked' = linked \cup N
       /\ free' = free \ N
       /\ leads' = [r \in Records |-> IF r \in N THEN {} ELSE leads[r]]
       /\ unlinkedAt' = [r \in Records |-> IF r \in N THEN Never ELSE unlinkedAt[r]]
  /\ Goto(t, "done")
  /\ UNCHANGED <<epochVars, bagVars, left, own, borrowed, late, unlinked>>

(* erase takes nodes out, whose pointers do not change any more, *)
Unlink(t) ==
  /\ pc[t] = "inside"
  /\ \E N \in SUBSET (own[t] \cap linked) :
       /\ Few(N)
       /\ linked' = linked \ N
       /\ unlinked' = [unlinked EXCEPT ![t] = N]
       /\ leads' = [r \in Records |-> IF r \in N THEN linked \ {r} ELSE leads[r]]
       /\ unlinkedAt' = [r \in Records |-> IF r \in N THEN epoch ELSE unlinkedAt[r]]
  /\ Goto(t, "retire")
  /\ UNCHANGED <<epochVars, bagVars, left, free, own, borrowed, late>>

(* and retires them one by one. *)
Retire(t) ==
  /\ pc[t] = "retire"
  /\ \E r \in unlinked[t] :
       /\ epochbags' = [epochbags EXCEPT ![t][index[t]] = @ \cup {r}]
       /\ unlinked' = [unlinked EXCEPT ![t] = @ \ {r}]
       /\ Goto(t, IF unlinked[t] = {r} THEN "done" ELSE "retire")
  /\ UNCHANGED <<epochVars, index, left, linked, free, own, borrowed, late, leads, unlinkedAt>>

(* The guard is destroyed: endOp. *)
EndOp(t) ==
  /\ pc[t] \in {"inside", "done"}
  /\ Store(t, GET_WITH_QUIESCENT(localEpoch[t]))
  /\ own' = [own EXCEPT ![t] = {}]
  /\ borrowed' = [borrowed EXCEPT ![t] = {}]
  /\ late' = [late EXCEPT ![t] = {}]
  /\ Goto(t, "quiescent")
  /\ UNCHANGED <<epoch, announcedEpoch, localEpoch, checked, opsSinceRead, started, bagVars,
                 left, linked, free, unlinked, leads, unlinkedAt>>

-----------------------------------------------------------------------------
Step(t) ==
  \/ Drain(t)
  \/ StartOp(t) \/ Rotate(t) \/ Announce(t) \/ Scan(t) \/ Advance(t) \/ Enter(t)
  \/ Reach(t) \/ Follow(t) \/ Borrow(t) \/ BorrowLate(t)
  \/ Link(t) \/ Unlink(t) \/ Retire(t) \/ EndOp(t)

Next == \E t \in Threads : Step(t)

Spec == Init /\ [][Next]_vars

-----------------------------------------------------------------------------
(* No operation can use a deleted node: neither one that it reached nor    *)
(* one that it would write to on behalf of another operation, even of one  *)
(* that has ended.                                                         *)
NoUseAfterFree ==
  \A t \in Threads : (own[t] \cup borrowed[t] \cup late[t]) \cap free = {}

(* While an operation is under way the epoch advances at most once. *)
GracePeriod ==
  \A t \in Threads : pc[t] \in {"inside", "retire", "done"} =>
    epoch <= started[t] + EPOCH_INCREMENT
=============================================================================
