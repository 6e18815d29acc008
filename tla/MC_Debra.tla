------------------------------ MODULE MC_Debra ------------------------------
(***************************************************************************)
(* Two threads, and bags whose nodes wait for five rotations, the fewest   *)
(* that are enough.  Two instances: with two nodes in play, one thread     *)
(* makes enough operations to delete a node while the other is anywhere in *)
(* its only one; with one node in play, the other thread makes four, so    *)
(* that it can end one, change the epoch, and meet the tag of the first in *)
(* a later one.                                                            *)
(*                                                                         *)
(* The names are its own, so that the reclamation can stand beside the     *)
(* k-CAS whose operations it protects.                                     *)
(***************************************************************************)
EXTENDS Integers, Sequences, FiniteSets, TLC

CONSTANTS NUM_PROCESSES, MIN_OPS_BEFORE_READ, NUMBER_OF_EPOCH_BAGS,
          NUMBER_OF_ALWAYS_EMPTY_EPOCH_BAGS, Records,
          LongBudgets, LateBudgets   \* with both nodes in play, or one

VARIABLES epoch, announcedEpoch, buffer, localEpoch, epochbags, index, checked,
          opsSinceRead, debraPc, debraLeft, linked, free, own, borrowed, late,
          unlinked, leads, started, unlinkedAt,
          inPlay                     \* the nodes that the instance may use

D == INSTANCE Debra WITH Budgets <- LongBudgets \cup LateBudgets, pc <- debraPc, left <- debraLeft

ASSUME DebraAssumption == D!Proper

MCLongBudgets == {(0 :> 11) @@ (1 :> 1)}
MCLateBudgets == {(0 :> 9) @@ (1 :> 4)}

debraVars == <<epoch, announcedEpoch, buffer, localEpoch, epochbags, index, checked,
               opsSinceRead, debraPc, debraLeft, linked, free, own, borrowed,
               late, unlinked, leads, started, unlinkedAt, inPlay>>

Symmetric == Permutations(Records)

(* The threads have made all their operations. *)
DebraDone ==
  /\ \A t \in D!Threads : debraPc[t] = "quiescent" /\ debraLeft[t] = 0 /\ buffer[t] = << >>
  /\ UNCHANGED debraVars

DebraInit ==
  /\ \/ inPlay = Records /\ debraLeft \in LongBudgets
     \/ inPlay \in {{r} : r \in Records} /\ debraLeft \in LateBudgets
  /\ D!Init
  /\ linked # {} /\ linked \subseteq inPlay

DebraNext ==
  \/ D!Next /\ linked' \subseteq inPlay /\ UNCHANGED inPlay
  \/ DebraDone

DebraSpec == DebraInit /\ [][DebraNext]_debraVars

(* No operation can use a deleted node, whether it reached the node itself *)
(* or would write to it on behalf of another operation, also of one that   *)
(* has ended and whose tag a late helper put back (reclaimer_debra.h, the  *)
(* rotation of the bags; kcas_reuse_impl.h, helpOther).                    *)
NoUseAfterFree == D!NoUseAfterFree

(* While an operation is under way the epoch advances at most once         *)
(* (reclaimer_debra.h, the scan of the announcements).                     *)
GracePeriod == D!GracePeriod
=============================================================================
