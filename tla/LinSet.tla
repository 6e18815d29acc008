------------------------------- MODULE LinSet -------------------------------
(***************************************************************************)
(* What every set of the repository promises (the hash tables of           *)
(* assignment-4 and 7, the list of assignment-5, the trees of assignment-6 *)
(* and 7): a linearizable set of keys with insertIfAbsent, erase and       *)
(* contains.                                                               *)
(*                                                                         *)
(* An operation is a Call, some steps of other threads, and a return.  An  *)
(* operation that changes the set does so atomically with its return.  One *)
(* that changes nothing may return as soon as SOME moment since its call   *)
(* justifies the answer: seen[t] keeps the contents the set had at each    *)
(* moment since t's call.  Every behaviour of this specification is        *)
(* linearizable, because a failing operation can be ordered at the moment  *)
(* that justifies it.                                                      *)
(***************************************************************************)
EXTENDS Integers

CONSTANTS Threads,     \* the threads that use the set
          Keys         \* the keys they use

VARIABLES members,     \* the keys in the set
          call,        \* the operation each thread has in progress, or Idle
          seen,        \* the contents of the set since the call, per thread
          result       \* what each thread's last operation returned

setVars == <<members, call, seen, result>>

Idle == [op |-> "none", key |-> 0]

Operations == [op : {"insert", "erase", "contains"}, key : Keys]

FilledInit ==
  /\ members \in SUBSET Keys
  /\ call = [t \in Threads |-> Idle]
  /\ seen = [t \in Threads |-> {}]
  /\ result = [t \in Threads |-> FALSE]

SetInit == FilledInit /\ members = {}

-----------------------------------------------------------------------------
(* Thread t calls operation o on key k. *)
Call(t, o, k) ==
  /\ call[t] = Idle
  /\ call' = [call EXCEPT ![t] = [op |-> o, key |-> k]]
  /\ seen' = [seen EXCEPT ![t] = {members}]
  /\ UNCHANGED <<members, result>>

(* The operation of t ends with answer r and leaves the set equal to S. *)
Return(t, r, S) ==
  /\ members' = S
  /\ call' = [call EXCEPT ![t] = Idle]
  /\ seen' = [u \in Threads |-> IF u = t \/ call[u] = Idle
                                THEN {} ELSE seen[u] \cup {S}]
  /\ result' = [result EXCEPT ![t] = r]

(* An insertIfAbsent that adds its key. *)
Insert(t) ==
  /\ call[t].op = "insert" /\ call[t].key \notin members
  /\ Return(t, TRUE, members \cup {call[t].key})

(* An erase that removes its key. *)
Erase(t) ==
  /\ call[t].op = "erase" /\ call[t].key \in members
  /\ Return(t, TRUE, members \ {call[t].key})

(* An insertIfAbsent of a key that was present at some moment. *)
InsertFails(t) ==
  /\ call[t].op = "insert" /\ \E S \in seen[t] : call[t].key \in S
  /\ Return(t, FALSE, members)

(* An erase of a key that was absent at some moment. *)
EraseFails(t) ==
  /\ call[t].op = "erase" /\ \E S \in seen[t] : call[t].key \notin S
  /\ Return(t, FALSE, members)

(* A contains whose answer was the right one at some moment. *)
Contains(t, r) ==
  /\ call[t].op = "contains" /\ \E S \in seen[t] : (call[t].key \in S) = r
  /\ Return(t, r, members)

SetStep(t) ==
  \/ \E o \in {"insert", "erase", "contains"}, k \in Keys : Call(t, o, k)
  \/ Insert(t) \/ Erase(t) \/ InsertFails(t) \/ EraseFails(t)
  \/ \E r \in BOOLEAN : Contains(t, r)

SetNext == \E t \in Threads : SetStep(t)

SetSpec == SetInit /\ [][SetNext]_setVars

(* The same set, found with some keys in it. *)
FilledSpec == FilledInit /\ [][SetNext]_setVars
=============================================================================
