----------------------------- MODULE AtomicKCAS -----------------------------
(***************************************************************************)
(* What class KCASLockFree of assignment-5 promises (kcas.h; assignment-6  *)
(* holds a second version of it): a memory of words with an atomic         *)
(* multi-word compare-and-swap and an atomic read.                         *)
(*                                                                         *)
(* A successful compare-and-swap takes effect at some moment before it     *)
(* returns, in Apply.  A read, or a compare-and-swap that fails, changes   *)
(* nothing: it may return any answer that was right at some moment since   *)
(* its call.  may[t] is the set of these answers.                          *)
(***************************************************************************)
EXTENDS MultiWord

CONSTANTS Threads,     \* the threads
          Words,       \* the addresses of the words
          Values       \* what a word can hold

VARIABLES memory,      \* the value of each word
          call,        \* the operation each thread has in progress, or Idle
          applied,     \* has that compare-and-swap taken effect?
          may,         \* the other answers it may give
          answer       \* what each thread's last operation returned

kcasVars == <<memory, call, applied, may, answer>>

Idle == [op |-> "none"]
Failed == 0
Succeeded == 1

(* The answers to c, other than success, that are right when the memory is m. *)
RightIn(c, m) ==
  IF c.op = "read" THEN {m[c.addr]}
  ELSE IF c.op = "kcas" /\ ~ Holds(m, c.entries) THEN {Failed} ELSE {}

AtomicInit ==
  /\ memory = [a \in Words |-> 0]
  /\ call = [t \in Threads |-> Idle]
  /\ applied = [t \in Threads |-> FALSE]
  /\ may = [t \in Threads |-> {}]
  /\ answer = [t \in Threads |-> Failed]

-----------------------------------------------------------------------------
Begin(t, c) ==
  /\ call[t] = Idle
  /\ call' = [call EXCEPT ![t] = c]
  /\ may' = [may EXCEPT ![t] = RightIn(c, memory)]
  /\ UNCHANGED <<memory, applied, answer>>

(* The compare-and-swap of t takes effect. *)
Apply(t) ==
  /\ call[t].op = "kcas" /\ ~ applied[t] /\ Holds(memory, call[t].entries)
  /\ memory' = Swapped(memory, call[t].entries)
  /\ applied' = [applied EXCEPT ![t] = TRUE]
  /\ may' = [u \in Threads |-> may[u] \cup RightIn(call[u], memory')]
  /\ UNCHANGED <<call, answer>>

(* The operation of t returns r. *)
End(t, r) ==
  /\ call[t] # Idle
  /\ IF applied[t] THEN r = Succeeded ELSE r \in may[t]
  /\ call' = [call EXCEPT ![t] = Idle]
  /\ applied' = [applied EXCEPT ![t] = FALSE]
  /\ may' = [may EXCEPT ![t] = {}]
  /\ answer' = [answer EXCEPT ![t] = r]
  /\ UNCHANGED memory

Calls == [op : {"read"}, addr : Words]
         \cup [op : {"kcas"}, entries : Seq([addr : Words, old : Values, new : Values])]

AtomicNext ==
  \E t \in Threads :
    \/ call[t] = Idle /\ call'[t] \in Calls /\ Begin(t, call'[t])
    \/ Apply(t)
    \/ \E r \in Values \cup {Failed, Succeeded} : End(t, r)

AtomicSpec == AtomicInit /\ [][AtomicNext]_kcasVars
=============================================================================
