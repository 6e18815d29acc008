----------------------------- MODULE LinCounter -----------------------------
(***************************************************************************)
(* What the exact counters of assignment-2 promise: a linearizable counter *)
(* with inc and read.  An inc takes effect at one moment, and a read       *)
(* returns a value the counter had at some moment since the read was       *)
(* called: seen[p] keeps those values.                                     *)
(***************************************************************************)
EXTENDS Integers

CONSTANT Procs         \* the processes that use the counter

VARIABLES value,       \* the number of increments so far
          seen,        \* its values since the read of each process was called
          answer       \* what the last read of each process returned

counterVars == <<value, seen, answer>>

CounterInit ==
  /\ value = 0
  /\ seen = [p \in Procs |-> {}]
  /\ answer = [p \in Procs |-> 0]

Inc ==
  /\ value' = value + 1
  /\ seen' = [p \in Procs |-> IF seen[p] = {} THEN {} ELSE seen[p] \cup {value + 1}]
  /\ UNCHANGED answer

ReadCall(p) ==
  /\ seen[p] = {}
  /\ seen' = [seen EXCEPT ![p] = {value}]
  /\ UNCHANGED <<value, answer>>

ReadReturn(p) ==
  /\ \E n \in seen[p] : answer' = [answer EXCEPT ![p] = n]
  /\ seen' = [seen EXCEPT ![p] = {}]
  /\ UNCHANGED value

CounterNext == Inc \/ \E p \in Procs : ReadCall(p) \/ ReadReturn(p)

CounterSpec == CounterInit /\ [][CounterNext]_counterVars
=============================================================================
