------------------------ MODULE LockedTables_proofs ------------------------
(***************************************************************************)
(* Proof that algorithms A and B implement algorithm C: their locks rule   *)
(* out interleavings of C and allow no others.  What HashTableC_proofs     *)
(* shows of C is thereby true of A and B, for every set of threads and of  *)
(* keys, every capacity and every hash function.                           *)
(***************************************************************************)
EXTENDS LockedTables, SumTheorems, TLAPS

(* Where a thread of A or B is in algorithm C.  Waiting for a lock is not  *)
(* a step of C; what the thread will find under the lock is fixed once it  *)
(* holds it.                                                               *)
absPc == [t \in Threads |->
  IF pc[t] = "insertLock" THEN "insertCAS"
  ELSE IF pc[t] = "insertLocked"
       THEN IF data[Here(t)] = EMPTY THEN "insertCAS"
            ELSE IF algorithm = "A" THEN "insert" ELSE "insertRecheck"
  ELSE IF pc[t] = "eraseLock" THEN "eraseCAS"
  ELSE IF pc[t] = "eraseLocked"
       THEN IF algorithm = "B" \/ data[Here(t)] = key[t] THEN "eraseCAS" ELSE "erase"
  ELSE pc[t]]

C == INSTANCE HashTableC_proofs WITH pc <- absPc

Places == {"idle", "insert", "insertLock", "insertLocked",
           "erase", "eraseLock", "eraseLocked", "sum"}

LocksTypeOK ==
  /\ algorithm \in {"A", "B"}
  /\ pc \in [Threads -> Places]
  /\ lock \in [Buckets -> Threads \cup {Nobody}]

(* The mutexes that thread t holds. *)
HoldsRight(t) ==
  /\ pc[t] \in {"insertLocked", "eraseLocked"} => Held(t) = {Here(t)}
  /\ pc[t] = "sum" =>
       \E j \in 0 .. Cap : Held(t) = j .. i[t] - 1 /\ (i[t] < Cap => j = 0)
  /\ pc[t] \in {"idle", "insert", "insertLock", "erase", "eraseLock"} => Held(t) = {}

(* An erase of B that has seen its key in a bucket. *)
FoundKey(t) ==
  algorithm = "B" /\ pc[t] \in {"eraseLock", "eraseLocked"} =>
    data[Here(t)] \in {key[t], TOMBSTONE}

EitherInv ==
  /\ LocksTypeOK
  /\ \A t \in Threads : HoldsRight(t) /\ FoundKey(t)
  /\ C!IInv

-----------------------------------------------------------------------------
(* Instances have operators of their own, which say the same. *)
LEMMA SameTable ==
  /\ C!Buckets = Buckets /\ C!Probes = Probes /\ C!EMPTY = EMPTY /\ C!TOMBSTONE = TOMBSTONE
  /\ C!Elements = Elements
  /\ \A d : C!ElementsOf(d) = ElementsOf(d)
  /\ \A k, n : C!Slot(k, n) = Slot(k, n)
  /\ \A t : C!Here(t) = Here(t)
BY DEF C!Buckets, Buckets, C!Probes, Probes, C!EMPTY, EMPTY, C!TOMBSTONE, TOMBSTONE,
       C!Elements, Elements, C!ElementsOf, ElementsOf, C!Slot, Slot, C!Here, Here

LEMMA SameActions ==
  /\ \A t, r, d : AlgB!Leave(t, r, d) <=> Leave(t, r, d)
  /\ \A t, o, k, p : AlgB!Enter(t, o, k, p) <=> Enter(t, o, k, p)
  /\ \A t, p : AlgB!Goto(t, p) <=> Goto(t, p)
  /\ \A t, b : AlgB!Acquire(t, b) <=> Acquire(t, b)
  /\ \A t, b : AlgB!Release(t, b) <=> Release(t, b)
  /\ \A t : AlgB!Here(t) = Here(t) /\ AlgB!Held(t) = Held(t)
  /\ AlgB!EMPTY = EMPTY /\ AlgB!TOMBSTONE = TOMBSTONE
BY DEF AlgB!Leave, Leave, AlgB!Enter, Enter, AlgB!Goto, Goto, AlgB!Acquire, Acquire,
       AlgB!Release, Release, AlgB!Here, Here, AlgB!Slot, Slot, AlgB!Held, Held,
       AlgB!Buckets, Buckets, AlgB!Elements, Elements, AlgB!ElementsOf, ElementsOf,
       AlgB!EMPTY, EMPTY, AlgB!TOMBSTONE, TOMBSTONE

LEMMA SameAdvance == \A t, p : AlgB!Advance(t, p) <=> Advance(t, p)
BY SameActions DEF AlgB!Advance, Advance

LEMMA SameSums ==
  /\ \A t : AlgB!SumCall(t) <=> SumCall(t)
  /\ \A t : AlgB!SumLock(t) <=> SumLock(t)
  /\ \A t : AlgB!SumUnlock(t) <=> SumUnlock(t)
  /\ \A t : AlgB!SumReturn(t) <=> SumReturn(t)
<1>1. \A t : AlgB!AddBucket(t) <=> AddBucket(t)
  BY DEF AlgB!AddBucket, AddBucket
<1>2. \A S : AlgB!Min(S) = Min(S)
  BY DEF AlgB!Min, Min
<1>3. AlgB!tableVars = tableVars
  BY DEF AlgB!tableVars, tableVars
<1> QED
  BY <1>1, <1>2, SameActions
     DEF AlgB!SumCall, SumCall, AlgB!SumLock, SumLock, AlgB!SumUnlock, SumUnlock,
         AlgB!SumReturn, SumReturn, AlgB!tableVars, tableVars

-----------------------------------------------------------------------------
(* What the invariant of C says of the locals of A and B. *)
LEMMA TypesNow ==
  ASSUME EitherInv
  PROVE  /\ data \in [Buckets -> Keys \cup {EMPTY, TOMBSTONE}]
         /\ op \in [Threads -> {"none", "insert", "erase", "sum"}]
         /\ key \in [Threads -> Keys \cup {0}]
         /\ i \in [Threads -> 0 .. Cap]
BY SameTable DEF EitherInv, C!IInv, C!TypeOK, C!TableTypeOK

LEMMA LocalsNow ==
  ASSUME EitherInv, NEW t \in Threads
  PROVE  /\ absPc[t] = "idle" <=> pc[t] = "idle"
         /\ pc[t] \in {"insert", "insertLock", "insertLocked"} => op[t] = "insert"
         /\ pc[t] \in {"erase", "eraseLock", "eraseLocked"} => op[t] = "erase"
         /\ op[t] \in {"insert", "erase"} =>
              key[t] \in Keys /\ i[t] \in Probes /\ Here(t) \in Buckets
         /\ pc[t] = "idle" => op[t] = "none"
         /\ op[t] = "sum" <=> pc[t] = "sum"
<1>1. /\ (op[t] = "none") = (absPc[t] = "idle")
      /\ (op[t] = "insert") = (absPc[t] \in {"insert", "insertCAS", "insertRecheck"})
      /\ (op[t] = "erase") = (absPc[t] \in {"erase", "eraseCAS"})
      /\ op[t] \in {"insert", "erase"} => key[t] \in Keys /\ i[t] \in Probes
  BY SameTable DEF EitherInv, C!IInv, C!LocalsOK, C!Updating
<1>2. pc[t] \in Places /\ op[t] \in {"none", "insert", "erase", "sum"}
  BY TypesNow DEF EitherInv, LocksTypeOK
<1>3. /\ absPc[t] = "idle" <=> pc[t] = "idle"
      /\ pc[t] \in {"insert", "insertLock", "insertLocked"} =>
           absPc[t] \in {"insert", "insertCAS", "insertRecheck"}
      /\ pc[t] \in {"erase", "eraseLock", "eraseLocked"} => absPc[t] \in {"erase", "eraseCAS"}
      /\ pc[t] = "sum" => absPc[t] = "sum"
  BY <1>2 DEF absPc, Places
<1>4. op[t] \in {"insert", "erase"} => Here(t) \in Buckets
  <2>1. op[t] \in {"insert", "erase"} => i[t] \in Nat
    BY <1>1, TableAssumption DEF Probes
  <2> QED
    BY <1>1, <2>1, C!SlotInBuckets, SameTable, TableAssumption DEF Here
<1> QED
  BY <1>1, <1>2, <1>3, <1>4 DEF Places

(* A step of t changes no bucket that another thread has locked, so the    *)
(* others stay where they are in C.                                        *)
LEMMA OthersStay ==
  ASSUME EitherInv, NEW t \in Threads, algorithm' = algorithm,
         \A u \in Threads \ {t} : pc'[u] = pc[u] /\ key'[u] = key[u] /\ i'[u] = i[u],
         \A b \in Buckets : b \notin Held(t) => data'[b] = data[b]
  PROVE  absPc' = [absPc EXCEPT ![t] = absPc'[t]]
<1>1. ASSUME NEW u \in Threads \ {t}
      PROVE  absPc'[u] = absPc[u]
  <2>1. Here(u)' = Here(u)
    BY DEF Here, Slot
  <2>2. CASE pc[u] \in {"insertLocked", "eraseLocked"}
    <3>1. Here(u) \in Held(u) /\ Here(u) \in Buckets
      BY <2>2 DEF EitherInv, HoldsRight, Held
    <3>2. Here(u) \notin Held(t)
      BY <3>1 DEF Held
    <3>3. data'[Here(u)] = data[Here(u)]
      BY <3>1, <3>2
    <3> QED
      BY <2>1, <2>2, <3>3 DEF absPc, Here, Slot
  <2>3. CASE pc[u] \notin {"insertLocked", "eraseLocked"}
    BY <2>3 DEF absPc, Here, Slot
  <2> QED
    BY <2>2, <2>3
<1>2. absPc = [u \in Threads |-> absPc[u]] /\ absPc' = [u \in Threads |-> absPc'[u]]
  BY DEF absPc, Here, Slot
<1> QED
  BY <1>1, <1>2

LEMMA SamePlace ==
  ASSUME NEW t \in Threads
  PROVE  /\ pc[t] \in {"idle", "insert", "erase", "sum"} => absPc[t] = pc[t]
         /\ pc'[t] \in {"idle", "insert", "erase", "sum"} => absPc'[t] = pc'[t]
<1>1. pc[t] \in {"idle", "insert", "erase", "sum"} => absPc[t] = pc[t]
  BY DEF absPc, Here, Slot
<1>2. pc'[t] \in {"idle", "insert", "erase", "sum"} => absPc'[t] = pc'[t]
  BY DEF absPc, Here, Slot
<1> QED
  BY <1>1, <1>2

LEMMA StaysPut ==
  ASSUME NEW t \in Threads, absPc' = [absPc EXCEPT ![t] = absPc'[t]], absPc'[t] = absPc[t]
  PROVE  absPc' = absPc
<1>1. absPc = [u \in Threads |-> absPc[u]]
  BY DEF absPc, Here, Slot
<1> QED
  BY <1>1

(* The steps that A and B have in common with C. *)
LEMMA LeaveIsLeave ==
  ASSUME EitherInv, NEW t \in Threads, NEW r, NEW d, Leave(t, r, d), algorithm' = algorithm,
         \A b \in Buckets : b \notin Held(t) => d[b] = data[b]
  PROVE  C!Leave(t, r, d)
<1>1. /\ data' = d /\ pc' = [pc EXCEPT ![t] = "idle"] /\ key' = [key EXCEPT ![t] = 0]
      /\ i' = [i EXCEPT ![t] = 0]
  BY DEF Leave
<1>2. /\ pc'[t] = "idle"
      /\ \A u \in Threads \ {t} : pc'[u] = pc[u] /\ key'[u] = key[u] /\ i'[u] = i[u]
  BY <1>1, TypesNow DEF EitherInv, LocksTypeOK
<1>3. absPc' = [absPc EXCEPT ![t] = absPc'[t]]
  BY <1>1, <1>2, OthersStay
<1>4. absPc'[t] = "idle"
  BY <1>2 DEF absPc, Here, Slot
<1>5. \A u \in Threads : absPc[u] = "idle" <=> pc[u] = "idle"
  BY LocalsNow
<1>6. seen' = [u \in Threads |-> IF u = t \/ absPc[u] = "idle"
                                 THEN {} ELSE seen[u] \cup {C!ElementsOf(d)}]
  BY <1>5, SameTable DEF Leave
<1> QED
  BY <1>3, <1>4, <1>6 DEF Leave, C!Leave

LEMMA EnterIsEnter ==
  ASSUME EitherInv, NEW t \in Threads, NEW o, NEW k, NEW p \in {"insert", "erase", "sum"},
         Enter(t, o, k, p), algorithm' = algorithm
  PROVE  C!Enter(t, o, k, p)
<1>1. /\ pc[t] = "idle" /\ pc' = [pc EXCEPT ![t] = p] /\ key' = [key EXCEPT ![t] = k]
      /\ data' = data /\ i' = i
  BY DEF Enter
<1>2. /\ pc'[t] = p
      /\ \A u \in Threads \ {t} : pc'[u] = pc[u] /\ key'[u] = key[u] /\ i'[u] = i[u]
  BY <1>1, TypesNow DEF EitherInv, LocksTypeOK
<1>3. absPc' = [absPc EXCEPT ![t] = absPc'[t]]
  BY <1>1, <1>2, OthersStay
<1>4. absPc'[t] = p /\ absPc[t] = "idle"
  BY <1>1, <1>2, SamePlace
<1> QED
  BY <1>3, <1>4, SameTable DEF Enter, C!Enter

LEMMA MoveIsGoto ==
  ASSUME EitherInv, NEW t \in Threads, NEW p, pc' = [pc EXCEPT ![t] = p],
         UNCHANGED <<data, op, key, i, sum, result, seen, algorithm>>
  PROVE  /\ C!Goto(t, absPc'[t])
         /\ absPc'[t] = absPc[t] => UNCHANGED C!tableVars
         /\ pc'[t] = p /\ Here(t)' = Here(t)
<1>1. pc'[t] = p /\ \A u \in Threads \ {t} : pc'[u] = pc[u]
  BY DEF EitherInv, LocksTypeOK
<1>2. absPc' = [absPc EXCEPT ![t] = absPc'[t]]
  BY <1>1, OthersStay
<1>3. absPc'[t] = absPc[t] => absPc' = absPc
  BY <1>2, StaysPut
<1> QED
  BY <1>1, <1>2, <1>3 DEF C!Goto, C!tableVars, Here, Slot

LEMMA AdvanceIsAdvance ==
  ASSUME EitherInv, NEW t \in Threads, NEW p \in {"insert", "erase"},
         Advance(t, p), algorithm' = algorithm
  PROVE  C!Advance(t, p)
<1>1. CASE i[t] + 1 >= Cap /\ Leave(t, FALSE, data)
  BY <1>1, LeaveIsLeave DEF C!Advance
<1>2. CASE /\ i[t] + 1 < Cap /\ i' = [i EXCEPT ![t] = @ + 1] /\ pc' = [pc EXCEPT ![t] = p]
           /\ UNCHANGED <<data, op, key, sum, result, seen>>
  <2>1. /\ pc'[t] = p
        /\ \A u \in Threads \ {t} : pc'[u] = pc[u] /\ key'[u] = key[u] /\ i'[u] = i[u]
    BY <1>2, TypesNow DEF EitherInv, LocksTypeOK
  <2>2. absPc' = [absPc EXCEPT ![t] = absPc'[t]]
    BY <1>2, <2>1, OthersStay
  <2>3. absPc'[t] = p
    BY <2>1, SamePlace
  <2> QED
    BY <1>2, <2>2, <2>3 DEF C!Advance
<1> QED
  BY <1>1, <1>2 DEF Advance

-----------------------------------------------------------------------------
(* The steps of getSumOfKeys. *)
LEMMA SumsAreSums ==
  ASSUME EitherInv, NEW t \in Threads, algorithm' = algorithm,
         SumCall(t) \/ SumLock(t) \/ SumUnlock(t) \/ SumReturn(t)
  PROVE  C!CallStep(t) \/ C!Step(t) \/ UNCHANGED C!tableVars
<1>1. CASE SumCall(t)
  <2>1. C!SumCall(t)
    BY <1>1, EnterIsEnter DEF SumCall, C!SumCall
  <2> QED
    BY <2>1 DEF C!CallStep
<1>2. CASE SumLock(t)
  <2>1. pc[t] = "sum" /\ AddBucket(t) /\ absPc[t] = "sum"
    BY <1>2, SamePlace DEF SumLock
  <2>2. \A u \in Threads \ {t} : pc'[u] = pc[u] /\ key'[u] = key[u] /\ i'[u] = i[u]
    BY <2>1, TypesNow DEF AddBucket
  <2>3. absPc' = [absPc EXCEPT ![t] = absPc'[t]]
    BY <2>1, <2>2, OthersStay DEF AddBucket
  <2>4. absPc'[t] = "sum"
    BY <2>1, SamePlace DEF AddBucket
  <2>5. absPc' = absPc
    BY <2>1, <2>3, <2>4, StaysPut
  <2>6. C!SumRead(t)
    BY <2>1, <2>5 DEF AddBucket, C!AddBucket, C!SumRead
  <2> QED
    BY <2>6 DEF C!Step
<1>3. CASE SumUnlock(t)
  <2>1. UNCHANGED <<data, pc, op, key, i, sum, result, seen>>
    BY <1>3 DEF SumUnlock, tableVars
  <2>2. absPc' = absPc
    BY <2>1 DEF absPc, Here, Slot
  <2> QED
    BY <2>1, <2>2 DEF C!tableVars
<1>4. CASE SumReturn(t)
  <2>1. absPc[t] = "sum" /\ i[t] = Cap /\ Leave(t, result[t], data)
    BY <1>4, SamePlace DEF SumReturn
  <2>2. C!SumReturn(t)
    BY <2>1, LeaveIsLeave DEF C!SumReturn
  <2> QED
    BY <2>2 DEF C!Step
<1> QED
  BY <1>1, <1>2, <1>3, <1>4

-----------------------------------------------------------------------------
(* Where a thread is in C once it waits for a lock or holds it. *)
LEMMA LockedPlace ==
  ASSUME NEW t \in Threads
  PROVE  /\ pc[t] = "insertLock" => absPc[t] = "insertCAS"
         /\ pc[t] = "insertLocked" =>
              absPc[t] = IF data[Here(t)] = EMPTY THEN "insertCAS"
                         ELSE IF algorithm = "A" THEN "insert" ELSE "insertRecheck"
         /\ pc[t] = "eraseLock" => absPc[t] = "eraseCAS"
         /\ pc[t] = "eraseLocked" =>
              absPc[t] = IF algorithm = "B" \/ data[Here(t)] = key[t]
                         THEN "eraseCAS" ELSE "erase"
BY DEF absPc, Here, Slot

LEMMA LockedPlaceLater ==
  ASSUME NEW t \in Threads, UNCHANGED <<data, key, algorithm>>, Here(t)' = Here(t)
  PROVE  /\ pc'[t] = "insertLock" => absPc'[t] = "insertCAS"
         /\ pc'[t] = "insertLocked" =>
              absPc'[t] = IF data[Here(t)] = EMPTY THEN "insertCAS"
                          ELSE IF algorithm = "A" THEN "insert" ELSE "insertRecheck"
         /\ pc'[t] = "eraseLock" => absPc'[t] = "eraseCAS"
         /\ pc'[t] = "eraseLocked" =>
              absPc'[t] = IF algorithm = "B" \/ data[Here(t)] = key[t]
                          THEN "eraseCAS" ELSE "erase"
<1>1. data[Here(t)]' = data[Here(t)]
  BY Zenon
<1>2. absPc'[t] =
        IF pc'[t] = "insertLock" THEN "insertCAS"
        ELSE IF pc'[t] = "insertLocked"
             THEN IF data[Here(t)]' = EMPTY THEN "insertCAS"
                  ELSE IF algorithm = "A" THEN "insert" ELSE "insertRecheck"
        ELSE IF pc'[t] = "eraseLock" THEN "eraseCAS"
        ELSE IF pc'[t] = "eraseLocked"
             THEN IF algorithm = "B" \/ data[Here(t)]' = key[t] THEN "eraseCAS" ELSE "erase"
        ELSE pc'[t]
  BY DEF absPc, Here, Slot
<1> QED
  BY <1>1, <1>2

(* The holder of a bucket's lock changes that bucket and leaves. *)
LEMMA LeaveHere ==
  ASSUME EitherInv, NEW t \in Threads, pc[t] \in {"insertLocked", "eraseLocked"},
         NEW r, NEW v, Leave(t, r, [data EXCEPT ![Here(t)] = v]), algorithm' = algorithm
  PROVE  C!Leave(t, r, [data EXCEPT ![C!Here(t)] = v])
<1>1. Held(t) = {Here(t)}
  BY DEF EitherInv, HoldsRight
<1>2. \A b \in Buckets : b \notin Held(t) => [data EXCEPT ![Here(t)] = v][b] = data[b]
  BY <1>1, TypesNow
<1>3. C!Leave(t, r, [data EXCEPT ![Here(t)] = v])
  BY <1>2, LeaveIsLeave
<1> QED
  BY <1>3, SameTable

LEMMA LeaveAsIs ==
  ASSUME EitherInv, NEW t \in Threads, NEW r, Leave(t, r, data), algorithm' = algorithm
  PROVE  C!Leave(t, r, data)
BY LeaveIsLeave

(* Algorithm A's steps in C. *)
LEMMA InsertOfA ==
  ASSUME EitherInv, NEW t \in Threads, algorithm = "A", algorithm' = algorithm,
         InsertLock(t) \/ InsertLocked(t)
  PROVE  C!Step(t) \/ UNCHANGED C!tableVars
<1> USE SameTable
<1>1. CASE InsertLock(t)
  <2>1. pc[t] = "insert" /\ Goto(t, "insertLocked")
    BY <1>1 DEF InsertLock
  <2>2. /\ C!Goto(t, absPc'[t])
        /\ absPc'[t] = absPc[t] => UNCHANGED C!tableVars
        /\ pc'[t] = "insertLocked" /\ Here(t)' = Here(t)
    BY <2>1, MoveIsGoto DEF Goto
  <2>3. /\ absPc[t] = "insert"
        /\ absPc'[t] = IF data[Here(t)] = EMPTY THEN "insertCAS" ELSE "insert"
    BY <2>1, <2>2, SamePlace, LockedPlaceLater DEF Goto
  <2>4. data[Here(t)] = EMPTY => C!InsertRead(t)
    BY <2>2, <2>3 DEF C!InsertRead
  <2> QED
    BY <2>2, <2>3, <2>4 DEF C!Step
<1>2. CASE InsertLocked(t)
  <2>1. /\ pc[t] = "insertLocked"
        /\ absPc[t] = IF data[Here(t)] = EMPTY THEN "insertCAS" ELSE "insert"
    BY <1>2, LockedPlace DEF InsertLocked
  <2>2. CASE data[Here(t)] = key[t] /\ Leave(t, FALSE, data)
    <3>1. op[t] = "insert" /\ key[t] \in Keys
      BY <2>1, LocalsNow
    <3>2. data[Here(t)] # EMPTY
      BY <2>2, <3>1, TableAssumption DEF EMPTY
    <3>3. C!InsertRead(t)
      BY <2>1, <2>2, <3>2, LeaveAsIs DEF C!InsertRead
    <3> QED
      BY <3>3 DEF C!Step
  <2>3. CASE /\ data[Here(t)] = EMPTY
             /\ Leave(t, TRUE, [data EXCEPT ![Here(t)] = key[t]])
    <3>1. C!InsertCAS(t)
      BY <2>1, <2>3, LeaveHere DEF C!InsertCAS
    <3> QED
      BY <3>1 DEF C!Step
  <2>4. CASE data[Here(t)] \notin {key[t], EMPTY} /\ Advance(t, "insert")
    <3>1. C!InsertRead(t)
      BY <2>1, <2>4, AdvanceIsAdvance DEF C!InsertRead
    <3> QED
      BY <3>1 DEF C!Step
  <2> QED
    BY <1>2, <2>2, <2>3, <2>4 DEF InsertLocked
<1> QED
  BY <1>1, <1>2

LEMMA EraseOfA ==
  ASSUME EitherInv, NEW t \in Threads, algorithm = "A", algorithm' = algorithm,
         EraseLock(t) \/ EraseLocked(t)
  PROVE  C!Step(t) \/ UNCHANGED C!tableVars
<1> USE SameTable
<1>1. CASE EraseLock(t)
  <2>1. pc[t] = "erase" /\ Goto(t, "eraseLocked")
    BY <1>1 DEF EraseLock
  <2>2. /\ C!Goto(t, absPc'[t])
        /\ absPc'[t] = absPc[t] => UNCHANGED C!tableVars
        /\ pc'[t] = "eraseLocked" /\ Here(t)' = Here(t)
    BY <2>1, MoveIsGoto DEF Goto
  <2>3. /\ absPc[t] = "erase"
        /\ absPc'[t] = IF data[Here(t)] = key[t] THEN "eraseCAS" ELSE "erase"
    BY <2>1, <2>2, SamePlace, LockedPlaceLater DEF Goto
  <2>4. data[Here(t)] = key[t] => C!EraseRead(t)
    BY <2>2, <2>3 DEF C!EraseRead
  <2> QED
    BY <2>2, <2>3, <2>4 DEF C!Step
<1>2. CASE EraseLocked(t)
  <2>1. /\ pc[t] = "eraseLocked"
        /\ absPc[t] = IF data[Here(t)] = key[t] THEN "eraseCAS" ELSE "erase"
    BY <1>2, LockedPlace DEF EraseLocked
  <2>2. CASE data[Here(t)] = EMPTY /\ Leave(t, FALSE, data)
    <3>1. op[t] = "erase" /\ key[t] \in Keys
      BY <2>1, LocalsNow
    <3>2. data[Here(t)] # key[t]
      BY <2>2, <3>1, TableAssumption DEF EMPTY
    <3>3. C!EraseRead(t)
      BY <2>1, <2>2, <3>2, LeaveAsIs DEF C!EraseRead
    <3> QED
      BY <3>3 DEF C!Step
  <2>3. CASE /\ data[Here(t)] = key[t]
             /\ Leave(t, TRUE, [data EXCEPT ![Here(t)] = TOMBSTONE])
    <3>1. C!EraseCAS(t)
      BY <2>1, <2>3, LeaveHere DEF C!EraseCAS
    <3> QED
      BY <3>1 DEF C!Step
  <2>4. CASE data[Here(t)] \notin {key[t], EMPTY} /\ Advance(t, "erase")
    <3>1. C!EraseRead(t)
      BY <2>1, <2>4, AdvanceIsAdvance DEF C!EraseRead
    <3> QED
      BY <3>1 DEF C!Step
  <2> QED
    BY <1>2, <2>2, <2>3, <2>4 DEF EraseLocked
<1> QED
  BY <1>1, <1>2

(* Algorithm B's steps in C. *)
LEMMA InsertOfB ==
  ASSUME EitherInv, NEW t \in Threads, algorithm = "B", algorithm' = algorithm,
         AlgB!InsertRead(t) \/ AlgB!InsertLock(t) \/ AlgB!InsertLocked(t)
  PROVE  C!Step(t) \/ UNCHANGED C!tableVars
<1> USE SameTable, SameActions, SameAdvance
<1>1. CASE AlgB!InsertRead(t)
  <2>1. pc[t] = "insert" /\ absPc[t] = "insert"
    BY <1>1, SamePlace DEF AlgB!InsertRead
  <2>2. CASE data[Here(t)] = key[t] /\ Leave(t, FALSE, data)
    <3>1. C!InsertRead(t)
      BY <2>1, <2>2, LeaveAsIs DEF C!InsertRead
    <3> QED
      BY <3>1 DEF C!Step
  <2>3. CASE data[Here(t)] = EMPTY /\ Goto(t, "insertLock")
    <3>1. C!Goto(t, absPc'[t]) /\ pc'[t] = "insertLock" /\ Here(t)' = Here(t)
      BY <2>3, MoveIsGoto DEF Goto
    <3>2. absPc'[t] = "insertCAS"
      BY <2>3, <3>1, LockedPlaceLater DEF Goto
    <3>3. C!InsertRead(t)
      BY <2>1, <2>3, <3>1, <3>2 DEF C!InsertRead
    <3> QED
      BY <3>3 DEF C!Step
  <2>4. CASE data[Here(t)] \notin {key[t], EMPTY} /\ Advance(t, "insert")
    <3>1. C!InsertRead(t)
      BY <2>1, <2>4, AdvanceIsAdvance DEF C!InsertRead
    <3> QED
      BY <3>1 DEF C!Step
  <2> QED
    BY <1>1, <2>2, <2>3, <2>4 DEF AlgB!InsertRead
<1>2. CASE AlgB!InsertLock(t)
  <2>1. pc[t] = "insertLock" /\ Goto(t, "insertLocked")
    BY <1>2 DEF AlgB!InsertLock
  <2>2. /\ C!Goto(t, absPc'[t])
        /\ absPc'[t] = absPc[t] => UNCHANGED C!tableVars
        /\ pc'[t] = "insertLocked" /\ Here(t)' = Here(t)
    BY <2>1, MoveIsGoto DEF Goto
  <2>3. /\ absPc[t] = "insertCAS"
        /\ absPc'[t] = IF data[Here(t)] = EMPTY THEN "insertCAS" ELSE "insertRecheck"
    BY <2>1, <2>2, LockedPlace, LockedPlaceLater DEF Goto
  <2>4. data[Here(t)] # EMPTY => C!InsertCAS(t)
    BY <2>2, <2>3 DEF C!InsertCAS
  <2> QED
    BY <2>2, <2>3, <2>4 DEF C!Step
<1>3. CASE AlgB!InsertLocked(t)
  <2>1. /\ pc[t] = "insertLocked"
        /\ absPc[t] = IF data[Here(t)] = EMPTY THEN "insertCAS" ELSE "insertRecheck"
    BY <1>3, LockedPlace DEF AlgB!InsertLocked
  <2>2. CASE /\ data[Here(t)] = EMPTY
             /\ Leave(t, TRUE, [data EXCEPT ![Here(t)] = key[t]])
    <3>1. C!InsertCAS(t)
      BY <2>1, <2>2, LeaveHere DEF C!InsertCAS
    <3> QED
      BY <3>1 DEF C!Step
  <2>3. CASE data[Here(t)] = key[t] /\ Leave(t, FALSE, data)
    <3>1. op[t] = "insert" /\ key[t] \in Keys
      BY <2>1, LocalsNow
    <3>2. data[Here(t)] # EMPTY
      BY <2>3, <3>1, TableAssumption DEF EMPTY
    <3>3. C!InsertRecheck(t)
      BY <2>1, <2>3, <3>2, LeaveAsIs DEF C!InsertRecheck
    <3> QED
      BY <3>3 DEF C!Step
  <2>4. CASE data[Here(t)] \notin {key[t], EMPTY} /\ Advance(t, "insert")
    <3>1. C!InsertRecheck(t)
      BY <2>1, <2>4, AdvanceIsAdvance DEF C!InsertRecheck
    <3> QED
      BY <3>1 DEF C!Step
  <2> QED
    BY <1>3, <2>2, <2>3, <2>4 DEF AlgB!InsertLocked
<1> QED
  BY <1>1, <1>2, <1>3

LEMMA EraseOfB ==
  ASSUME EitherInv, NEW t \in Threads, algorithm = "B", algorithm' = algorithm,
         AlgB!EraseRead(t) \/ AlgB!EraseLock(t) \/ AlgB!EraseLocked(t)
  PROVE  C!Step(t) \/ UNCHANGED C!tableVars
<1> USE SameTable, SameActions, SameAdvance
<1>1. CASE AlgB!EraseRead(t)
  <2>1. pc[t] = "erase" /\ absPc[t] = "erase"
    BY <1>1, SamePlace DEF AlgB!EraseRead
  <2>2. CASE data[Here(t)] = EMPTY /\ Leave(t, FALSE, data)
    <3>1. C!EraseRead(t)
      BY <2>1, <2>2, LeaveAsIs DEF C!EraseRead
    <3> QED
      BY <3>1 DEF C!Step
  <2>3. CASE data[Here(t)] = key[t] /\ Goto(t, "eraseLock")
    <3>1. C!Goto(t, absPc'[t]) /\ pc'[t] = "eraseLock" /\ Here(t)' = Here(t)
      BY <2>3, MoveIsGoto DEF Goto
    <3>2. absPc'[t] = "eraseCAS"
      BY <2>3, <3>1, LockedPlaceLater DEF Goto
    <3>3. C!EraseRead(t)
      BY <2>1, <2>3, <3>1, <3>2 DEF C!EraseRead
    <3> QED
      BY <3>3 DEF C!Step
  <2>4. CASE data[Here(t)] \notin {key[t], EMPTY} /\ Advance(t, "erase")
    <3>1. C!EraseRead(t)
      BY <2>1, <2>4, AdvanceIsAdvance DEF C!EraseRead
    <3> QED
      BY <3>1 DEF C!Step
  <2> QED
    BY <1>1, <2>2, <2>3, <2>4 DEF AlgB!EraseRead
<1>2. CASE AlgB!EraseLock(t)
  <2>1. pc[t] = "eraseLock" /\ Goto(t, "eraseLocked")
    BY <1>2 DEF AlgB!EraseLock
  <2>2. /\ absPc'[t] = absPc[t] => UNCHANGED C!tableVars
        /\ pc'[t] = "eraseLocked" /\ Here(t)' = Here(t)
    BY <2>1, MoveIsGoto DEF Goto
  <2>3. absPc[t] = "eraseCAS" /\ absPc'[t] = "eraseCAS"
    BY <2>1, <2>2, LockedPlace, LockedPlaceLater DEF Goto
  <2> QED
    BY <2>2, <2>3
<1>3. CASE AlgB!EraseLocked(t)
  <2>1. pc[t] = "eraseLocked" /\ absPc[t] = "eraseCAS"
    BY <1>3, LockedPlace DEF AlgB!EraseLocked
  <2>2. CASE /\ data[Here(t)] = key[t]
             /\ Leave(t, TRUE, [data EXCEPT ![Here(t)] = TOMBSTONE])
    <3>1. C!EraseCAS(t)
      BY <2>1, <2>2, LeaveHere DEF C!EraseCAS
    <3> QED
      BY <3>1 DEF C!Step
  <2>3. CASE data[Here(t)] = TOMBSTONE /\ Leave(t, FALSE, data)
    <3>1. op[t] = "erase" /\ key[t] \in Keys
      BY <2>1, LocalsNow
    <3>2. data[Here(t)] # key[t]
      BY <2>3, <3>1, TableAssumption DEF TOMBSTONE
    <3>3. C!EraseCAS(t)
      BY <2>1, <2>3, <3>2, LeaveAsIs DEF C!EraseCAS
    <3> QED
      BY <3>3 DEF C!Step
  <2> QED
    BY <1>3, <2>2, <2>3 DEF AlgB!EraseLocked
<1> QED
  BY <1>1, <1>2, <1>3

-----------------------------------------------------------------------------
(* Every step of A or B is a step of C or changes nothing in C. *)
LEMMA CallIsCall ==
  ASSUME EitherInv, NEW t \in Threads, algorithm' = algorithm, NEW k \in Keys,
         Enter(t, "insert", k, "insert") \/ Enter(t, "erase", k, "erase")
  PROVE  C!CallStep(t)
<1>1. C!InsertCall(t, k) \/ C!EraseCall(t, k)
  BY EnterIsEnter DEF C!InsertCall, C!EraseCall
<1> QED
  BY <1>1 DEF C!CallStep

LEMMA StepOfThread ==
  ASSUME EitherInv, NEW t \in Threads, algorithm' = algorithm,
         \/ algorithm = "A" /\ (CallStep(t) \/ Step(t))
         \/ algorithm = "B" /\ (AlgB!CallStep(t) \/ AlgB!Step(t))
  PROVE  C!CallStep(t) \/ C!Step(t) \/ UNCHANGED C!tableVars
<1>1. CASE algorithm = "A" /\ CallStep(t)
  <2>1. CASE SumCall(t)
    BY <2>1, SumsAreSums
  <2>2. CASE \E k \in Keys : InsertCall(t, k) \/ EraseCall(t, k)
    BY <2>2, CallIsCall DEF InsertCall, EraseCall
  <2> QED
    BY <1>1, <2>1, <2>2 DEF CallStep
<1>2. CASE algorithm = "A" /\ Step(t)
  BY <1>2, InsertOfA, EraseOfA, SumsAreSums DEF Step
<1>3. CASE algorithm = "B" /\ AlgB!CallStep(t)
  <2>1. CASE AlgB!SumCall(t)
    BY <2>1, SameSums, SumsAreSums
  <2>2. CASE \E k \in Keys : AlgB!InsertCall(t, k) \/ AlgB!EraseCall(t, k)
    BY <2>2, SameActions, CallIsCall DEF AlgB!InsertCall, AlgB!EraseCall
  <2> QED
    BY <1>3, <2>1, <2>2 DEF AlgB!CallStep
<1>4. CASE algorithm = "B" /\ AlgB!Step(t)
  BY <1>4, InsertOfB, EraseOfB, SameSums, SumsAreSums DEF AlgB!Step
<1> QED
  BY <1>1, <1>2, <1>3, <1>4

LEMMA StepIsStep == EitherInv /\ [EitherNext]_eitherVars => [C!Next]_(C!tableVars)
<1> SUFFICES ASSUME EitherInv, [EitherNext]_eitherVars
             PROVE  [C!Next]_(C!tableVars)
  OBVIOUS
<1>1. CASE EitherNext
  <2>1. /\ algorithm' = algorithm
        /\ \/ algorithm = "A" /\ Next
           \/ algorithm = "B" /\ AlgB!Next
    BY <1>1 DEF EitherNext, Run
  <2>2. PICK t \in Threads :
          \/ algorithm = "A" /\ (CallStep(t) \/ Step(t))
          \/ algorithm = "B" /\ (AlgB!CallStep(t) \/ AlgB!Step(t))
    BY <2>1 DEF Next, AlgB!Next
  <2>3. C!CallStep(t) \/ C!Step(t) \/ UNCHANGED C!tableVars
    BY <2>1, <2>2, StepOfThread
  <2> QED
    BY <2>3 DEF C!Next
<1>2. CASE UNCHANGED eitherVars
  <2>1. UNCHANGED <<data, pc, op, key, i, sum, result, seen, algorithm>>
    BY <1>2 DEF eitherVars, lockVars, tableVars
  <2>2. absPc' = absPc
    BY <2>1 DEF absPc, Here, Slot
  <2> QED
    BY <2>1, <2>2 DEF C!tableVars
<1> QED
  BY <1>1, <1>2

-----------------------------------------------------------------------------
(* What a step of thread t does to the locks and to the others. *)
Others(t) ==
  \A u \in Threads \ {t} :
    pc'[u] = pc[u] /\ key'[u] = key[u] /\ i'[u] = i[u] /\ Held(u)' = Held(u)

Keeps(t) == LocksTypeOK' /\ HoldsRight(t)' /\ FoundKey(t)' /\ Others(t)

LEMMA AcquireHeld ==
  ASSUME LocksTypeOK, NEW t \in Threads, NEW b \in Buckets, Acquire(t, b)
  PROVE  /\ lock' \in [Buckets -> Threads \cup {Nobody}]
         /\ Held(t)' = Held(t) \cup {b}
         /\ \A u \in Threads \ {t} : Held(u)' = Held(u)
<1>1. /\ lock' = [lock EXCEPT ![b] = t] /\ lock[b] = Nobody /\ Nobody \notin Threads
      /\ lock \in [Buckets -> Threads \cup {Nobody}]
  BY LockAssumption DEF Acquire, LocksTypeOK
<1>2. /\ lock' \in [Buckets -> Threads \cup {Nobody}]
      /\ \A c \in Buckets : lock'[c] = IF c = b THEN t ELSE lock[c]
  BY <1>1
<1>3. \A u : /\ Held(u) = {c \in Buckets : lock[c] = u}
             /\ Held(u)' = {c \in Buckets : lock'[c] = u}
  BY DEF Held, Buckets
<1> QED
  BY <1>1, <1>2, <1>3

LEMMA ReleaseHeld ==
  ASSUME LocksTypeOK, NEW t \in Threads, NEW b \in Held(t), Release(t, b)
  PROVE  /\ lock' \in [Buckets -> Threads \cup {Nobody}]
         /\ Held(t)' = Held(t) \ {b}
         /\ \A u \in Threads \ {t} : Held(u)' = Held(u)
<1>1. /\ lock' = [lock EXCEPT ![b] = Nobody] /\ lock[b] = t /\ Nobody \notin Threads
      /\ lock \in [Buckets -> Threads \cup {Nobody}] /\ b \in Buckets
  BY LockAssumption DEF Release, LocksTypeOK, Held
<1>2. /\ lock' \in [Buckets -> Threads \cup {Nobody}]
      /\ \A c \in Buckets : lock'[c] = IF c = b THEN Nobody ELSE lock[c]
  BY <1>1
<1>3. \A u : /\ Held(u) = {c \in Buckets : lock[c] = u}
             /\ Held(u)' = {c \in Buckets : lock'[c] = u}
  BY DEF Held, Buckets
<1> QED
  BY <1>1, <1>2, <1>3

LEMMA SameHeld ==
  ASSUME EitherInv, lock' = lock
  PROVE  lock' \in [Buckets -> Threads \cup {Nobody}] /\ \A u : Held(u)' = Held(u)
<1>1. \A u : Held(u)' = Held(u)
  BY DEF Held, Buckets
<1> QED
  BY <1>1 DEF EitherInv, LocksTypeOK

LEMMA MinOfInterval ==
  ASSUME NEW a \in Int, NEW b \in Int, a <= b
  PROVE  Min(a .. b) = a
<1>1. a \in a .. b /\ \A y \in a .. b : a <= y
  OBVIOUS
<1>2. \A x \in a .. b : (\A y \in a .. b : x <= y) => x = a
  BY <1>1
<1> QED
  BY <1>1, <1>2 DEF Min

(* Where the steps take a thread. *)
LEMMA LeaveMoves ==
  ASSUME EitherInv, NEW t \in Threads, NEW r, NEW d, Leave(t, r, d)
  PROVE  /\ pc' \in [Threads -> Places] /\ pc'[t] = "idle"
         /\ \A u \in Threads \ {t} : pc'[u] = pc[u] /\ key'[u] = key[u] /\ i'[u] = i[u]
<1>1. /\ pc' = [pc EXCEPT ![t] = "idle"] /\ key' = [key EXCEPT ![t] = 0]
      /\ i' = [i EXCEPT ![t] = 0]
  BY DEF Leave
<1> QED
  BY <1>1, TypesNow DEF EitherInv, LocksTypeOK, Places

LEMMA GotoMoves ==
  ASSUME EitherInv, NEW t \in Threads, NEW p \in Places, Goto(t, p)
  PROVE  /\ pc' \in [Threads -> Places] /\ pc'[t] = p
         /\ data' = data /\ key' = key /\ Here(t)' = Here(t)
         /\ \A u \in Threads \ {t} : pc'[u] = pc[u] /\ key'[u] = key[u] /\ i'[u] = i[u]
<1>1. pc' = [pc EXCEPT ![t] = p] /\ UNCHANGED <<data, key, i>>
  BY DEF Goto
<1>2. Here(t)' = Here(t)
  BY <1>1 DEF Here, Slot
<1> QED
  BY <1>1, <1>2 DEF EitherInv, LocksTypeOK

LEMMA AdvanceMoves ==
  ASSUME EitherInv, NEW t \in Threads, NEW p \in {"insert", "erase"}, Advance(t, p)
  PROVE  /\ pc' \in [Threads -> Places] /\ pc'[t] \in {"idle", p}
         /\ \A u \in Threads \ {t} : pc'[u] = pc[u] /\ key'[u] = key[u] /\ i'[u] = i[u]
<1>1. CASE Leave(t, FALSE, data)
  BY <1>1, LeaveMoves
<1>2. CASE i' = [i EXCEPT ![t] = @ + 1] /\ pc' = [pc EXCEPT ![t] = p] /\ key' = key
  BY <1>2, TypesNow DEF EitherInv, LocksTypeOK, Places
<1> QED
  BY <1>1, <1>2 DEF Advance

LEMMA HoldsNothing ==
  ASSUME NEW t \in Threads, Held(t)' = {},
         pc'[t] \in {"idle", "insert", "insertLock", "erase", "eraseLock"}
  PROVE  HoldsRight(t)'
BY DEF HoldsRight

-----------------------------------------------------------------------------
(* The calls. *)
LEMMA EnterKeeps ==
  ASSUME EitherInv, NEW t \in Threads, NEW o, NEW k, NEW p \in {"insert", "erase", "sum"},
         Enter(t, o, k, p), UNCHANGED <<lock, algorithm>>
  PROVE  Keeps(t)
<1>1. /\ pc[t] = "idle" /\ pc' = [pc EXCEPT ![t] = p] /\ key' = [key EXCEPT ![t] = k]
      /\ i' = i
  BY DEF Enter
<1>2. /\ pc' \in [Threads -> Places] /\ pc'[t] = p
      /\ \A u \in Threads \ {t} : pc'[u] = pc[u] /\ key'[u] = key[u] /\ i'[u] = i[u]
  BY <1>1, TypesNow DEF EitherInv, LocksTypeOK, Places
<1>3. i[t] = 0
  BY <1>1, LocalsNow DEF EitherInv, C!IInv, C!LocalsOK
<1>4. Held(t)' = {} /\ \A u \in Threads \ {t} : Held(u)' = Held(u)
  BY <1>1, SameHeld DEF EitherInv, HoldsRight
<1>5. HoldsRight(t)'
  <2>1. CASE p = "sum"
    <3>1. Held(t)' = 0 .. i'[t] - 1 /\ 0 \in 0 .. Cap
      BY <1>1, <1>3, <1>4, TableAssumption
    <3> QED
      BY <1>2, <2>1, <3>1 DEF HoldsRight
  <2>2. CASE p # "sum"
    BY <1>2, <1>4, <2>2, HoldsNothing
  <2> QED
    BY <2>1, <2>2
<1>6. FoundKey(t)'
  BY <1>2 DEF FoundKey
<1>7. LocksTypeOK'
  BY <1>2, SameHeld DEF EitherInv, LocksTypeOK
<1> QED
  BY <1>2, <1>4, <1>5, <1>6, <1>7 DEF Keeps, Others

(* A probe takes the lock of its bucket. *)
LEMMA LockKeeps ==
  ASSUME EitherInv, NEW t \in Threads, algorithm' = algorithm, Acquire(t, Here(t)),
         NEW p \in {"insertLocked", "eraseLocked"}, Goto(t, p),
         pc[t] \in {"insert", "insertLock", "erase", "eraseLock"},
         algorithm = "B" /\ p = "eraseLocked" => pc[t] = "eraseLock"
  PROVE  Keeps(t)
<1>1. Here(t) \in Buckets /\ Held(t) = {}
  BY LocalsNow DEF EitherInv, HoldsRight
<1>2. /\ lock' \in [Buckets -> Threads \cup {Nobody}] /\ Held(t)' = {Here(t)}
      /\ \A u \in Threads \ {t} : Held(u)' = Held(u)
  BY <1>1, AcquireHeld DEF EitherInv
<1>3. p \in Places
  BY DEF Places
<1>4. /\ pc' \in [Threads -> Places] /\ pc'[t] = p
      /\ data' = data /\ key' = key /\ Here(t)' = Here(t)
      /\ \A u \in Threads \ {t} : pc'[u] = pc[u] /\ key'[u] = key[u] /\ i'[u] = i[u]
  BY <1>3, GotoMoves
<1>5. HoldsRight(t)'
  BY <1>2, <1>4 DEF HoldsRight
<1>6. FoundKey(t)'
  <2>1. algorithm = "B" /\ p = "eraseLocked" => data[Here(t)] \in {key[t], TOMBSTONE}
    BY DEF EitherInv, FoundKey
  <2>2. data[Here(t)]' = data[Here(t)] /\ key[t]' = key[t] /\ pc[t]' = p
    BY <1>4
  <2> QED
    BY <2>1, <2>2 DEF FoundKey, TOMBSTONE
<1>7. LocksTypeOK'
  BY <1>2, <1>4 DEF EitherInv, LocksTypeOK
<1> QED
  BY <1>2, <1>4, <1>5, <1>6, <1>7 DEF Keeps, Others

(* A probe gives its lock back: it ends the operation or goes on. *)
LEMMA UnlockKeeps ==
  ASSUME EitherInv, NEW t \in Threads, algorithm' = algorithm, Release(t, Here(t)),
         pc[t] \in {"insertLocked", "eraseLocked"}, pc' \in [Threads -> Places],
         pc'[t] \in {"idle", "insert", "erase"},
         \A u \in Threads \ {t} : pc'[u] = pc[u] /\ key'[u] = key[u] /\ i'[u] = i[u]
  PROVE  Keeps(t)
<1>1. Held(t) = {Here(t)}
  BY DEF EitherInv, HoldsRight
<1>2. /\ lock' \in [Buckets -> Threads \cup {Nobody}] /\ Held(t)' = {}
      /\ \A u \in Threads \ {t} : Held(u)' = Held(u)
  BY <1>1, ReleaseHeld DEF EitherInv
<1>3. HoldsRight(t)'
  BY <1>2, HoldsNothing
<1>4. FoundKey(t)'
  BY DEF FoundKey
<1>5. LocksTypeOK'
  BY <1>2 DEF EitherInv, LocksTypeOK
<1> QED
  BY <1>2, <1>3, <1>4, <1>5 DEF Keeps, Others

(* A step without the locks, by a thread that holds none. *)
LEMMA QuietKeeps ==
  ASSUME EitherInv, NEW t \in Threads, UNCHANGED <<lock, algorithm>>, Held(t) = {},
         pc' \in [Threads -> Places],
         pc'[t] \in {"idle", "insert", "insertLock", "erase", "eraseLock"},
         \A u \in Threads \ {t} : pc'[u] = pc[u] /\ key'[u] = key[u] /\ i'[u] = i[u],
         FoundKey(t)'
  PROVE  Keeps(t)
<1>1. Held(t)' = {} /\ \A u \in Threads \ {t} : Held(u)' = Held(u)
  BY SameHeld
<1>2. HoldsRight(t)'
  BY <1>1, HoldsNothing
<1>3. LocksTypeOK'
  BY SameHeld DEF EitherInv, LocksTypeOK
<1> QED
  BY <1>1, <1>2, <1>3 DEF Keeps, Others

(* getSumOfKeys takes all locks from the first, and gives them back in the *)
(* same order.                                                             *)
LEMMA SumLockKeeps ==
  ASSUME EitherInv, NEW t \in Threads, algorithm' = algorithm, SumLock(t)
  PROVE  Keeps(t)
<1>1. /\ pc[t] = "sum" /\ i[t] < Cap /\ Acquire(t, i[t]) /\ pc' = pc /\ key' = key
      /\ i' = [i EXCEPT ![t] = @ + 1]
  BY DEF SumLock, AddBucket
<1>2. i[t] \in 0 .. Cap - 1 /\ Cap \in Nat
  BY <1>1, TypesNow, TableAssumption
<1>3. i'[t] = i[t] + 1 /\ \A u \in Threads \ {t} : i'[u] = i[u]
  BY <1>1, TypesNow
<1>4. Held(t) = 0 .. i[t] - 1
  BY <1>1 DEF EitherInv, HoldsRight
<1>5. /\ lock' \in [Buckets -> Threads \cup {Nobody}] /\ Held(t)' = Held(t) \cup {i[t]}
      /\ \A u \in Threads \ {t} : Held(u)' = Held(u)
  BY <1>1, <1>2, AcquireHeld DEF EitherInv, Buckets
<1>6. HoldsRight(t)'
  <2>1. Held(t)' = 0 .. i'[t] - 1
    BY <1>2, <1>3, <1>4, <1>5
  <2>2. 0 \in 0 .. Cap
    BY <1>2
  <2> QED
    BY <1>1, <2>1, <2>2 DEF HoldsRight
<1>7. FoundKey(t)'
  BY <1>1 DEF FoundKey
<1>8. LocksTypeOK'
  BY <1>1, <1>5 DEF EitherInv, LocksTypeOK
<1> QED
  BY <1>1, <1>3, <1>5, <1>6, <1>7, <1>8 DEF Keeps, Others

LEMMA SumUnlockKeeps ==
  ASSUME EitherInv, NEW t \in Threads, algorithm' = algorithm, SumUnlock(t)
  PROVE  Keeps(t)
<1>1. /\ pc[t] = "sum" /\ i[t] = Cap /\ Held(t) # {} /\ Release(t, Min(Held(t)))
      /\ UNCHANGED <<data, pc, key, i>>
  BY DEF SumUnlock, tableVars
<1>2. Cap \in Nat
  BY TableAssumption
<1>3. PICK j \in 0 .. Cap : Held(t) = j .. Cap - 1
  BY <1>1 DEF EitherInv, HoldsRight
<1>4. j \in Int /\ j <= Cap - 1 /\ j + 1 \in 0 .. Cap
  BY <1>1, <1>2, <1>3
<1>5. Min(Held(t)) = j /\ j \in Held(t)
  BY <1>2, <1>3, <1>4, MinOfInterval
<1>6. /\ lock' \in [Buckets -> Threads \cup {Nobody}] /\ Held(t)' = Held(t) \ {j}
      /\ \A u \in Threads \ {t} : Held(u)' = Held(u)
  BY <1>1, <1>5, ReleaseHeld DEF EitherInv
<1>7. HoldsRight(t)'
  <2>1. Held(t)' = j + 1 .. i'[t] - 1
    BY <1>1, <1>2, <1>3, <1>4, <1>6
  <2>2. ~ (i'[t] < Cap)
    BY <1>1, <1>2
  <2> QED
    BY <1>1, <1>4, <2>1, <2>2 DEF HoldsRight
<1>8. FoundKey(t)'
  BY <1>1 DEF FoundKey
<1>9. LocksTypeOK'
  BY <1>1, <1>6 DEF EitherInv, LocksTypeOK
<1> QED
  BY <1>1, <1>6, <1>7, <1>8, <1>9 DEF Keeps, Others

LEMMA SumsKeep ==
  ASSUME EitherInv, NEW t \in Threads, algorithm' = algorithm,
         SumCall(t) \/ SumLock(t) \/ SumUnlock(t) \/ SumReturn(t)
  PROVE  Keeps(t)
<1>1. CASE SumCall(t)
  BY <1>1, EnterKeeps DEF SumCall
<1>2. CASE SumReturn(t)
  <2>1. Leave(t, result[t], data) /\ lock' = lock /\ Held(t) = {}
    BY <1>2 DEF SumReturn
  <2>2. /\ pc' \in [Threads -> Places] /\ pc'[t] = "idle"
        /\ \A u \in Threads \ {t} : pc'[u] = pc[u] /\ key'[u] = key[u] /\ i'[u] = i[u]
    BY <2>1, LeaveMoves
  <2>3. FoundKey(t)'
    BY <2>2 DEF FoundKey
  <2> QED
    BY <2>1, <2>2, <2>3, QuietKeeps
<1> QED
  BY <1>1, <1>2, SumLockKeeps, SumUnlockKeeps

(* The updates of A and B. *)
LEMMA UpdatesOfAKeep ==
  ASSUME EitherInv, NEW t \in Threads, algorithm' = algorithm, algorithm = "A",
         InsertLock(t) \/ InsertLocked(t) \/ EraseLock(t) \/ EraseLocked(t)
  PROVE  Keeps(t)
<1>1. CASE InsertLock(t)
  BY <1>1, LockKeeps DEF InsertLock
<1>2. CASE EraseLock(t)
  BY <1>2, LockKeeps DEF EraseLock
<1>3. CASE InsertLocked(t) \/ EraseLocked(t)
  <2>1. /\ Release(t, Here(t)) /\ pc[t] \in {"insertLocked", "eraseLocked"}
        /\ \/ \E r, d : Leave(t, r, d)
           \/ \E p \in {"insert", "erase"} : Advance(t, p)
    BY <1>3 DEF InsertLocked, EraseLocked
  <2>2. /\ pc' \in [Threads -> Places] /\ pc'[t] \in {"idle", "insert", "erase"}
        /\ \A u \in Threads \ {t} : pc'[u] = pc[u] /\ key'[u] = key[u] /\ i'[u] = i[u]
    BY <2>1, LeaveMoves, AdvanceMoves
  <2> QED
    BY <2>1, <2>2, UnlockKeeps
<1> QED
  BY <1>1, <1>2, <1>3

LEMMA ReadsOfBKeep ==
  ASSUME EitherInv, NEW t \in Threads, algorithm' = algorithm, algorithm = "B",
         AlgB!InsertRead(t) \/ AlgB!EraseRead(t)
  PROVE  Keeps(t)
<1>1. pc[t] \in {"insert", "erase"} /\ lock' = lock
  BY DEF AlgB!InsertRead, AlgB!EraseRead
<1>2. Held(t) = {}
  BY <1>1 DEF EitherInv, HoldsRight
<1>3. CASE \/ \E r, d : Leave(t, r, d)
           \/ \E p \in {"insert", "erase"} : Advance(t, p)
  <2>1. /\ pc' \in [Threads -> Places] /\ pc'[t] \in {"idle", "insert", "erase"}
        /\ \A u \in Threads \ {t} : pc'[u] = pc[u] /\ key'[u] = key[u] /\ i'[u] = i[u]
    BY <1>3, LeaveMoves, AdvanceMoves
  <2>2. FoundKey(t)'
    BY <2>1 DEF FoundKey
  <2> QED
    BY <1>1, <1>2, <2>1, <2>2, QuietKeeps
<1>4. ASSUME NEW p \in {"insertLock", "eraseLock"}, Goto(t, p),
             p = "eraseLock" => data[Here(t)] = key[t]
      PROVE  Keeps(t)
  <2>1. p \in Places
    BY DEF Places
  <2>2. /\ pc' \in [Threads -> Places] /\ pc'[t] = p
        /\ data' = data /\ key' = key /\ Here(t)' = Here(t)
        /\ \A u \in Threads \ {t} : pc'[u] = pc[u] /\ key'[u] = key[u] /\ i'[u] = i[u]
    BY <1>4, <2>1, GotoMoves
  <2>3. FoundKey(t)'
    <3>1. data[Here(t)]' = data[Here(t)] /\ key[t]' = key[t] /\ pc[t]' = p
      BY <2>2
    <3> QED
      BY <1>4, <3>1 DEF FoundKey
  <2> QED
    BY <1>1, <1>2, <2>2, <2>3, QuietKeeps
<1>5. \/ \E r, d : Leave(t, r, d)
      \/ \E p \in {"insert", "erase"} : Advance(t, p)
      \/ Goto(t, "insertLock")
      \/ Goto(t, "eraseLock") /\ data[Here(t)] = key[t]
  BY SameActions, SameAdvance DEF AlgB!InsertRead, AlgB!EraseRead
<1> QED
  BY <1>3, <1>4, <1>5

LEMMA UpdatesOfBKeep ==
  ASSUME EitherInv, NEW t \in Threads, algorithm' = algorithm, algorithm = "B",
         \/ AlgB!InsertLock(t) \/ AlgB!InsertLocked(t)
         \/ AlgB!EraseLock(t) \/ AlgB!EraseLocked(t)
  PROVE  Keeps(t)
<1> USE SameActions, SameAdvance
<1>1. CASE AlgB!InsertLock(t)
  BY <1>1, LockKeeps DEF AlgB!InsertLock
<1>2. CASE AlgB!EraseLock(t)
  BY <1>2, LockKeeps DEF AlgB!EraseLock
<1>3. CASE AlgB!InsertLocked(t) \/ AlgB!EraseLocked(t)
  <2>1. /\ Release(t, Here(t)) /\ pc[t] \in {"insertLocked", "eraseLocked"}
        /\ \/ \E r, d : Leave(t, r, d)
           \/ \E p \in {"insert", "erase"} : Advance(t, p)
    BY <1>3 DEF AlgB!InsertLocked, AlgB!EraseLocked
  <2>2. /\ pc' \in [Threads -> Places] /\ pc'[t] \in {"idle", "insert", "erase"}
        /\ \A u \in Threads \ {t} : pc'[u] = pc[u] /\ key'[u] = key[u] /\ i'[u] = i[u]
    BY <2>1, LeaveMoves, AdvanceMoves
  <2> QED
    BY <2>1, <2>2, UnlockKeeps
<1> QED
  BY <1>1, <1>2, <1>3

LEMMA StepKeeps ==
  ASSUME EitherInv, NEW t \in Threads, algorithm' = algorithm,
         \/ algorithm = "A" /\ (CallStep(t) \/ Step(t))
         \/ algorithm = "B" /\ (AlgB!CallStep(t) \/ AlgB!Step(t))
  PROVE  Keeps(t)
<1>1. CASE algorithm = "A" /\ CallStep(t)
  BY <1>1, EnterKeeps, SumsKeep DEF CallStep, InsertCall, EraseCall
<1>2. CASE algorithm = "A" /\ Step(t)
  BY <1>2, UpdatesOfAKeep, SumsKeep DEF Step
<1>3. CASE algorithm = "B" /\ AlgB!CallStep(t)
  BY <1>3, SameActions, SameSums, EnterKeeps, SumsKeep
     DEF AlgB!CallStep, AlgB!InsertCall, AlgB!EraseCall
<1>4. CASE algorithm = "B" /\ AlgB!Step(t)
  BY <1>4, ReadsOfBKeep, UpdatesOfBKeep, SameSums, SumsKeep DEF AlgB!Step
<1> QED
  BY <1>1, <1>2, <1>3, <1>4

-----------------------------------------------------------------------------
(* A bucket only goes from empty to a key and from a key to a tombstone. *)
LEMMA BucketsAge ==
  ASSUME EitherInv, [C!Next]_(C!tableVars), NEW b \in Buckets
  PROVE  data'[b] = data[b] \/ data[b] = EMPTY \/ data'[b] = TOMBSTONE
<1> USE SameTable
<1>1. CASE UNCHANGED C!tableVars
  BY <1>1 DEF C!tableVars
<1>2. ASSUME NEW t \in Threads, C!CallStep(t) \/ C!Step(t)
      PROVE  data'[b] = data[b] \/ data[b] = EMPTY \/ data'[b] = TOMBSTONE
  <2>1. /\ \A r, d : C!Leave(t, r, d) => data' = d
        /\ \A o, k, p : C!Enter(t, o, k, p) => data' = data
        /\ \A p : C!Goto(t, p) => data' = data
        /\ C!AddBucket(t) => data' = data
    BY DEF C!Leave, C!Enter, C!Goto, C!AddBucket
  <2>2. \A p : C!Advance(t, p) => data' = data
    BY <2>1 DEF C!Advance
  <2>3. \/ data' = data
        \/ \E v : data[Here(t)] = EMPTY /\ data' = [data EXCEPT ![Here(t)] = v]
        \/ data' = [data EXCEPT ![Here(t)] = TOMBSTONE]
    <3>1. CASE C!CallStep(t)
      BY <2>1, <3>1 DEF C!CallStep, C!InsertCall, C!EraseCall, C!SumCall
    <3>2. CASE C!InsertRead(t) \/ C!InsertRecheck(t) \/ C!EraseRead(t)
      BY <2>1, <2>2, <3>2 DEF C!InsertRead, C!InsertRecheck, C!EraseRead
    <3>3. CASE C!InsertCAS(t)
      BY <2>1, <3>3 DEF C!InsertCAS
    <3>4. CASE C!EraseCAS(t)
      BY <2>1, <3>4 DEF C!EraseCAS
    <3>5. CASE C!SumRead(t) \/ C!SumReturn(t)
      BY <2>1, <3>5 DEF C!SumRead, C!SumReturn
    <3> QED
      BY <1>2, <3>1, <3>2, <3>3, <3>4, <3>5 DEF C!Step
  <2> QED
    BY <2>3, TypesNow
<1> QED
  BY <1>1, <1>2 DEF C!Next

LEMMA OthersKeep ==
  ASSUME EitherInv, [C!Next]_(C!tableVars), algorithm' = algorithm, NEW u \in Threads,
         pc'[u] = pc[u], key'[u] = key[u], i'[u] = i[u], Held(u)' = Held(u)
  PROVE  HoldsRight(u)' /\ FoundKey(u)'
<1>1. Here(u)' = Here(u)
  BY DEF Here, Slot
<1>2. HoldsRight(u)'
  BY <1>1 DEF EitherInv, HoldsRight
<1>3. FoundKey(u)'
  <2> SUFFICES ASSUME algorithm = "B", pc[u] \in {"eraseLock", "eraseLocked"}
               PROVE  data'[Here(u)] \in {key[u], TOMBSTONE}
    BY <1>1 DEF FoundKey, TOMBSTONE
  <2>1. key[u] \in Keys /\ Here(u) \in Buckets
    BY LocalsNow
  <2>2. data[Here(u)] \in {key[u], TOMBSTONE}
    BY DEF EitherInv, FoundKey
  <2>3. data[Here(u)] # EMPTY
    BY <2>1, <2>2, TableAssumption DEF EMPTY, TOMBSTONE
  <2>4. data'[Here(u)] = data[Here(u)] \/ data'[Here(u)] = TOMBSTONE
    BY <2>1, <2>3, BucketsAge
  <2> QED
    BY <2>2, <2>4
<1> QED
  BY <1>2, <1>3

LEMMA EitherInvInit == EitherInit => EitherInv /\ C!Init
<1> SUFFICES ASSUME EitherInit PROVE EitherInv /\ C!Init
  OBVIOUS
<1> USE DEF EitherInit, Init, LockInit, TableInit
<1>1. absPc = [t \in Threads |-> "idle"]
  BY DEF absPc, Here, Slot
<1>2. C!Init
  BY <1>1, SameTable DEF C!Init, C!TableInit
<1>3. C!IInv
  BY <1>2, C!InvInit, TableAssumption
<1>4. LocksTypeOK
  BY DEF LocksTypeOK, Places
<1>5. ASSUME NEW t \in Threads
      PROVE  HoldsRight(t) /\ FoundKey(t)
  BY LockAssumption DEF HoldsRight, FoundKey, Held
<1> QED
  BY <1>2, <1>3, <1>4, <1>5 DEF EitherInv

LEMMA EitherInvStep == EitherInv /\ [EitherNext]_eitherVars => EitherInv'
<1> SUFFICES ASSUME EitherInv, [EitherNext]_eitherVars
             PROVE  EitherInv'
  OBVIOUS
<1>1. [C!Next]_(C!tableVars)
  BY StepIsStep
<1>2. C!IInv'
  BY <1>1, C!InvStep, TableAssumption DEF EitherInv
<1>3. CASE EitherNext
  <2>1. /\ algorithm' = algorithm
        /\ \/ algorithm = "A" /\ Next
           \/ algorithm = "B" /\ AlgB!Next
    BY <1>3 DEF EitherNext, Run
  <2>2. PICK t \in Threads :
          \/ algorithm = "A" /\ (CallStep(t) \/ Step(t))
          \/ algorithm = "B" /\ (AlgB!CallStep(t) \/ AlgB!Step(t))
    BY <2>1 DEF Next, AlgB!Next
  <2>3. LocksTypeOK' /\ HoldsRight(t)' /\ FoundKey(t)' /\ Others(t)
    BY <2>1, <2>2, StepKeeps DEF Keeps
  <2>4. \A u \in Threads \ {t} : HoldsRight(u)' /\ FoundKey(u)'
    BY <1>1, <2>1, <2>3, OthersKeep DEF Others
  <2> QED
    BY <1>2, <2>3, <2>4 DEF EitherInv
<1>4. CASE UNCHANGED eitherVars
  <2>1. UNCHANGED <<data, pc, key, i, lock, algorithm>>
    BY <1>4 DEF eitherVars, lockVars, tableVars
  <2>2. LocksTypeOK' /\ \A u \in Threads : HoldsRight(u)' /\ FoundKey(u)'
    BY <1>1, <2>1, SameHeld, OthersKeep DEF EitherInv, LocksTypeOK
  <2> QED
    BY <1>2, <2>2 DEF EitherInv
<1> QED
  BY <1>3, <1>4

-----------------------------------------------------------------------------
(* The abstract set seen through C is the one seen directly. *)
LEMMA SameView ==
  /\ C!Elements = Elements /\ C!absCall = absCall /\ C!absSeen = absSeen
  /\ C!Cardinality(C!Used) = Cardinality(Used)
<1>1. /\ C!Elements = Elements /\ C!absCall = absCall /\ C!absSeen = absSeen
      /\ C!Used = Used
  BY DEF C!Elements, Elements, C!ElementsOf, ElementsOf, C!absCall, absCall, C!absSeen, absSeen,
         C!Used, Used, C!Updating, Updating, C!EMPTY, EMPTY, C!Buckets, Buckets
<1>2. C!Cardinality(Used) = Cardinality(Used)
  BY DEF C!Cardinality, Cardinality
<1> QED
  BY <1>1, <1>2

LEMMA SameViewLater ==
  /\ C!Elements' = Elements' /\ C!absCall' = absCall' /\ C!absSeen' = absSeen'
  /\ C!Cardinality(C!Used)' = Cardinality(Used)'
<1>1. /\ C!Elements' = Elements' /\ C!absCall' = absCall' /\ C!absSeen' = absSeen'
      /\ C!Used' = Used'
  BY DEF C!Elements, Elements, C!ElementsOf, ElementsOf, C!absCall, absCall, C!absSeen, absSeen,
         C!Used, Used, C!Updating, Updating, C!EMPTY, EMPTY, C!Buckets, Buckets
<1>2. C!Cardinality(Used)' = Cardinality(Used)'
  BY DEF C!Cardinality, Cardinality
<1> QED
  BY <1>1, <1>2

LEMMA SameRoom ==
  [k \in Keys |-> C!Cardinality(C!Reached(k))] = [k \in Keys |-> Cardinality(Reached(k))]
<1>1. \A k : C!Reached(k) = Reached(k)
  BY DEF C!Reached, Reached, C!Slot, Slot, C!Probes, Probes
<1>2. ASSUME NEW S PROVE C!Cardinality(S) = Cardinality(S)
  BY DEF C!Cardinality, Cardinality
<1> QED
  BY <1>1, <1>2

LEMMA SameInit == C!Abstract!BoundedInit => Abstract!BoundedInit
BY SameView
   DEF C!Abstract!BoundedInit, Abstract!BoundedInit, C!Abstract!SetInit, Abstract!SetInit,
       C!Abstract!FilledInit, Abstract!FilledInit, C!Abstract!Idle, Abstract!Idle

LEMMA SameNext == C!Abstract!BoundedNext => Abstract!BoundedNext
<1> USE SameView, SameViewLater, SameRoom DEF C!Abstract!Idle, Abstract!Idle
<1>1. \A t, o, k : C!Abstract!Call(t, o, k) <=> Abstract!Call(t, o, k)
  BY DEF C!Abstract!Call, Abstract!Call
<1>2. \A t, r, S : C!Abstract!Return(t, r, S) <=> Abstract!Return(t, r, S)
  BY DEF C!Abstract!Return, Abstract!Return
<1>3. \A t : C!Abstract!Insert(t) <=> Abstract!Insert(t)
  BY <1>2 DEF C!Abstract!Insert, Abstract!Insert
<1>4. \A t : C!Abstract!Erase(t) <=> Abstract!Erase(t)
  BY <1>2 DEF C!Abstract!Erase, Abstract!Erase
<1>5. \A t : C!Abstract!InsertFails(t) <=> Abstract!InsertFails(t)
  BY <1>2 DEF C!Abstract!InsertFails, Abstract!InsertFails
<1>6. \A t : C!Abstract!EraseFails(t) <=> Abstract!EraseFails(t)
  BY <1>2 DEF C!Abstract!EraseFails, Abstract!EraseFails
<1>7. \A t : C!Abstract!Refuse(t) <=> Abstract!Refuse(t)
  BY <1>2 DEF C!Abstract!Refuse, Abstract!Refuse
<1> QED
  BY <1>1, <1>3, <1>4, <1>5, <1>6, <1>7
     DEF C!Abstract!BoundedNext, Abstract!BoundedNext, C!Abstract!BoundedStep,
         Abstract!BoundedStep

LEMMA SameSet == C!ImplementsSet => ImplementsSet
<1>1. [C!Abstract!BoundedNext]_(C!Abstract!boundedVars)
        => [Abstract!BoundedNext]_(Abstract!boundedVars)
  BY SameNext, SameView, SameViewLater
     DEF C!Abstract!boundedVars, Abstract!boundedVars, C!Abstract!setVars, Abstract!setVars
<1> QED
  BY SameInit, <1>1, PTL
     DEF ImplementsSet, C!ImplementsSet, Abstract!BoundedSpec, C!Abstract!BoundedSpec

-----------------------------------------------------------------------------
(* Which locks a thread holds follows from where it is, an erase of B that *)
(* found its key finds it or a tombstone, and the invariant of C holds.    *)
THEOREM EitherInvariant == EitherSpec => []EitherInv
BY EitherInvInit, EitherInvStep, PTL DEF EitherSpec

(* The locked tables take no step that the lock-free one could not take. *)
THEOREM ImplementsLockFree == EitherSpec => C!Spec
<1>1. EitherInv /\ [EitherNext]_eitherVars => [C!Next]_(C!tableVars)
  BY StepIsStep
<1> QED
  BY <1>1, EitherInvInit, EitherInvariant, PTL DEF EitherSpec, C!Spec

(* Algorithms A and B are linearizable sets that refuse an insert only     *)
(* when every bucket on the key's probe path has been used up.             *)
THEOREM LockedImplementSet == EitherSpec => ImplementsSet
BY ImplementsLockFree, C!Refinement, SameSet, TableAssumption, PTL

(* A thread that waits for a bucket's lock holds none or, in getSumOfKeys, *)
(* only locks of earlier buckets, so no threads wait for each other.       *)
THEOREM LocksTakenInOrder == EitherSpec => []LocksInOrder
<1>1. EitherInv => LocksInOrder
  <2> SUFFICES ASSUME EitherInv, NEW t \in Threads
               PROVE  /\ pc[t] \in {"idle", "insert", "insertLock", "erase", "eraseLock"} =>
                           Held(t) = {}
                      /\ op[t] = "sum" => \A b \in Held(t) : b < i[t]
    BY SameActions
       DEF LocksInOrder, LocksOrdered, LockOrder, AlgB!LocksOrdered, AlgB!LockOrder
  <2>1. op[t] = "sum" => \A b \in Held(t) : b < i[t]
    <3> SUFFICES ASSUME op[t] = "sum", NEW b \in Held(t)
                 PROVE  b < i[t]
      OBVIOUS
    <3>1. PICK j \in 0 .. Cap : Held(t) = j .. i[t] - 1
      BY LocalsNow DEF EitherInv, HoldsRight
    <3>2. i[t] \in Int
      BY TypesNow, TableAssumption
    <3> QED
      BY <3>1, <3>2
  <2> QED
    BY <2>1 DEF EitherInv, HoldsRight
<1> QED
  BY <1>1, EitherInvariant, PTL

(* The fall through of B's erase is dead code: under the lock it finds the *)
(* key it saw before, or a tombstone.                                      *)
THEOREM EraseFindsKeyOrTombstone == EitherSpec => []EraseSeesKeyOrTombstone
<1>1. EitherInv => EraseSeesKeyOrTombstone
  BY SameActions
     DEF EitherInv, FoundKey, EraseSeesKeyOrTombstone, AlgB!EraseSeesKeyOrTombstone
<1> QED
  BY <1>1, EitherInvariant, PTL

-----------------------------------------------------------------------------
(* The sums. *)
(* What getSumOfKeys has added up: the keys of the buckets it has locked   *)
(* and, once it has locked them all, the contents at one moment.           *)
SnapshotOK(t) ==
  op[t] = "sum" =>
    /\ i[t] < Cap => sum[t] = SumSet(C!KeysBefore(i[t]))
    /\ i[t] = Cap => \E S \in seen[t] : sum[t] = SumSet(S)

SnapshotInv == \A t \in Threads : SnapshotOK(t)

StepOf(t) ==
  /\ algorithm' = algorithm
  /\ \/ algorithm = "A" /\ (CallStep(t) \/ Step(t))
     \/ algorithm = "B" /\ (AlgB!CallStep(t) \/ AlgB!Step(t))

(* A step writes only buckets whose lock its thread holds. *)
LEMMA WritesHeld ==
  ASSUME EitherInv, NEW t \in Threads, StepOf(t), NEW b \in Buckets, b \notin Held(t)
  PROVE  data'[b] = data[b]
<1> USE SameActions, SameAdvance
<1>1. /\ \A r : Leave(t, r, data) => data' = data
      /\ \A o, k, p : Enter(t, o, k, p) => data' = data
      /\ \A p : Goto(t, p) => data' = data
  BY DEF Leave, Enter, Goto
<1>2. \A p : Advance(t, p) => data' = data
  BY <1>1 DEF Advance
<1>3. SumLock(t) \/ SumUnlock(t) => data' = data
  BY DEF SumLock, SumUnlock, AddBucket, tableVars
<1>4. CASE CallStep(t) \/ AlgB!CallStep(t)
  BY <1>1, <1>4, SameSums DEF CallStep, AlgB!CallStep, InsertCall, EraseCall, SumCall,
     AlgB!InsertCall, AlgB!EraseCall
<1>5. CASE SumLock(t) \/ SumUnlock(t) \/ SumReturn(t)
  BY <1>1, <1>3, <1>5 DEF SumReturn
<1>6. ASSUME pc[t] \in {"insertLocked", "eraseLocked"}, NEW r, NEW v,
             Leave(t, r, [data EXCEPT ![Here(t)] = v])
      PROVE  data'[b] = data[b]
  <2>1. b # Here(t)
    BY <1>6 DEF EitherInv, HoldsRight
  <2> QED
    BY <1>6, <2>1, TypesNow DEF Leave
<1>7. CASE InsertLock(t) \/ EraseLock(t) \/ AlgB!InsertLock(t) \/ AlgB!EraseLock(t)
  BY <1>1, <1>7 DEF InsertLock, EraseLock, AlgB!InsertLock, AlgB!EraseLock
<1>8. CASE InsertLocked(t) \/ EraseLocked(t)
  BY <1>1, <1>2, <1>6, <1>8 DEF InsertLocked, EraseLocked
<1>9. CASE AlgB!InsertLocked(t) \/ AlgB!EraseLocked(t)
  BY <1>1, <1>2, <1>6, <1>9 DEF AlgB!InsertLocked, AlgB!EraseLocked
<1>10. CASE AlgB!InsertRead(t) \/ AlgB!EraseRead(t)
  BY <1>1, <1>2, <1>10 DEF AlgB!InsertRead, AlgB!EraseRead
<1> QED
  BY <1>4, <1>5, <1>7, <1>8, <1>9, <1>10, SameSums DEF StepOf, Step, AlgB!Step

LEMMA SumShapes ==
  ASSUME EitherInv, NEW t \in Threads, StepOf(t)
  PROVE  C!Ends(t) \/ C!MovesOn(t) \/ C!Begins(t) \/ C!AddsOne(t) \/ UNCHANGED C!tableVars
<1>1. C!CallStep(t) \/ C!Step(t) \/ UNCHANGED C!tableVars
  BY StepOfThread DEF StepOf
<1> QED
  BY <1>1, C!StepForTheSums, TableAssumption DEF EitherInv

LEMMA SumSees ==
  ASSUME C!SumInv, NEW t \in Threads
  PROVE  (op[t] # "sum" => sum[t] = 0) /\ (op[t] = "sum" => Elements \in seen[t])
BY SameTable DEF C!SumInv, C!SumOK

LEMMA WatchedSum ==
  ASSUME EitherInv, C!SumInv, NEW t \in Threads, NEW u \in Threads \ {t},
         C!Ends(t) \/ C!MovesOn(t) \/ C!Begins(t) \/ C!AddsOne(t)
  PROVE  /\ op'[u] = op[u] /\ i'[u] = i[u] /\ sum'[u] = sum[u]
         /\ op[u] = "sum" => seen[u] \subseteq seen'[u]
<1>1. /\ op \in [Threads -> {"none", "insert", "erase", "sum"}]
      /\ key \in [Threads -> Keys \cup {0}]
      /\ i \in [Threads -> 0 .. Cap] /\ sum \in [Threads -> Int]
      /\ seen \in [Threads -> SUBSET SUBSET Keys]
  BY DEF EitherInv, C!IInv, C!TypeOK, C!TableTypeOK
<1>2. op[u] = "sum" => absPc[u] # "idle"
  BY LocalsNow
<1>3. CASE C!Ends(t)
  <2>1. PICK r, d : C!Leave(t, r, d)
    BY <1>3 DEF C!Ends
  <2> QED
    BY <1>1, <1>2, <2>1 DEF C!Leave
<1>4. CASE C!MovesOn(t)
  BY <1>1, <1>4 DEF C!MovesOn
<1>5. CASE C!Begins(t)
  BY <1>1, <1>5 DEF C!Begins, C!Enter
<1>6. CASE C!AddsOne(t)
  BY <1>1, <1>6 DEF C!AddsOne, C!AddBucket
<1> QED
  BY <1>3, <1>4, <1>5, <1>6

LEMMA OthersSnapshot ==
  ASSUME EitherInv, C!SumInv, NEW t \in Threads, StepOf(t),
         C!Ends(t) \/ C!MovesOn(t) \/ C!Begins(t) \/ C!AddsOne(t),
         NEW u \in Threads \ {t}, SnapshotOK(u)
  PROVE  SnapshotOK(u)'
<1> SUFFICES ASSUME op[u] = "sum" PROVE SnapshotOK(u)'
  BY WatchedSum DEF SnapshotOK
<1>1. /\ op'[u] = op[u] /\ i'[u] = i[u] /\ sum'[u] = sum[u] /\ seen[u] \subseteq seen'[u]
      /\ i[u] \in 0 .. Cap
  BY WatchedSum, TypesNow
<1>2. i[u] < Cap => C!KeysBefore(i[u])' = C!KeysBefore(i[u])
  <2> SUFFICES ASSUME i[u] < Cap, NEW n, n = i[u] PROVE C!KeysBefore(i[u])' = C!KeysBefore(n)
    OBVIOUS
  <2>1. n = i'[u] /\ n \in 0 .. Cap - 1 /\ n \in Nat /\ 0 .. n - 1 \subseteq Buckets
    BY <1>1, TableAssumption DEF Buckets
  <2>2. Held(u) = 0 .. n - 1
    <3>1. PICK j \in 0 .. Cap : Held(u) = j .. i[u] - 1 /\ (i[u] < Cap => j = 0)
      BY LocalsNow DEF EitherInv, HoldsRight
    <3> QED
      BY <3>1
  <2>3. \A b \in 0 .. n - 1 : b \in Buckets /\ b \notin Held(t)
    BY <2>1, <2>2 DEF Held
  <2>4. \A b \in 0 .. n - 1 : data'[b] = data[b]
    BY <2>3, WritesHeld
  <2> QED
    BY <2>1, <2>4 DEF C!KeysBefore
<1>3. i[u] < Cap => sum[u] = SumSet(C!KeysBefore(i[u]))
  BY DEF SnapshotOK
<1>4. i[u] = Cap => \E S \in seen[u] : sum[u] = SumSet(S)
  BY DEF SnapshotOK
<1>5. i'[u] < Cap => sum'[u] = SumSet(C!KeysBefore(i[u])')
  BY <1>1, <1>2, <1>3
<1>6. i'[u] = Cap => \E S \in seen'[u] : sum'[u] = SumSet(S)
  BY <1>1, <1>4
<1> QED
  BY <1>5, <1>6 DEF SnapshotOK

LEMMA FiniteInC == \A S : C!IsFiniteSet(S) <=> IsFiniteSet(S)
BY DEF C!IsFiniteSet, IsFiniteSet

LEMMA OwnSnapshot ==
  ASSUME EitherInv, C!SumInv, NEW t \in Threads, SnapshotOK(t),
         C!Ends(t) \/ C!MovesOn(t) \/ C!Begins(t) \/ C!AddsOne(t)
  PROVE  SnapshotOK(t)'
<1>1. /\ op \in [Threads -> {"none", "insert", "erase", "sum"}]
      /\ i \in [Threads -> 0 .. Cap] /\ sum \in [Threads -> Int]
      /\ seen \in [Threads -> SUBSET SUBSET Keys]
      /\ C!TypeOK /\ C!KeysUnique /\ C!LocalsOK
      /\ Keys \subseteq Nat \ {0} /\ Cap \in Nat \ {0}
  BY TableAssumption DEF EitherInv, C!IInv, C!TypeOK, C!TableTypeOK
<1>2. CASE C!Ends(t)
  <2>1. op'[t] = "none"
    BY <1>1, <1>2 DEF C!Ends, C!Leave
  <2> QED
    BY <2>1 DEF SnapshotOK
<1>3. CASE C!MovesOn(t)
  BY <1>3 DEF C!MovesOn, SnapshotOK
<1>4. CASE C!Begins(t)
  <2>1. op[t] = "none" /\ i[t] = 0 /\ sum[t] = 0
    BY <1>1, <1>4, SumSees DEF C!Begins, C!Enter, C!LocalsOK
  <2>2. i'[t] = 0 /\ sum'[t] = 0
    BY <1>4, <2>1 DEF C!Begins, C!Enter
  <2>3. C!KeysBefore(i[t])' = {}
    BY <2>2 DEF C!KeysBefore
  <2> QED
    BY <1>1, <2>2, <2>3, SumSetEmpty DEF SnapshotOK
<1>5. CASE C!AddsOne(t)
  <2> SUFFICES ASSUME NEW n, n = i[t], NEW v, v = data[n], NEW K, K = C!KeysBefore(n)
               PROVE  SnapshotOK(t)'
    OBVIOUS
  <2>1. /\ n \in 0 .. Cap /\ n < Cap /\ n \in Nat /\ v \in Keys \cup {0, -1} /\ sum[t] \in Int
    BY <1>1, <1>5, TypesNow DEF C!AddsOne, C!AddBucket, Buckets, EMPTY, TOMBSTONE
  <2>2. /\ data' = data /\ op' = op /\ seen' = seen /\ i'[t] = n + 1 /\ op[t] = "sum"
        /\ v \in Keys => sum'[t] = sum[t] + v
        /\ v \notin Keys => sum'[t] = sum[t]
    <3>1. /\ sum' = [sum EXCEPT ![t] = @ + (IF data[i[t]] > 0 THEN data[i[t]] ELSE 0)]
          /\ i' = [i EXCEPT ![t] = @ + 1]
          /\ data' = data /\ op' = op /\ seen' = seen /\ op[t] = "sum"
      BY <1>5 DEF C!AddsOne, C!AddBucket
    <3>2. i'[t] = n + 1 /\ sum'[t] = sum[t] + (IF v > 0 THEN v ELSE 0)
      BY <1>1, <3>1
    <3>3. (v \in Keys => v > 0) /\ (v \notin Keys => ~ (v > 0))
      <4>1. ASSUME v \in Keys PROVE v > 0
        <5>1. v \in Nat \ {0}
          BY <1>1, <4>1
        <5> QED
          BY <5>1
      <4>2. ASSUME v \notin Keys PROVE ~ (v > 0)
        <5>1. v = 0 \/ v = -1
          BY <2>1, <4>2
        <5> QED
          BY <5>1
      <4> QED
        BY <4>1, <4>2
    <3> QED
      BY <2>1, <3>1, <3>2, <3>3
  <2>3. sum[t] = SumSet(K)
    BY <2>1, <2>2 DEF SnapshotOK
  <2>4. /\ v \in Keys => C!KeysBefore(n + 1) = K \cup {v} /\ v \notin K
        /\ v \notin Keys => C!KeysBefore(n + 1) = K
    <3>1. /\ data[n] \in Keys => /\ C!KeysBefore(n + 1) = C!KeysBefore(n) \cup {data[n]}
                                 /\ data[n] \notin C!KeysBefore(n)
          /\ data[n] \notin Keys => C!KeysBefore(n + 1) = C!KeysBefore(n)
      BY <1>1, <2>1, C!KeysBeforeNext, TableAssumption
    <3> QED
      BY <3>1
  <2>5. IsFiniteSet(K) /\ K \subseteq Int
    <3>1. C!IsFiniteSet(C!KeysBefore(n)) /\ C!KeysBefore(n) \subseteq Nat
      BY <1>1, <2>1, C!KeysBeforeFinite, TableAssumption
    <3> QED
      BY <3>1, FiniteInC
  <2>6. v \in Keys => SumSet(K \cup {v}) = v + SumSet(K)
    BY <1>1, <2>4, <2>5, SumSetAdd
  <2>7. sum'[t] = SumSet(C!KeysBefore(n + 1))
    <3>1. CASE v \in Keys
      <4>1. v \in Int /\ SumSet(K) \in Int
        BY <1>1, <2>5, <3>1, SumSetType
      <4> QED
        BY <2>2, <2>3, <2>4, <2>6, <3>1, <4>1
    <3>2. CASE v \notin Keys
      BY <2>2, <2>3, <2>4, <3>2
    <3> QED
      BY <3>1, <3>2
  <2>8. C!KeysBefore(i[t])' = C!KeysBefore(n + 1)
    BY <2>2 DEF C!KeysBefore
  <2>9. n + 1 = Cap => C!KeysBefore(n + 1) \in seen'[t]
    <3>1. C!KeysBefore(Cap) = C!Elements
      BY <1>1, C!AllKeys, TableAssumption
    <3> QED
      BY <2>2, <3>1, SumSees, SameTable
  <2>10. i'[t] = Cap => \E S \in seen'[t] : sum'[t] = SumSet(S)
    BY <2>2, <2>7, <2>9
  <2>11. sum'[t] = SumSet(C!KeysBefore(i[t])')
    BY <2>7, <2>8
  <2> QED
    BY <2>10, <2>11 DEF SnapshotOK
<1> QED
  BY <1>2, <1>3, <1>4, <1>5

LEMMA SnapshotStep ==
  EitherInv /\ C!SumInv /\ SnapshotInv /\ [EitherNext]_eitherVars => SnapshotInv'
<1> SUFFICES ASSUME EitherInv, C!SumInv, SnapshotInv, [EitherNext]_eitherVars
             PROVE  SnapshotInv'
  OBVIOUS
<1>1. ASSUME UNCHANGED C!tableVars PROVE SnapshotInv'
  <2> SUFFICES ASSUME NEW u \in Threads PROVE SnapshotOK(u)'
    BY DEF SnapshotInv
  <2>1. SnapshotOK(u) /\ UNCHANGED <<data, op, i, sum, seen>>
    BY <1>1 DEF SnapshotInv, C!tableVars
  <2>2. C!KeysBefore(i[u])' = C!KeysBefore(i[u])
    BY <2>1 DEF C!KeysBefore
  <2> QED
    BY <2>1, <2>2 DEF SnapshotOK
<1>2. CASE UNCHANGED eitherVars
  <2>1. absPc' = absPc
    BY <1>2 DEF eitherVars, lockVars, tableVars, absPc, Here, Slot
  <2>2. UNCHANGED C!tableVars
    BY <1>2, <2>1 DEF eitherVars, lockVars, tableVars, C!tableVars
  <2> QED
    BY <1>1, <2>2
<1>3. CASE EitherNext
  <2>1. /\ algorithm' = algorithm
        /\ \/ algorithm = "A" /\ Next
           \/ algorithm = "B" /\ AlgB!Next
    BY <1>3 DEF EitherNext, Run
  <2>2. PICK t \in Threads : StepOf(t)
    BY <2>1 DEF Next, AlgB!Next, StepOf
  <2>3. CASE UNCHANGED C!tableVars
    BY <1>1, <2>3
  <2>4. CASE C!Ends(t) \/ C!MovesOn(t) \/ C!Begins(t) \/ C!AddsOne(t)
    <3>1. SnapshotOK(t)'
      BY <2>4, OwnSnapshot DEF SnapshotInv
    <3>2. \A u \in Threads \ {t} : SnapshotOK(u)'
      BY <2>2, <2>4, OthersSnapshot DEF SnapshotInv
    <3> QED
      BY <3>1, <3>2 DEF SnapshotInv
  <2> QED
    BY <2>2, <2>3, <2>4, SumShapes
<1> QED
  BY <1>2, <1>3

(* getSumOfKeys of A and B holds every lock before it gives up the first:  *)
(* it returns the sum of the contents of the table at one moment.          *)
THEOREM LockedSumIsSnapshot == EitherSpec => []SumIsSnapshot
<1>1. C!Spec => []C!SumInv
  BY C!SumInvariant, TableAssumption
<1>2. EitherInit => SnapshotInv
  BY DEF EitherInit, Init, LockInit, TableInit, SnapshotInv, SnapshotOK
<1>3. EitherSpec => []SnapshotInv
  BY <1>1, <1>2, SnapshotStep, EitherInvariant, ImplementsLockFree, PTL DEF EitherSpec
<1>4. SnapshotInv => SumIsSnapshot
  BY DEF SnapshotInv, SnapshotOK, SumIsSnapshot
<1> QED
  BY <1>3, <1>4, PTL
=============================================================================
