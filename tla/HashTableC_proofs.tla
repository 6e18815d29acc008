------------------------- MODULE HashTableC_proofs -------------------------
(***************************************************************************)
(* Proofs about algorithm C, for every set of threads and of keys, every   *)
(* capacity and every hash function: the invariants of HashTableC, and     *)
(* that it implements BoundedSet.                                          *)
(***************************************************************************)
EXTENDS HashTableC, FiniteSetTheorems, SumTheorems, TLAPS

(* A probe index is always inside the array. *)
LEMMA SlotInBuckets ==
  ASSUME NEW k \in Keys, NEW n \in Nat
  PROVE  Slot(k, n) \in Buckets
<1>1. Hash[k] + n \in Int
  BY TableAssumption
<1>2. (Hash[k] + n) % Word \in Int
  BY <1>1, TableAssumption
<1> DEFINE w == (Hash[k] + n) % Word
<1> HIDE DEF w
<1>3. w \in Int => w % Cap \in 0 .. Cap - 1
  BY TableAssumption
<1> QED
  BY <1>2, <1>3 DEF w, Slot, Buckets

(* The type invariant, for every value of the constants: no step reads or  *)
(* writes outside the array, and no bucket holds anything else than a key, *)
(* 0 or TOMBSTONE.                                                         *)
LEMMA TypeStep == TypeOK /\ LocalsOK /\ [Next]_tableVars => TypeOK'
<1> SUFFICES ASSUME TypeOK, LocalsOK, [Next]_tableVars
             PROVE  TypeOK'
  OBVIOUS
<1> USE DEF TypeOK, TableTypeOK
<1>1. Keys \subseteq Nat \ {0} /\ Cap \in Nat \ {0}
  BY TableAssumption
<1>2. \A d : ElementsOf(d) \in SUBSET Keys
  BY DEF ElementsOf
<1>3. ASSUME NEW t \in Threads, NEW r \in BOOLEAN,
             NEW d \in [Buckets -> Keys \cup {EMPTY, TOMBSTONE}],
             Leave(t, r, d)
      PROVE  TypeOK'
  <2>1. (\E x \in Threads : TRUE) /\ "idle" \in Labels /\ 0 \in 0 .. Cap
    BY <1>1 DEF Labels
  <2>2. seen' \in [Threads -> SUBSET SUBSET Keys]
    BY <1>2, <1>3 DEF Leave
  <2>3. data' \in [Buckets -> Keys \cup {EMPTY, TOMBSTONE}]
    BY <1>3 DEF Leave
  <2>4. /\ pc' \in [Threads -> Labels]
        /\ op' \in [Threads -> {"none", "insert", "erase", "sum"}]
        /\ key' \in [Threads -> Keys \cup {0}]
    BY <1>3, <2>1 DEF Leave
  <2>5. /\ i' \in [Threads -> 0 .. Cap]
        /\ sum' \in [Threads -> Int]
        /\ result' \in [Threads -> BOOLEAN]
    BY <1>3, <2>1 DEF Leave
  <2> QED
    BY <2>2, <2>3, <2>4, <2>5
<1>4. ASSUME NEW t \in Threads, NEW p \in Labels, Goto(t, p)
      PROVE  TypeOK'
  BY <1>4 DEF Goto
<1>5. ASSUME NEW t \in Threads, NEW p \in Labels, Advance(t, p)
      PROVE  TypeOK'
  <2>1. CASE Leave(t, FALSE, data)
    BY <1>3, <2>1
  <2>2. CASE /\ i[t] + 1 < Cap
             /\ i' = [i EXCEPT ![t] = @ + 1]
             /\ pc' = [pc EXCEPT ![t] = p]
             /\ UNCHANGED <<data, op, key, sum, result, seen>>
    <3>1. i[t] + 1 \in 0 .. Cap
      <4>1. i[t] \in 0 .. Cap
        OBVIOUS
      <4> QED
        BY <2>2, <4>1, <1>1
    <3> QED
      BY <2>2, <3>1
  <2> QED
    BY <1>5, <2>1, <2>2 DEF Advance
<1>6. ASSUME NEW t \in Threads, NEW p \in Labels, NEW k \in Keys \cup {0},
             NEW o \in {"insert", "erase", "sum"}, Enter(t, o, k, p)
      PROVE  TypeOK'
  <2>1. {Elements} \in SUBSET SUBSET Keys
    BY <1>2 DEF Elements
  <2> QED
    BY <1>6, <2>1 DEF Enter
<1>7. ASSUME NEW t \in Threads, AddBucket(t)
      PROVE  TypeOK'
  <2>1. i[t] \in Buckets /\ i[t] + 1 \in 0 .. Cap
    BY <1>7, <1>1 DEF AddBucket, Buckets
  <2>2. data[i[t]] \in Int /\ sum[t] \in Int
    <3>1. data[i[t]] \in Keys \cup {EMPTY, TOMBSTONE}
      BY <2>1
    <3>2. Keys \cup {EMPTY, TOMBSTONE} \subseteq Int
      BY <1>1 DEF EMPTY, TOMBSTONE
    <3> QED
      BY <3>1, <3>2
  <2>3. sum[t] + (IF data[i[t]] > 0 THEN data[i[t]] ELSE 0) \in Int
    BY <2>2
  <2> QED
    BY <1>7, <2>1, <2>3 DEF AddBucket
<1>8. CASE UNCHANGED tableVars
  BY <1>8 DEF tableVars
<1>9. ASSUME NEW t \in Threads, CallStep(t) \/ Step(t)
      PROVE  TypeOK'
  <2>1. ASSUME NEW k \in Keys, InsertCall(t, k) PROVE TypeOK'
    BY <2>1, <1>6 DEF InsertCall, Labels
  <2>2. ASSUME NEW k \in Keys, EraseCall(t, k) PROVE TypeOK'
    BY <2>2, <1>6 DEF EraseCall, Labels
  <2>3. CASE SumCall(t)
    BY <2>3, <1>6 DEF SumCall, Labels
  <2>4. CASE InsertRead(t)
    BY <2>4, <1>3, <1>4, <1>5 DEF InsertRead, Labels
  <2>5. CASE InsertCAS(t)
    <3>1. key[t] \in Keys
      BY <2>5 DEF InsertCAS, LocalsOK, Updating
    <3>2. [data EXCEPT ![Here(t)] = key[t]]
             \in [Buckets -> Keys \cup {EMPTY, TOMBSTONE}]
      BY <3>1
    <3> QED
      BY <2>5, <3>2, <1>3, <1>4 DEF InsertCAS, Labels
  <2>6. CASE InsertRecheck(t)
    BY <2>6, <1>3, <1>5 DEF InsertRecheck, Labels
  <2>7. CASE EraseRead(t)
    BY <2>7, <1>3, <1>4, <1>5 DEF EraseRead, Labels
  <2>8. CASE EraseCAS(t)
    <3>1. [data EXCEPT ![Here(t)] = TOMBSTONE]
             \in [Buckets -> Keys \cup {EMPTY, TOMBSTONE}]
      OBVIOUS
    <3> QED
      BY <2>8, <3>1, <1>3 DEF EraseCAS
  <2>9. CASE SumRead(t)
    BY <2>9, <1>7 DEF SumRead
  <2>10. CASE SumReturn(t)
    BY <2>10, <1>3 DEF SumReturn
  <2> QED
    BY <1>9, <2>1, <2>2, <2>3, <2>4, <2>5, <2>6, <2>7, <2>8, <2>9, <2>10
       DEF CallStep, Step
<1> QED
  BY <1>8, <1>9 DEF Next

-----------------------------------------------------------------------------
(* The end of an operation keeps the locals of every thread in order, and  *)
(* shows the new contents of the table to every operation still running.   *)
LEMMA LeaveLocals ==
  ASSUME TypeOK, LocalsOK, NEW t \in Threads, NEW r, NEW d, Leave(t, r, d)
  PROVE  /\ LocalsOK'
         /\ ~ Updating(t)' /\ pc'[t] = "idle"
         /\ \A u \in Threads \ {t} :
              /\ pc'[u] = pc[u] /\ op'[u] = op[u]
              /\ key'[u] = key[u] /\ i'[u] = i[u]
              /\ Updating(u)' = Updating(u)
              /\ Updating(u) => seen'[u] = seen[u] \cup {ElementsOf(d)}
<1> USE DEF TypeOK, TableTypeOK
<1>1. /\ pc'[t] = "idle" /\ op'[t] = "none" /\ i'[t] = 0
      /\ ~ Updating(t)'
  BY DEF Leave, Updating
<1>2. ASSUME NEW u \in Threads \ {t}
      PROVE  /\ pc'[u] = pc[u] /\ op'[u] = op[u]
             /\ key'[u] = key[u] /\ i'[u] = i[u]
             /\ Updating(u)' = Updating(u)
  BY DEF Leave, Updating
<1>3. ASSUME NEW u \in Threads \ {t}, Updating(u)
      PROVE  seen'[u] = seen[u] \cup {ElementsOf(d)}
  <2>1. pc[u] # "idle"
    BY <1>3 DEF LocalsOK, Updating
  <2> QED
    BY <2>1 DEF Leave
<1>4. Elements' = ElementsOf(d)
  BY DEF Leave, Elements, ElementsOf
<1>5. LocalsOK'
  <2> SUFFICES ASSUME NEW u \in Threads
               PROVE  LocalsOK!(u)'
    BY DEF LocalsOK
  <2>1. CASE u = t
    BY <2>1, <1>1
  <2>2. CASE u # t
    BY <2>2, <1>2, <1>3, <1>4 DEF LocalsOK
  <2> QED
    BY <2>1, <2>2
<1> QED
  BY <1>1, <1>2, <1>3, <1>5

(* Where the invariants leave room for key k: if every bucket before probe *)
(* n is used by something else and bucket n is empty, k is nowhere.        *)
LEMMA AbsentBeforeEmpty ==
  ASSUME TypeOK, KeysReachable, NEW k \in Keys, NEW n \in Probes,
         \A m \in 0 .. n - 1 : data[Slot(k, m)] \notin {EMPTY, k},
         data[Slot(k, n)] = EMPTY
  PROVE  k \notin Elements
<1> SUFFICES ASSUME NEW b \in Buckets, data[b] = k
             PROVE  FALSE
  BY DEF Elements, ElementsOf
<1>1. k # EMPTY /\ n \in Nat
  BY TableAssumption DEF EMPTY, Probes
<1>2. PICK p \in Probes :
         /\ Slot(k, p) = b
         /\ \A m \in 0 .. p - 1 : data[Slot(k, m)] # EMPTY
  BY DEF KeysReachable
<1>3. p \in Nat
  BY TableAssumption DEF Probes
<1>4. CASE p < n
  BY <1>1, <1>2, <1>3, <1>4
<1>5. CASE p = n
  BY <1>1, <1>2, <1>5
<1>6. CASE p > n
  BY <1>1, <1>2, <1>3, <1>6
<1> QED
  BY <1>1, <1>3, <1>4, <1>5, <1>6

(* An insert that has passed every bucket before an empty one may claim it. *)
LEMMA ClaimKeepsInv ==
  ASSUME IInv, NEW t \in Threads, pc[t] = "insertCAS",
         data[Here(t)] = EMPTY,
         Leave(t, TRUE, [data EXCEPT ![Here(t)] = key[t]]), TypeOK'
  PROVE  IInv'
<1> DEFINE k == key[t]
           b == Here(t)
<1>1. /\ k \in Keys /\ i[t] \in Probes /\ b \in Buckets /\ k # EMPTY
      /\ Updating(t) /\ i[t] \in Nat
  <2>1. k \in Keys /\ i[t] \in Probes /\ Updating(t)
    BY DEF IInv, LocalsOK, Updating
  <2>2. i[t] \in Nat
    BY <2>1, TableAssumption DEF Probes
  <2> QED
    BY <2>1, <2>2, SlotInBuckets, TableAssumption DEF EMPTY, Here
<1>2. data' = [data EXCEPT ![b] = k] /\ data[b] = EMPTY
  BY DEF Leave
<1>3. data \in [Buckets -> Keys \cup {EMPTY, TOMBSTONE}]
  BY DEF IInv, TypeOK, TableTypeOK
<1>4. LocalsOK'
  BY LeaveLocals DEF IInv
<1>5. k \notin Elements
  <2>1. \A m \in 0 .. i[t] - 1 : data[Slot(k, m)] \notin {EMPTY, k}
    BY <1>1 DEF IInv, PassedBuckets
  <2>2. data[Slot(k, i[t])] = EMPTY
    BY <1>2 DEF Here
  <2> HIDE DEF k
  <2> QED
    BY <1>1, <2>1, <2>2, AbsentBeforeEmpty DEF IInv
<1> HIDE DEF k, b
<1>6. KeysUnique'
  <2> SUFFICES ASSUME NEW c \in Buckets, NEW d \in Buckets,
                      data'[c] \in Keys, data'[c] = data'[d]
               PROVE  c = d
    BY DEF KeysUnique
  <2>1. \A e \in Buckets : data[e] # k
    BY <1>1, <1>5 DEF Elements, ElementsOf
  <2> QED
    BY <1>1, <1>2, <1>3, <2>1 DEF IInv, KeysUnique
<1>7. KeysReachable'
  <2> SUFFICES ASSUME NEW c \in Buckets, data'[c] \in Keys
               PROVE  \E n \in Probes :
                        /\ Slot(data'[c], n) = c
                        /\ \A m \in 0 .. n - 1 : data'[Slot(data'[c], m)] # EMPTY
    BY DEF KeysReachable, Slot
  <2>1. ASSUME NEW e, data[e] # EMPTY PROVE data'[e] # EMPTY
    BY <2>1, <1>1, <1>2, <1>3
  <2>2. CASE c = b
    <3>1. data'[c] = k
      BY <1>2, <1>3, <2>2
    <3>2. Slot(k, i[t]) = c
      BY <2>2 DEF k, b, Here
    <3>3. \A m \in 0 .. i[t] - 1 : data'[Slot(k, m)] # EMPTY
      BY <1>1, <2>1 DEF IInv, PassedBuckets, k
    <3> QED
      BY <1>1, <3>1, <3>2, <3>3
  <2>3. CASE c # b
    BY <1>1, <1>2, <1>3, <2>1, <2>3 DEF IInv, KeysReachable
  <2> QED
    BY <2>2, <2>3
<1>8. PassedBuckets'
  <2> SUFFICES ASSUME NEW u \in Threads
               PROVE  PassedBuckets!(u)'
    BY DEF PassedBuckets
  <2>1. CASE u = t
    BY <2>1, LeaveLocals DEF IInv
  <2>2. CASE u # t
    <3>1. /\ pc'[u] = pc[u] /\ key'[u] = key[u] /\ i'[u] = i[u]
          /\ Updating(u)' = Updating(u)
      BY <2>2, LeaveLocals DEF IInv
    <3>2. ASSUME Updating(u), NEW m \in 0 .. i[u] - 1
          PROVE  data'[Slot(key[u], m)] \notin {EMPTY, key[u]}
      <4>1. data[Slot(key[u], m)] \notin {EMPTY, key[u]}
        BY <3>2 DEF IInv, PassedBuckets
      <4> QED
        BY <4>1, <1>2, <1>3
    <3>3. pc[u] = "insertRecheck" => data'[Here(u)] # EMPTY
      <4>1. pc[u] = "insertRecheck" => data[Here(u)] # EMPTY
        BY DEF IInv, PassedBuckets
      <4> QED
        BY <4>1, <1>2, <1>3
    <3>4. Here(u)' = Here(u)
      BY <3>1 DEF Here, Slot
    <3> QED
      BY <3>1, <3>2, <3>3, <3>4 DEF Slot
  <2> QED
    BY <2>1, <2>2
<1>9. LostEraseJustified'
  <2> SUFFICES ASSUME NEW u \in Threads, pc'[u] = "eraseCAS",
                      data'[Here(u)'] # key'[u]
               PROVE  \E S \in seen'[u] : key'[u] \notin S
    BY DEF LostEraseJustified
  <2>1. u # t
    BY LeaveLocals DEF IInv
  <2>2. /\ pc[u] = "eraseCAS" /\ key'[u] = key[u] /\ Here(u)' = Here(u)
        /\ seen[u] \subseteq seen'[u] /\ key[u] \in Keys
    <3> DEFINE d == [data EXCEPT ![Here(t)] = key[t]]
    <3>1. /\ pc'[u] = pc[u] /\ key'[u] = key[u] /\ i'[u] = i[u]
          /\ Updating(u) => seen'[u] = seen[u] \cup {ElementsOf(d)}
      BY <2>1, LeaveLocals DEF IInv
    <3>2. pc[u] = "eraseCAS"
      BY <3>1
    <3>3. Updating(u)
      BY <3>2 DEF IInv, LocalsOK, Updating
    <3>4. key[u] \in Keys
      BY <3>3 DEF IInv, LocalsOK
    <3>5. Here(u)' = Here(u)
      BY <3>1 DEF Here, Slot
    <3> QED
      BY <3>1, <3>2, <3>3, <3>4, <3>5
  <2>3. data[Here(u)] # key[u]
    <3>1. data[b] # key[u]
      BY <1>2, <2>2, TableAssumption DEF EMPTY
    <3> QED
      BY <3>1, <2>2, <1>2, <1>3
  <2> QED
    BY <2>2, <2>3 DEF IInv, LostEraseJustified
<1> QED
  BY <1>4, <1>6, <1>7, <1>8, <1>9 DEF IInv

(* An erase that buries its key shows every other eraser of that key a     *)
(* moment without it, because the key was in no other bucket.              *)
LEMMA BuryKeepsInv ==
  ASSUME IInv, NEW t \in Threads, pc[t] = "eraseCAS",
         data[Here(t)] = key[t],
         Leave(t, TRUE, [data EXCEPT ![Here(t)] = TOMBSTONE]), TypeOK'
  PROVE  IInv'
<1> DEFINE k == key[t]
           b == Here(t)
           d == [data EXCEPT ![Here(t)] = TOMBSTONE]
<1>1. k \in Keys /\ i[t] \in Probes /\ b \in Buckets /\ Updating(t)
  <2>1. k \in Keys /\ i[t] \in Probes /\ Updating(t)
    BY DEF IInv, LocalsOK, Updating
  <2>2. i[t] \in Nat
    BY <2>1, TableAssumption DEF Probes
  <2> QED
    BY <2>1, <2>2, SlotInBuckets DEF Here
<1>2. data' = [data EXCEPT ![b] = TOMBSTONE] /\ data[b] = k /\ data' = d
  BY DEF Leave
<1>3. data \in [Buckets -> Keys \cup {EMPTY, TOMBSTONE}]
  BY DEF IInv, TypeOK, TableTypeOK
<1>4. TOMBSTONE \notin Keys /\ TOMBSTONE # EMPTY /\ EMPTY \notin Keys
  BY TableAssumption DEF TOMBSTONE, EMPTY
<1>5. LocalsOK'
  BY LeaveLocals DEF IInv
<1> HIDE DEF k, b, d
<1>6. KeysUnique'
  BY <1>1, <1>2, <1>3, <1>4 DEF IInv, KeysUnique
<1>7. KeysReachable'
  <2> SUFFICES ASSUME NEW c \in Buckets, data'[c] \in Keys
               PROVE  \E n \in Probes :
                        /\ Slot(data'[c], n) = c
                        /\ \A m \in 0 .. n - 1 : data'[Slot(data'[c], m)] # EMPTY
    BY DEF KeysReachable, Slot
  <2>1. ASSUME NEW e, data[e] # EMPTY PROVE data'[e] # EMPTY
    BY <2>1, <1>1, <1>2, <1>3, <1>4
  <2>2. c # b /\ data'[c] = data[c]
    BY <1>1, <1>2, <1>3, <1>4
  <2> QED
    BY <1>3, <2>1, <2>2 DEF IInv, KeysReachable
<1>8. PassedBuckets'
  <2> SUFFICES ASSUME NEW u \in Threads
               PROVE  PassedBuckets!(u)'
    BY DEF PassedBuckets
  <2>1. CASE u = t
    BY <2>1, LeaveLocals DEF IInv
  <2>2. CASE u # t
    <3>1. /\ pc'[u] = pc[u] /\ key'[u] = key[u] /\ i'[u] = i[u]
          /\ Updating(u)' = Updating(u)
      BY <2>2, LeaveLocals DEF IInv
    <3>2. ASSUME Updating(u), NEW m \in 0 .. i[u] - 1
          PROVE  data'[Slot(key[u], m)] \notin {EMPTY, key[u]}
      <4>1. data[Slot(key[u], m)] \notin {EMPTY, key[u]} /\ key[u] \in Keys
        BY <3>2 DEF IInv, PassedBuckets, LocalsOK
      <4> QED
        BY <4>1, <1>2, <1>3, <1>4
    <3>3. pc[u] = "insertRecheck" => data'[Here(u)] # EMPTY
      <4>1. pc[u] = "insertRecheck" => data[Here(u)] # EMPTY
        BY DEF IInv, PassedBuckets
      <4> QED
        BY <4>1, <1>2, <1>3, <1>4
    <3>4. Here(u)' = Here(u)
      BY <3>1 DEF Here, Slot
    <3> QED
      BY <3>1, <3>2, <3>3, <3>4 DEF Slot
  <2> QED
    BY <2>1, <2>2
<1>9. LostEraseJustified'
  <2> SUFFICES ASSUME NEW u \in Threads, pc'[u] = "eraseCAS",
                      data'[Here(u)'] # key'[u]
               PROVE  \E S \in seen'[u] : key'[u] \notin S
    BY DEF LostEraseJustified
  <2>1. u # t
    BY LeaveLocals DEF IInv
  <2>2. /\ pc[u] = "eraseCAS" /\ key'[u] = key[u] /\ Here(u)' = Here(u)
        /\ seen'[u] = seen[u] \cup {ElementsOf(d)} /\ key[u] \in Keys
    <3>1. /\ pc'[u] = pc[u] /\ key'[u] = key[u] /\ i'[u] = i[u]
          /\ Updating(u) => seen'[u] = seen[u] \cup {ElementsOf(d)}
      BY <2>1, LeaveLocals DEF IInv, d
    <3>2. pc[u] = "eraseCAS"
      BY <3>1
    <3>3. Updating(u)
      BY <3>2 DEF IInv, LocalsOK, Updating
    <3>4. key[u] \in Keys
      BY <3>3 DEF IInv, LocalsOK
    <3>5. Here(u)' = Here(u)
      BY <3>1 DEF Here, Slot
    <3> QED
      BY <3>1, <3>2, <3>3, <3>4, <3>5
  <2>3. CASE data[Here(u)] # key[u]
    BY <2>2, <2>3 DEF IInv, LostEraseJustified
  <2>4. CASE data[Here(u)] = key[u]
    <3>1. Here(u) = b /\ key[u] = k
      BY <2>2, <2>4, <1>1, <1>2, <1>3
    <3>2. k \notin ElementsOf(d)
      <4> SUFFICES ASSUME NEW c \in Buckets, d[c] = k
                   PROVE  FALSE
        BY DEF ElementsOf
      <4> QED
        BY <1>1, <1>2, <1>3, <1>4 DEF IInv, KeysUnique
    <3> QED
      BY <2>2, <3>1, <3>2
  <2> QED
    BY <2>3, <2>4
<1> QED
  BY <1>5, <1>6, <1>7, <1>8, <1>9 DEF IInv

(* A step that leaves the buckets alone keeps the invariant if it keeps    *)
(* the locals in order and what the thread itself has passed.              *)
LEMMA QuietKeepsInv ==
  ASSUME IInv, NEW t \in Threads, data' = data, TypeOK', LocalsOK',
         PassedBuckets!(t)', LostEraseJustified!(t)',
         \A u \in Threads \ {t} :
           /\ pc'[u] = pc[u] /\ op'[u] = op[u]
           /\ key'[u] = key[u] /\ i'[u] = i[u]
           /\ Updating(u) => seen[u] \subseteq seen'[u]
  PROVE  IInv'
<1>1. KeysUnique' /\ KeysReachable'
  BY DEF IInv, KeysUnique, KeysReachable, Slot
<1>2. PassedBuckets'
  <2> SUFFICES ASSUME NEW u \in Threads \ {t}
               PROVE  PassedBuckets!(u)'
    BY DEF PassedBuckets
  <2>1. PassedBuckets!(u)
    BY DEF IInv, PassedBuckets
  <2> QED
    BY <2>1 DEF Updating, Here, Slot
<1>3. LostEraseJustified'
  <2> SUFFICES ASSUME NEW u \in Threads \ {t}
               PROVE  LostEraseJustified!(u)'
    BY DEF LostEraseJustified
  <2>1. LostEraseJustified!(u) /\ (pc[u] = "eraseCAS" => Updating(u))
    BY DEF IInv, LostEraseJustified, LocalsOK, Updating
  <2> QED
    BY <2>1 DEF Here, Slot
<1> QED
  BY <1>1, <1>2, <1>3 DEF IInv

-----------------------------------------------------------------------------
(* The invariant is inductive. *)
LEMMA InvInit == Init => IInv
<1> SUFFICES ASSUME Init PROVE IInv
  OBVIOUS
<1> USE DEF Init, TableInit
<1>1. Cap \in Nat \ {0} /\ EMPTY \notin Keys
  BY TableAssumption DEF EMPTY
<1>2. TypeOK
  BY <1>1 DEF TypeOK, TableTypeOK, Labels
<1>3. LocalsOK
  BY DEF LocalsOK, Updating
<1>4. KeysUnique /\ KeysReachable
  BY <1>1 DEF KeysUnique, KeysReachable
<1>5. PassedBuckets /\ LostEraseJustified
  BY DEF PassedBuckets, LostEraseJustified, Updating
<1> QED
  BY <1>2, <1>3, <1>4, <1>5 DEF IInv

LEMMA InvStep == IInv /\ [Next]_tableVars => IInv'
<1> SUFFICES ASSUME IInv, [Next]_tableVars
             PROVE  IInv'
  OBVIOUS
<1>1. TypeOK /\ LocalsOK /\ TypeOK'
  BY TypeStep DEF IInv
<1>2. Cap \in Nat \ {0}
  BY TableAssumption
<1>3. CASE UNCHANGED tableVars
  BY <1>3, SMTT(30) DEF tableVars, IInv, TypeOK, TableTypeOK, LocalsOK, KeysUnique,
     KeysReachable, PassedBuckets, LostEraseJustified, Updating, Elements,
     ElementsOf, Here, Slot
<1>4. ASSUME NEW t \in Threads, NEW r, Leave(t, r, data)
      PROVE  IInv'
  <2>1. data' = data
    BY <1>4 DEF Leave
  <2>2. PassedBuckets!(t)' /\ LostEraseJustified!(t)'
    BY <1>1, <1>4, LeaveLocals
  <2> QED
    BY <1>1, <1>4, <2>1, <2>2, LeaveLocals, QuietKeepsInv
<1>5. ASSUME NEW t \in Threads, NEW p, Goto(t, p),
             \/ pc[t] = "insert" /\ p = "insertCAS"
             \/ pc[t] = "insertCAS" /\ p = "insertRecheck" /\ data[Here(t)] # EMPTY
             \/ pc[t] = "erase" /\ p = "eraseCAS" /\ data[Here(t)] = key[t]
      PROVE  IInv'
  <2>1. /\ data' = data /\ op' = op /\ key' = key /\ i' = i /\ seen' = seen
        /\ pc'[t] = p /\ \A u \in Threads \ {t} : pc'[u] = pc[u]
    BY <1>1, <1>5 DEF Goto, TypeOK, TableTypeOK
  <2>2. LocalsOK'
    BY <1>1, <1>5, <2>1 DEF LocalsOK, Updating, Elements, ElementsOf
  <2>3. PassedBuckets!(t)' /\ LostEraseJustified!(t)'
    BY <1>5, <2>1 DEF IInv, PassedBuckets, Updating, Here, Slot
  <2> QED
    BY <1>1, <2>1, <2>2, <2>3, QuietKeepsInv
<1>6. ASSUME NEW t \in Threads, NEW p, Advance(t, p), Updating(t),
             p = op[t], data[Here(t)] \notin {EMPTY, key[t]}
      PROVE  IInv'
  <2>1. CASE Leave(t, FALSE, data)
    BY <1>4, <2>1
  <2>2. CASE /\ i[t] + 1 < Cap
             /\ i' = [i EXCEPT ![t] = @ + 1]
             /\ pc' = [pc EXCEPT ![t] = p]
             /\ UNCHANGED <<data, op, key, sum, result, seen>>
    <3>1. /\ data' = data /\ op' = op /\ key' = key /\ seen' = seen
          /\ pc'[t] = p /\ i'[t] = i[t] + 1
          /\ \A u \in Threads \ {t} : pc'[u] = pc[u] /\ i'[u] = i[u]
      BY <1>1, <2>2 DEF TypeOK, TableTypeOK
    <3>2. i[t] \in Nat /\ i'[t] \in Probes /\ p \in {"insert", "erase"}
      BY <1>1, <1>2, <1>6, <2>2, <3>1 DEF LocalsOK, Probes, Updating
    <3>3. LocalsOK'
      <4>1. LocalsOK!(t)'
        BY <1>1, <1>6, <3>1, <3>2 DEF LocalsOK, Updating, Elements, ElementsOf
      <4>2. ASSUME NEW u \in Threads \ {t} PROVE LocalsOK!(u)'
        BY <1>1, <3>1 DEF LocalsOK, Updating, Elements, ElementsOf
      <4> QED
        BY <4>1, <4>2 DEF LocalsOK
    <3>4. \A m \in 0 .. i'[t] - 1 : data[Slot(key[t], m)] \notin {EMPTY, key[t]}
      <4>1. \A m \in 0 .. i[t] - 1 : data[Slot(key[t], m)] \notin {EMPTY, key[t]}
        BY <1>6 DEF IInv, PassedBuckets
      <4>2. data[Slot(key[t], i[t])] \notin {EMPTY, key[t]}
        BY <1>6 DEF Here
      <4>3. \A m \in 0 .. i'[t] - 1 : m \in 0 .. i[t] - 1 \/ m = i[t]
        BY <3>1, <3>2
      <4> QED
        BY <4>1, <4>2, <4>3
    <3>5. PassedBuckets!(t)' /\ LostEraseJustified!(t)'
      BY <3>1, <3>2, <3>4 DEF Slot
    <3> QED
      BY <1>1, <3>1, <3>3, <3>5, QuietKeepsInv
  <2> QED
    BY <1>6, <2>1, <2>2 DEF Advance
<1>7. ASSUME NEW t \in Threads, NEW o, NEW p, NEW k, Enter(t, o, k, p), p = o,
             \/ o \in {"insert", "erase"} /\ k \in Keys
             \/ o = "sum"
      PROVE  IInv'
  <2>1. /\ data' = data /\ i' = i /\ pc'[t] = p /\ op'[t] = o /\ key'[t] = k
        /\ seen'[t] = {Elements} /\ i[t] = 0 /\ 0 \in Probes
        /\ \A u \in Threads \ {t} :
             /\ pc'[u] = pc[u] /\ op'[u] = op[u] /\ key'[u] = key[u]
             /\ seen'[u] = seen[u]
    BY <1>1, <1>2, <1>7 DEF Enter, LocalsOK, TypeOK, TableTypeOK, Probes
  <2>2. LocalsOK'
    <3>1. LocalsOK!(t)'
      BY <1>7, <2>1 DEF Updating, Elements, ElementsOf
    <3>2. ASSUME NEW u \in Threads \ {t} PROVE LocalsOK!(u)'
      <4>1. LocalsOK!(u)
        BY <1>1 DEF LocalsOK
      <4>2. /\ pc'[u] = pc[u] /\ op'[u] = op[u] /\ key'[u] = key[u]
            /\ i'[u] = i[u] /\ seen'[u] = seen[u]
            /\ Updating(u)' = Updating(u)
        BY <2>1 DEF Updating
      <4>3. Elements' = Elements
        BY <2>1 DEF Elements, ElementsOf
      <4> QED
        BY <4>1, <4>2, <4>3
    <3> QED
      BY <3>1, <3>2 DEF LocalsOK
  <2>3. PassedBuckets!(t)' /\ LostEraseJustified!(t)'
    BY <1>7, <2>1
  <2> QED
    BY <1>1, <2>1, <2>2, <2>3, QuietKeepsInv
<1>8. ASSUME NEW t \in Threads, AddBucket(t), pc[t] = "sum"
      PROVE  IInv'
  <2>1. /\ data' = data /\ op' = op /\ key' = key /\ seen' = seen /\ pc' = pc
        /\ \A u \in Threads \ {t} : i'[u] = i[u]
        /\ op[t] \notin {"insert", "erase", "none"}
    BY <1>1, <1>8 DEF AddBucket, LocalsOK, TypeOK, TableTypeOK
  <2>2. LocalsOK'
    BY <1>1, <2>1 DEF LocalsOK, Updating, Elements, ElementsOf
  <2>3. PassedBuckets!(t)' /\ LostEraseJustified!(t)'
    BY <1>8, <2>1 DEF Updating
  <2> QED
    BY <1>1, <2>1, <2>2, <2>3, QuietKeepsInv
<1>9. ASSUME NEW t \in Threads, CallStep(t) \/ Step(t)
      PROVE  IInv'
  <2>1. CASE CallStep(t)
    BY <2>1, <1>7 DEF CallStep, InsertCall, EraseCall, SumCall
  <2>2. CASE InsertRead(t)
    <3>1. op[t] = "insert" /\ Updating(t)
      BY <1>1, <2>2 DEF InsertRead, LocalsOK, Updating
    <3> QED
      BY <2>2, <3>1, <1>4, <1>5, <1>6 DEF InsertRead
  <2>3. CASE InsertCAS(t)
    <3>1. CASE data[Here(t)] = EMPTY
      BY <1>1, <2>3, <3>1, ClaimKeepsInv DEF InsertCAS
    <3>2. CASE data[Here(t)] # EMPTY
      BY <2>3, <3>2, <1>5 DEF InsertCAS
    <3> QED
      BY <3>1, <3>2
  <2>4. CASE InsertRecheck(t)
    <3>1. op[t] = "insert" /\ Updating(t) /\ data[Here(t)] # EMPTY
      BY <1>1, <2>4 DEF InsertRecheck, LocalsOK, Updating, IInv, PassedBuckets
    <3> QED
      BY <2>4, <3>1, <1>4, <1>6 DEF InsertRecheck
  <2>5. CASE EraseRead(t)
    <3>1. op[t] = "erase" /\ Updating(t)
      BY <1>1, <2>5 DEF EraseRead, LocalsOK, Updating
    <3> QED
      BY <2>5, <3>1, <1>4, <1>5, <1>6 DEF EraseRead
  <2>6. CASE EraseCAS(t)
    <3>1. CASE data[Here(t)] = key[t]
      BY <1>1, <2>6, <3>1, BuryKeepsInv DEF EraseCAS
    <3>2. CASE data[Here(t)] # key[t]
      BY <2>6, <3>2, <1>4 DEF EraseCAS
    <3> QED
      BY <3>1, <3>2
  <2>7. CASE SumRead(t)
    BY <2>7, <1>8 DEF SumRead
  <2>8. CASE SumReturn(t)
    BY <2>8, <1>4 DEF SumReturn
  <2> QED
    BY <1>9, <2>1, <2>2, <2>3, <2>4, <2>5, <2>6, <2>7, <2>8 DEF Step
<1> QED
  BY <1>3, <1>9 DEF Next

(* Every reachable state satisfies the invariant. *)
THEOREM Invariant == Spec => []IInv
<1> QED
  BY InvInit, InvStep, PTL DEF Spec

(* Type correctness: no operation leaves the array. *)
THEOREM TypeCorrect == Spec => []TypeOK
<1>1. IInv => TypeOK
  BY DEF IInv
<1> QED
  BY <1>1, Invariant, PTL

(* Concurrent inserts of one key never leave it in two buckets. *)
THEOREM KeyUniqueness == Spec => []KeysUnique
<1>1. IInv => KeysUnique
  BY DEF IInv
<1> QED
  BY <1>1, Invariant, PTL

(* No key is ever hidden behind an empty bucket. *)
THEOREM KeyReachability == Spec => []KeysReachable
<1>1. IInv => KeysReachable
  BY DEF IInv
<1> QED
  BY <1>1, Invariant, PTL

-----------------------------------------------------------------------------
(* Wait-freedom. *)

(* A step of one thread leaves the place of every other thread alone, and  *)
(* its own place is further on afterwards, unless the operation is over.   *)
LEMMA OthersStay ==
  ASSUME TypeOK, NEW t \in Threads, NEW u \in Threads \ {t},
         CallStep(t) \/ Step(t)
  PROVE  pc'[u] = pc[u] /\ i'[u] = i[u]
<1>1. pc \in [Threads -> Labels] /\ i \in [Threads -> 0 .. Cap]
  BY DEF TypeOK, TableTypeOK
<1>2. \A o, k, p : Enter(t, o, k, p) => pc'[u] = pc[u] /\ i'[u] = i[u]
  BY <1>1 DEF Enter
<1>3. \A r, d : Leave(t, r, d) => pc'[u] = pc[u] /\ i'[u] = i[u]
  BY <1>1 DEF Leave
<1>4. \A p : Goto(t, p) => pc'[u] = pc[u] /\ i'[u] = i[u]
  BY <1>1 DEF Goto
<1>5. \A p : Advance(t, p) => pc'[u] = pc[u] /\ i'[u] = i[u]
  BY <1>1, <1>3 DEF Advance
<1>6. AddBucket(t) => pc'[u] = pc[u] /\ i'[u] = i[u]
  BY <1>1 DEF AddBucket
<1>7. CASE CallStep(t)
  BY <1>2, <1>7 DEF CallStep, InsertCall, EraseCall, SumCall
<1>8. CASE Step(t)
  BY <1>3, <1>4, <1>5, <1>6, <1>8
     DEF Step, InsertRead, InsertCAS, InsertRecheck, EraseRead, EraseCAS,
         SumRead, SumReturn
<1> QED
  BY <1>7, <1>8

LEMMA EachStepGoesOn ==
  ASSUME TypeOK, NEW t \in Threads, CallStep(t) \/ Step(t)
  PROVE  GoesOn(t)
<1>1. /\ pc \in [Threads -> Labels] /\ i \in [Threads -> 0 .. Cap]
      /\ i[t] \in Int
  BY TableAssumption DEF TypeOK, TableTypeOK
<1>2. CASE CallStep(t)
  BY <1>2 DEF CallStep, InsertCall, EraseCall, SumCall, Enter, GoesOn
<1>3. \A r, d : Leave(t, r, d) => GoesOn(t)
  BY <1>1 DEF Leave, GoesOn
<1>4. ASSUME NEW p \in {"insert", "erase"}, Advance(t, p)
      PROVE  GoesOn(t)
  <2>1. CASE Leave(t, FALSE, data)
    BY <1>3, <2>1
  <2>2. CASE i' = [i EXCEPT ![t] = @ + 1] /\ pc' = [pc EXCEPT ![t] = p]
    <3>1. i'[t] = i[t] + 1 /\ pc'[t] = p
      BY <1>1, <2>2
    <3>2. Stage(pc'[t], i'[t]) = 3 * i[t] + 3
      BY <1>1, <3>1 DEF Stage
    <3>3. pc[t] # "idle" => Stage(pc[t], i[t]) <= 3 * i[t] + 2
      BY <1>1 DEF Stage, Labels
    <3>4. Stage(pc[t], i[t]) \in Int \/ pc[t] = "idle"
      BY <1>1 DEF Stage, Labels
    <3> QED
      BY <1>1, <3>2, <3>3, <3>4 DEF GoesOn
  <2> QED
    BY <1>4, <2>1, <2>2 DEF Advance
<1>5. ASSUME NEW p \in {"insertCAS", "eraseCAS", "insertRecheck"}, Goto(t, p),
             pc[t] \in {"insert", "erase", "insertCAS"},
             p # "insertRecheck" => pc[t] # "insertCAS"
      PROVE  GoesOn(t)
  <2>1. pc'[t] = p /\ i'[t] = i[t]
    BY <1>1, <1>5 DEF Goto
  <2>2. Stage(pc[t], i[t]) < Stage(p, i[t])
    BY <1>1, <1>5 DEF Stage
  <2> QED
    BY <2>1, <2>2 DEF GoesOn
<1>6. CASE InsertRead(t)
  BY <1>3, <1>4, <1>5, <1>6 DEF InsertRead
<1>7. CASE InsertCAS(t)
  BY <1>3, <1>5, <1>7 DEF InsertCAS
<1>8. CASE InsertRecheck(t)
  BY <1>3, <1>4, <1>8 DEF InsertRecheck
<1>9. CASE EraseRead(t)
  BY <1>3, <1>4, <1>5, <1>9 DEF EraseRead
<1>10. CASE EraseCAS(t)
  BY <1>3, <1>10 DEF EraseCAS
<1>11. CASE SumRead(t)
  <2>1. i'[t] = i[t] + 1 /\ pc'[t] = "sum" /\ pc[t] = "sum"
    BY <1>1, <1>11 DEF SumRead, AddBucket
  <2> QED
    BY <1>1, <2>1 DEF GoesOn, Stage
<1>12. CASE SumReturn(t)
  BY <1>3, <1>12 DEF SumReturn
<1> QED
  BY <1>2, <1>6, <1>7, <1>8, <1>9, <1>10, <1>11, <1>12 DEF Step

(* No step of an operation takes it back, whatever the other threads do:   *)
(* with at most 3 * Cap + 1 stages to go through, every operation ends     *)
(* after a bounded number of its own steps.                                *)
THEOREM WaitFreedom == Spec => WaitFree
<1>1. IInv /\ [Next]_tableVars => [\A t \in Threads : GoesOn(t)]_tableVars
  <2> SUFFICES ASSUME IInv, Next, NEW t \in Threads
               PROVE  GoesOn(t)
    OBVIOUS
  <2>1. PICK u \in Threads : CallStep(u) \/ Step(u)
    BY DEF Next
  <2>2. CASE u = t
    BY <2>1, <2>2, EachStepGoesOn DEF IInv
  <2>3. CASE u # t
    BY <2>1, <2>3, OthersStay DEF IInv, GoesOn
  <2> QED
    BY <2>2, <2>3
<1> QED
  BY <1>1, Invariant, PTL DEF Spec, WaitFree

-----------------------------------------------------------------------------
(* Refinement: algorithm C implements BoundedSet. *)

(* The set of used buckets is finite and grows by one when one is claimed. *)
LEMMA UsedFinite == IsFiniteSet(Used) /\ Cardinality(Used) \in Nat
<1>1. IsFiniteSet(Buckets)
  BY FS_Interval, TableAssumption DEF Buckets
<1>2. Used \subseteq Buckets
  BY DEF Used
<1> QED
  BY <1>1, <1>2, FS_Subset, FS_CardinalityType

(* The end of an update is the abstract return of the same value. *)
LEMMA LeaveIsReturn ==
  ASSUME IInv, NEW t \in Threads, NEW r, NEW d, Leave(t, r, d), Updating(t)
  PROVE  Abstract!Return(t, r, ElementsOf(d))
<1>1. Elements' = ElementsOf(d) /\ result' = [result EXCEPT ![t] = r]
  BY DEF Leave, Elements, ElementsOf
<1>2. /\ ~ Updating(t)'
      /\ \A u \in Threads \ {t} :
           /\ op'[u] = op[u] /\ key'[u] = key[u]
           /\ Updating(u)' = Updating(u)
           /\ Updating(u) => seen'[u] = seen[u] \cup {ElementsOf(d)}
  BY LeaveLocals DEF IInv
<1>3. absCall' = [absCall EXCEPT ![t] = Abstract!Idle]
  BY <1>2 DEF absCall, Abstract!Idle
<1>4. \A u \in Threads : (absCall[u] = Abstract!Idle) = ~ Updating(u)
  BY DEF absCall, Abstract!Idle, Updating
<1>5. absSeen' = [u \in Threads |-> IF u = t \/ absCall[u] = Abstract!Idle
                                   THEN {} ELSE absSeen[u] \cup {ElementsOf(d)}]
  BY <1>2, <1>4 DEF absSeen
<1> QED
  BY <1>1, <1>3, <1>5 DEF Abstract!Return

(* A step of another kind stutters in the abstract: what the abstract      *)
(* variables are made of does not change.                                  *)
LEMMA SameLocals ==
  ASSUME data' = data, result' = result, op' = op, key' = key, seen' = seen
  PROVE  UNCHANGED Abstract!boundedVars
<1>1. Elements' = Elements /\ Used' = Used
  BY DEF Elements, ElementsOf, Used
<1>2. absCall' = absCall /\ absSeen' = absSeen
  BY DEF absCall, absSeen, Updating
<1> QED
  BY <1>1, <1>2 DEF Abstract!boundedVars, Abstract!setVars

(* An update that fails because its key is there, or is not there, now. *)
LEMMA FailureNow ==
  ASSUME IInv, NEW t \in Threads, Leave(t, FALSE, data),
         \/ op[t] = "insert" /\ key[t] \in Elements
         \/ op[t] = "erase" /\ \E S \in seen[t] : key[t] \notin S
  PROVE  Abstract!BoundedStep(t)
<1>1. Updating(t) /\ Elements \in seen[t]
  BY DEF IInv, LocalsOK, Updating
<1>2. Abstract!Return(t, FALSE, Elements)
  BY <1>1, LeaveIsReturn DEF Elements
<1>3. absCall[t].op = op[t] /\ absCall[t].key = key[t] /\ absSeen[t] = seen[t]
  BY <1>1 DEF absCall, absSeen
<1>4. Abstract!InsertFails(t) \/ Abstract!EraseFails(t)
  BY <1>1, <1>2, <1>3, Zenon DEF Abstract!InsertFails, Abstract!EraseFails
<1>5. Used' = Used
  BY DEF Leave, Used
<1> QED
  BY <1>4, <1>5 DEF Abstract!BoundedStep

(* An insert that has probed every bucket in vain is refused rightly. *)
LEMMA RefusalNow ==
  ASSUME IInv, NEW t \in Threads, Leave(t, FALSE, data), op[t] = "insert",
         i[t] + 1 >= Cap, data[Here(t)] # EMPTY
  PROVE  Abstract!BoundedStep(t)
<1>1. /\ Updating(t) /\ key[t] \in Keys /\ i[t] \in Probes
      /\ Cap \in Nat \ {0} /\ i[t] = Cap - 1
  BY TableAssumption DEF IInv, LocalsOK, Updating, Probes
<1>2. ASSUME NEW n \in Probes
      PROVE  Slot(key[t], n) \in Used
  <2>1. n \in Nat /\ (n \in 0 .. i[t] - 1 \/ n = i[t])
    BY <1>1 DEF Probes
  <2>2. data[Slot(key[t], n)] # EMPTY
    BY <1>1, <2>1 DEF IInv, PassedBuckets, Here
  <2> QED
    BY <1>1, <2>1, <2>2, SlotInBuckets DEF Used
<1>3. Reached(key[t]) \subseteq Used
  BY <1>2 DEF Reached
<1>4. Cardinality(Reached(key[t])) <= Cardinality(Used)
  BY <1>3, UsedFinite, FS_Subset
<1>5. Abstract!Return(t, FALSE, Elements)
  BY <1>1, LeaveIsReturn DEF Elements
<1>6. absCall[t].op = op[t] /\ absCall[t].key = key[t]
  BY <1>1 DEF absCall
<1>7. Cardinality(Used)
        >= [k \in Keys |-> Cardinality(Reached(k))][absCall[t].key]
  BY <1>1, <1>4, <1>6, UsedFinite
<1>8. Abstract!Refuse(t)
  BY <1>5, <1>6, <1>7, Zenon DEF Abstract!Refuse
<1>9. Used' = Used
  BY DEF Leave, Used
<1> QED
  BY <1>8, <1>9 DEF Abstract!BoundedStep

(* An erase that has probed every bucket in vain has no key to erase. *)
LEMMA ExhaustedMeansAbsent ==
  ASSUME IInv, NEW t \in Threads, op[t] = "erase", i[t] + 1 >= Cap,
         data[Here(t)] # key[t]
  PROVE  key[t] \notin Elements
<1> DEFINE k == key[t]
<1> SUFFICES ASSUME NEW b \in Buckets, data[b] = k
             PROVE  FALSE
  BY DEF Elements, ElementsOf
<1>1. /\ Updating(t) /\ k \in Keys /\ i[t] \in Probes
      /\ Cap \in Nat \ {0} /\ i[t] = Cap - 1
  BY TableAssumption DEF IInv, LocalsOK, Updating, Probes
<1>2. PICK n \in Probes : Slot(k, n) = b
  BY <1>1 DEF IInv, KeysReachable
<1>3. n \in 0 .. i[t] - 1 \/ n = i[t]
  BY <1>1, <1>2 DEF Probes
<1>4. CASE n = i[t]
  BY <1>2, <1>4 DEF Here
<1>5. CASE n \in 0 .. i[t] - 1
  BY <1>1, <1>2, <1>5 DEF IInv, PassedBuckets
<1> QED
  BY <1>3, <1>4, <1>5

(* An update in progress looks at a bucket of the array. *)
LEMMA UpdateLocals ==
  ASSUME IInv, NEW t \in Threads, Updating(t)
  PROVE  /\ key[t] \in Keys /\ i[t] \in Probes /\ Here(t) \in Buckets
         /\ Elements \in seen[t]
         /\ \A m \in 0 .. i[t] - 1 : data[Slot(key[t], m)] \notin {EMPTY, key[t]}
         /\ data \in [Buckets -> Keys \cup {EMPTY, TOMBSTONE}]
         /\ EMPTY \notin Keys /\ TOMBSTONE \notin Keys /\ TOMBSTONE # EMPTY
<1>1. key[t] \in Keys /\ i[t] \in Probes /\ Elements \in seen[t]
  BY DEF IInv, LocalsOK
<1>2. i[t] \in Nat
  BY <1>1, TableAssumption DEF Probes
<1>3. Here(t) \in Buckets
  BY <1>1, <1>2, SlotInBuckets DEF Here
<1>4. EMPTY \notin Keys /\ TOMBSTONE \notin Keys /\ TOMBSTONE # EMPTY
  BY TableAssumption DEF EMPTY, TOMBSTONE
<1> QED
  BY <1>1, <1>3, <1>4 DEF IInv, PassedBuckets, TypeOK, TableTypeOK

(* A successful CAS of an insert is the abstract Insert. *)
LEMMA ClaimIsInsert ==
  ASSUME IInv, NEW t \in Threads, pc[t] = "insertCAS", data[Here(t)] = EMPTY,
         Leave(t, TRUE, [data EXCEPT ![Here(t)] = key[t]])
  PROVE  Abstract!BoundedStep(t)
<1> DEFINE d == [data EXCEPT ![Here(t)] = key[t]]
<1>1. /\ Updating(t) /\ op[t] = "insert" /\ key[t] \in Keys /\ i[t] \in Probes
      /\ Here(t) \in Buckets /\ EMPTY \notin Keys /\ TOMBSTONE \notin Keys
      /\ TOMBSTONE # EMPTY /\ data' = d
      /\ data \in [Buckets -> Keys \cup {EMPTY, TOMBSTONE}]
  <2>1. Updating(t) /\ op[t] = "insert"
    BY DEF IInv, LocalsOK, Updating
  <2> QED
    BY <2>1, UpdateLocals DEF Leave
<1>2. key[t] \notin Elements
  <2>1. \A m \in 0 .. i[t] - 1 : data[Slot(key[t], m)] \notin {EMPTY, key[t]}
    BY <1>1 DEF IInv, PassedBuckets
  <2> QED
    BY <1>1, <2>1, AbsentBeforeEmpty DEF IInv, Here
<1>3. ElementsOf(d) = Elements \cup {key[t]}
  <2>1. \A b \in Buckets : d[b] = IF b = Here(t) THEN key[t] ELSE data[b]
    BY <1>1
  <2>2. d[Here(t)] = key[t] /\ data[Here(t)] \notin Keys
    BY <1>1
  <2> HIDE DEF d
  <2>3. ElementsOf(d) \subseteq Elements \cup {key[t]}
    BY <2>1 DEF ElementsOf, Elements
  <2>4. key[t] \in ElementsOf(d)
    BY <1>1, <2>2 DEF ElementsOf
  <2>5. ASSUME NEW b \in Buckets, data[b] \in Keys PROVE data[b] \in ElementsOf(d)
    BY <2>1, <2>2, <2>5 DEF ElementsOf
  <2>6. Elements \subseteq ElementsOf(d)
    BY <2>5 DEF Elements, ElementsOf
  <2> QED
    BY <2>3, <2>4, <2>6
<1>4. Used' = Used \cup {Here(t)} /\ Here(t) \notin Used
  BY <1>1 DEF Used
<1>5. Cardinality(Used)' = Cardinality(Used) + 1
  BY <1>4, UsedFinite, FS_AddElement
<1>6. Abstract!Return(t, TRUE, Elements \cup {key[t]})
  <2>1. Abstract!Return(t, TRUE, ElementsOf(d))
    BY <1>1, LeaveIsReturn
  <2> QED
    BY <2>1, <1>3, Zenon
<1>7. absCall[t].op = op[t] /\ absCall[t].key = key[t]
  BY <1>1 DEF absCall
<1>8. Abstract!Insert(t)
  BY <1>1, <1>2, <1>6, <1>7, Zenon DEF Abstract!Insert
<1> QED
  BY <1>5, <1>8 DEF Abstract!BoundedStep

(* A successful CAS of an erase is the abstract Erase. *)
LEMMA BuryIsErase ==
  ASSUME IInv, NEW t \in Threads, pc[t] = "eraseCAS", data[Here(t)] = key[t],
         Leave(t, TRUE, [data EXCEPT ![Here(t)] = TOMBSTONE])
  PROVE  Abstract!BoundedStep(t)
<1> DEFINE d == [data EXCEPT ![Here(t)] = TOMBSTONE]
<1>1. /\ Updating(t) /\ op[t] = "erase" /\ key[t] \in Keys /\ i[t] \in Probes
      /\ Here(t) \in Buckets /\ EMPTY \notin Keys /\ TOMBSTONE \notin Keys
      /\ TOMBSTONE # EMPTY /\ data' = d
      /\ data \in [Buckets -> Keys \cup {EMPTY, TOMBSTONE}]
  <2>1. Updating(t) /\ op[t] = "erase"
    BY DEF IInv, LocalsOK, Updating
  <2> QED
    BY <2>1, UpdateLocals DEF Leave
<1>2. \A b \in Buckets : d[b] = IF b = Here(t) THEN TOMBSTONE ELSE data[b]
  BY <1>1
<1>3. key[t] \in Elements
  BY <1>1 DEF Elements, ElementsOf
<1>4. ElementsOf(d) = Elements \ {key[t]}
  <2> HIDE DEF d
  <2>1. key[t] \notin ElementsOf(d)
    BY <1>1, <1>2 DEF ElementsOf, IInv, KeysUnique
  <2>2. ElementsOf(d) \subseteq Elements
    BY <1>1, <1>2 DEF ElementsOf, Elements
  <2>3. Elements \ {key[t]} \subseteq ElementsOf(d)
    BY <1>2 DEF ElementsOf, Elements
  <2> QED
    BY <2>1, <2>2, <2>3
<1>5. Used' = Used
  <2> HIDE DEF d
  <2> QED
    BY <1>1, <1>2 DEF Used
<1>6. Abstract!Return(t, TRUE, Elements \ {key[t]})
  <2>1. Abstract!Return(t, TRUE, ElementsOf(d))
    BY <1>1, LeaveIsReturn
  <2> QED
    BY <2>1, <1>4, Zenon
<1>7. absCall[t].op = op[t] /\ absCall[t].key = key[t]
  BY <1>1 DEF absCall
<1>8. Abstract!Erase(t)
  BY <1>1, <1>3, <1>6, <1>7, Zenon DEF Abstract!Erase
<1> QED
  BY <1>5, <1>8 DEF Abstract!BoundedStep

(* The call of an update is the abstract call. *)
LEMMA EnterIsCall ==
  ASSUME IInv, NEW t \in Threads, NEW o \in {"insert", "erase"}, NEW k \in Keys,
         Enter(t, o, k, o)
  PROVE  Abstract!BoundedStep(t)
<1>1. /\ op[t] = "none" /\ op' = [op EXCEPT ![t] = o] /\ key' = [key EXCEPT ![t] = k]
      /\ seen' = [seen EXCEPT ![t] = {Elements}] /\ data' = data
      /\ result' = result /\ ~ Updating(t)
  BY DEF Enter, IInv, LocalsOK, Updating
<1>2. op'[t] = o /\ key'[t] = k /\ seen'[t] = {Elements}
  BY <1>1 DEF IInv, TypeOK, TableTypeOK
<1>3. absCall[t] = Abstract!Idle
  BY <1>1 DEF absCall, Abstract!Idle
<1> DEFINE new == [op |-> o, key |-> k]
<1>4. /\ Updating(t)'
      /\ \A u \in Threads \ {t} :
           /\ op'[u] = op[u] /\ key'[u] = key[u] /\ seen'[u] = seen[u]
           /\ Updating(u)' = Updating(u)
  BY <1>1, <1>2 DEF Updating
<1>5. absCall' = [absCall EXCEPT ![t] = new]
  BY <1>2, <1>4 DEF absCall
<1>6. absSeen' = [absSeen EXCEPT ![t] = {Elements}]
  BY <1>2, <1>4 DEF absSeen
<1>7. Elements' = Elements /\ Used' = Used
  BY <1>1 DEF Elements, ElementsOf, Used
<1>8. Abstract!Call(t, o, k)
  BY <1>1, <1>3, <1>5, <1>6, <1>7 DEF Abstract!Call
<1> QED
  BY <1>7, <1>8 DEF Abstract!BoundedStep

LEMMA Simulation == IInv /\ [Next]_tableVars => [Abstract!BoundedNext]_(Abstract!boundedVars)
<1> SUFFICES ASSUME IInv, [Next]_tableVars
             PROVE  Abstract!BoundedNext \/ UNCHANGED Abstract!boundedVars
  OBVIOUS
<1>1. CASE UNCHANGED tableVars
  BY <1>1, SameLocals DEF tableVars
<1>2. ASSUME NEW t \in Threads, CallStep(t) \/ Step(t)
      PROVE  Abstract!BoundedStep(t) \/ UNCHANGED Abstract!boundedVars
  <2>1. ASSUME NEW p, Goto(t, p)
        PROVE  UNCHANGED Abstract!boundedVars
    <3>1. /\ data' = data /\ result' = result /\ op' = op
          /\ key' = key /\ seen' = seen
      BY <2>1 DEF Goto
    <3> QED
      BY <3>1, SameLocals
  <2>2. ASSUME NEW p, Advance(t, p), ~ (i[t] + 1 >= Cap /\ Leave(t, FALSE, data))
        PROVE  UNCHANGED Abstract!boundedVars
    <3>1. /\ data' = data /\ result' = result /\ op' = op
          /\ key' = key /\ seen' = seen
      BY <2>2 DEF Advance
    <3> QED
      BY <3>1, SameLocals
  <2>3. ASSUME pc[t] \in {"insert", "insertRecheck"}, Advance(t, "insert"),
               data[Here(t)] # EMPTY
        PROVE  Abstract!BoundedStep(t) \/ UNCHANGED Abstract!boundedVars
    <3>1. op[t] = "insert"
      BY <2>3 DEF IInv, LocalsOK
    <3> QED
      BY <2>2, <2>3, <3>1, RefusalNow
  <2>4. CASE CallStep(t)
    <3>1. CASE \E k \in Keys : InsertCall(t, k) \/ EraseCall(t, k)
      BY <3>1, EnterIsCall DEF InsertCall, EraseCall
    <3>2. CASE SumCall(t)
      <4>1. /\ op[t] = "none" /\ data' = data /\ result' = result
            /\ op' = [op EXCEPT ![t] = "sum"] /\ key' = [key EXCEPT ![t] = 0]
            /\ seen' = [seen EXCEPT ![t] = {Elements}]
        BY <3>2 DEF SumCall, Enter, IInv, LocalsOK
      <4>2. ~ Updating(t) /\ ~ Updating(t)'
        BY <4>1 DEF Updating, IInv, TypeOK, TableTypeOK
      <4>3. \A u \in Threads \ {t} : /\ op'[u] = op[u] /\ key'[u] = key[u]
                                    /\ seen'[u] = seen[u]
                                    /\ Updating(u)' = Updating(u)
        BY <4>1 DEF Updating
      <4>4. absCall' = absCall /\ absSeen' = absSeen
        BY <4>2, <4>3 DEF absCall, absSeen
      <4>5. Elements' = Elements /\ Used' = Used
        BY <4>1 DEF Elements, ElementsOf, Used
      <4> QED
        BY <4>1, <4>4, <4>5 DEF Abstract!boundedVars, Abstract!setVars
    <3> QED
      BY <2>4, <3>1, <3>2 DEF CallStep
  <2>5. CASE InsertRead(t)
    <3>1. op[t] = "insert" /\ pc[t] = "insert" /\ key[t] \in Keys
          /\ Here(t) \in Buckets
      <4>1. op[t] = "insert" /\ pc[t] = "insert" /\ Updating(t)
        BY <2>5 DEF InsertRead, IInv, LocalsOK, Updating
      <4> QED
        BY <4>1, UpdateLocals
    <3>2. CASE data[Here(t)] = key[t] /\ Leave(t, FALSE, data)
      BY <3>1, <3>2, FailureNow DEF Elements, ElementsOf
    <3> QED
      BY <2>1, <2>3, <2>5, <3>1, <3>2 DEF InsertRead
  <2>6. CASE InsertCAS(t)
    BY <2>1, <2>6, ClaimIsInsert DEF InsertCAS
  <2>7. CASE InsertRecheck(t)
    <3>1. op[t] = "insert" /\ pc[t] = "insertRecheck" /\ key[t] \in Keys
          /\ Here(t) \in Buckets /\ data[Here(t)] # EMPTY
      <4>1. /\ op[t] = "insert" /\ pc[t] = "insertRecheck" /\ Updating(t)
            /\ data[Here(t)] # EMPTY
        BY <2>7 DEF InsertRecheck, IInv, LocalsOK, Updating, PassedBuckets
      <4> QED
        BY <4>1, UpdateLocals
    <3>2. CASE data[Here(t)] = key[t] /\ Leave(t, FALSE, data)
      BY <3>1, <3>2, FailureNow DEF Elements, ElementsOf
    <3> QED
      BY <2>3, <2>7, <3>1, <3>2 DEF InsertRecheck
  <2>8. CASE EraseRead(t)
    <3>1. /\ op[t] = "erase" /\ key[t] \in Keys /\ i[t] \in Probes
          /\ Elements \in seen[t]
          /\ \A m \in 0 .. i[t] - 1 : data[Slot(key[t], m)] \notin {EMPTY, key[t]}
      BY <2>8, UpdateLocals DEF EraseRead, IInv, LocalsOK, Updating
    <3>2. CASE data[Here(t)] = EMPTY /\ Leave(t, FALSE, data)
      <4>1. key[t] \notin Elements
        BY <3>1, <3>2, AbsentBeforeEmpty DEF IInv, Here
      <4> QED
        BY <3>1, <3>2, <4>1, FailureNow
    <3>3. CASE data[Here(t)] \notin {key[t], EMPTY} /\ Advance(t, "erase")
      <4>1. CASE i[t] + 1 >= Cap /\ Leave(t, FALSE, data)
        BY <3>1, <3>3, <4>1, ExhaustedMeansAbsent, FailureNow
      <4> QED
        BY <2>2, <3>3, <4>1
    <3> QED
      BY <2>1, <2>8, <3>2, <3>3 DEF EraseRead
  <2>9. CASE EraseCAS(t)
    <3>1. CASE data[Here(t)] # key[t] /\ Leave(t, FALSE, data)
      <4>1. op[t] = "erase" /\ \E S \in seen[t] : key[t] \notin S
        BY <2>9, <3>1 DEF EraseCAS, IInv, LocalsOK, LostEraseJustified
      <4> QED
        BY <3>1, <4>1, FailureNow
    <3> QED
      BY <2>9, <3>1, BuryIsErase DEF EraseCAS
  <2>10. CASE SumRead(t)
    <3>1. /\ data' = data /\ result' = result /\ op' = op
          /\ key' = key /\ seen' = seen
      BY <2>10 DEF SumRead, AddBucket
    <3> QED
      BY <3>1, SameLocals
  <2>11. CASE SumReturn(t)
    <3>1. /\ ~ Updating(t) /\ ~ Updating(t)' /\ data' = data
          /\ result' = result
          /\ \A u \in Threads \ {t} :
               /\ op'[u] = op[u] /\ key'[u] = key[u]
               /\ Updating(u)' = Updating(u)
               /\ Updating(u) => seen'[u] = seen[u] \cup {ElementsOf(data)}
      <4>1. Leave(t, result[t], data) /\ pc[t] = "sum"
        BY <2>11 DEF SumReturn
      <4>2. ~ Updating(t)
        BY <4>1 DEF IInv, LocalsOK, Updating
      <4>3. data' = data /\ result' = result
        BY <4>1 DEF Leave, IInv, TypeOK, TableTypeOK
      <4> QED
        BY <4>1, <4>2, <4>3, LeaveLocals DEF IInv
    <3>2. \A u \in Threads : Updating(u) => Elements \in seen[u]
      BY DEF IInv, LocalsOK
    <3>3. absCall' = absCall /\ absSeen' = absSeen
      BY <3>1, <3>2 DEF absCall, absSeen, Elements
    <3>4. Elements' = Elements /\ Used' = Used
      BY <3>1 DEF Elements, ElementsOf, Used
    <3> QED
      BY <3>1, <3>3, <3>4 DEF Abstract!boundedVars, Abstract!setVars
  <2> QED
    BY <1>2, <2>4, <2>5, <2>6, <2>7, <2>8, <2>9, <2>10, <2>11 DEF Step
<1> QED
  BY <1>1, <1>2 DEF Next, Abstract!BoundedNext

(* Algorithm C is a linearizable set that refuses an insert only when the  *)
(* whole probe path of its key has been used up.                           *)
THEOREM Refinement == Spec => ImplementsSet
<1>1. Init => Abstract!BoundedInit
  <2> SUFFICES ASSUME Init PROVE Abstract!BoundedInit
    OBVIOUS
  <2>1. Elements = {} /\ Used = {}
    BY TableAssumption DEF Init, TableInit, Elements, ElementsOf, Used, EMPTY
  <2>2. /\ absCall = [t \in Threads |-> Abstract!Idle]
        /\ absSeen = [t \in Threads |-> {}]
        /\ result = [t \in Threads |-> FALSE]
    BY DEF Init, TableInit, absCall, absSeen, Updating, Abstract!Idle
  <2> QED
    BY <2>1, <2>2, FS_EmptySet
       DEF Abstract!BoundedInit, Abstract!SetInit, Abstract!FilledInit
<1> QED
  BY <1>1, Invariant, Simulation, PTL DEF Spec, ImplementsSet, Abstract!BoundedSpec

-----------------------------------------------------------------------------
(* What an unlocked getSumOfKeys is worth. *)

(* The keys in the first n buckets, and those that were in the table ever  *)
(* since thread t called its operation.                                    *)
KeysBefore(n) == {data[b] : b \in 0 .. n - 1} \cap Keys
StableKeys(t) == {k \in Keys : \A S \in seen[t] : k \in S}

(* What getSumOfKeys has added up so far: the stable keys it has passed,   *)
(* and exactly the keys it has passed as long as the table never changed.  *)
SumOK(t) ==
  /\ op[t] # "sum" => sum[t] = 0
  /\ op[t] = "sum" =>
       /\ Elements \in seen[t]
       /\ SumSet(StableKeys(t) \cap KeysBefore(i[t])) <= sum[t]
       /\ seen[t] = {Elements} => sum[t] = SumSet(KeysBefore(i[t]))

SumInv == \A t \in Threads : SumOK(t)

LEMMA KeysBeforeFinite ==
  ASSUME TypeOK, NEW n \in 0 .. Cap
  PROVE  IsFiniteSet(KeysBefore(n)) /\ KeysBefore(n) \subseteq Nat
<1>1. n \in Nat /\ Keys \subseteq Nat
  BY TableAssumption
<1>2. IsFiniteSet(0 .. n - 1)
  BY <1>1, FS_Interval
<1>3. IsFiniteSet({data[b] : b \in 0 .. n - 1})
  <2> SUFFICES ASSUME NEW h, h = [b \in 0 .. n - 1 |-> data[b]]
               PROVE  IsFiniteSet({data[b] : b \in 0 .. n - 1})
    OBVIOUS
  <2>1. h \in Surjection(0 .. n - 1, {data[b] : b \in 0 .. n - 1})
    BY DEF Surjection
  <2> QED
    BY <1>2, <2>1, FS_Surjection
<1>4. KeysBefore(n) \in SUBSET {data[b] : b \in 0 .. n - 1}
  BY DEF KeysBefore
<1> QED
  BY <1>1, <1>3, <1>4, FS_Subset DEF KeysBefore

LEMMA KeysBeforeNext ==
  ASSUME TypeOK, KeysUnique, NEW n \in 0 .. Cap, n < Cap
  PROVE  /\ data[n] \in Keys => /\ KeysBefore(n + 1) = KeysBefore(n) \cup {data[n]}
                                /\ data[n] \notin KeysBefore(n)
         /\ data[n] \notin Keys => KeysBefore(n + 1) = KeysBefore(n)
<1>1. n \in Nat /\ Cap \in Nat
  BY TableAssumption
<1>2. 0 .. (n + 1) - 1 = (0 .. n - 1) \cup {n} /\ n \notin 0 .. n - 1
  BY <1>1
<1>3. (0 .. n - 1) \cup {n} \subseteq Buckets
  BY <1>1 DEF Buckets
<1>4. \A b \in 0 .. n - 1 : data[b] \in Keys => data[b] # data[n]
  BY <1>2, <1>3 DEF KeysUnique
<1> QED
  BY <1>2, <1>4 DEF KeysBefore

LEMMA AllKeys ==
  ASSUME TypeOK
  PROVE  KeysBefore(0) = {} /\ KeysBefore(Cap) = Elements
BY TableAssumption DEF KeysBefore, Elements, ElementsOf, Buckets

(* The ways in which a step changes the buckets. *)
Claims(b, k) ==
  b \in Buckets /\ k \in Keys /\ data[b] = EMPTY /\ data' = [data EXCEPT ![b] = k]
Buries(b) ==
  b \in Buckets /\ data[b] \in Keys /\ data' = [data EXCEPT ![b] = TOMBSTONE]

DataChange == data' = data \/ (\E b, k : Claims(b, k)) \/ (\E b : Buries(b))

(* A bucket with a key keeps it or is buried; another bucket gets a key    *)
(* only from a claim.                                                      *)
LEMMA KeysStayPut ==
  ASSUME TypeOK, KeysUnique, KeysUnique', DataChange,
         NEW b \in Buckets, data'[b] \in Keys, data'[b] \in Elements
  PROVE  data[b] = data'[b]
<1>0. data \in [Buckets -> Keys \cup {EMPTY, TOMBSTONE}] /\ EMPTY \notin Keys /\ TOMBSTONE \notin Keys
  BY TableAssumption DEF TypeOK, TableTypeOK, EMPTY, TOMBSTONE
<1>1. PICK c \in Buckets : data[c] = data'[b]
  BY DEF Elements, ElementsOf
<1>2. CASE data' = data
  BY <1>2
<1>3. ASSUME NEW a, NEW k, Claims(a, k) PROVE data[b] = data'[b]
  <2>1. a # c
    BY <1>0, <1>1, <1>3 DEF Claims
  <2>2. data'[c] = data[c]
    BY <1>0, <2>1, <1>3 DEF Claims
  <2>3. b = c
    BY <1>1, <2>2 DEF KeysUnique
  <2> QED
    BY <1>1, <2>3
<1>4. ASSUME NEW a, Buries(a) PROVE data[b] = data'[b]
  BY <1>0, <1>4 DEF Buries
<1> QED
  BY <1>2, <1>3, <1>4 DEF DataChange

(* Every change shows in the contents of the table. *)
LEMMA ChangeShows ==
  ASSUME TypeOK, KeysUnique, KeysUnique', DataChange, Elements' = Elements
  PROVE  data' = data
<1>0. /\ data \in [Buckets -> Keys \cup {EMPTY, TOMBSTONE}]
      /\ EMPTY \notin Keys /\ TOMBSTONE \notin Keys
  BY TableAssumption DEF TypeOK, TableTypeOK, EMPTY, TOMBSTONE
<1>1. ASSUME NEW a, NEW k, Claims(a, k) PROVE FALSE
  <2>1. a \in Buckets /\ data'[a] = k /\ k \in Keys /\ data[a] # k
    BY <1>0, <1>1 DEF Claims
  <2>2. k \in Elements'
    BY <2>1 DEF Elements, ElementsOf, Buckets
  <2>3. data[a] = data'[a]
    BY <2>1, <2>2, KeysStayPut
  <2> QED
    BY <2>1, <2>3
<1>2. ASSUME NEW a, Buries(a) PROVE FALSE
  <2>1. /\ a \in Buckets /\ data[a] \in Keys /\ data'[a] = TOMBSTONE
        /\ \A c \in Buckets \ {a} : data'[c] = data[c]
    BY <1>0, <1>2 DEF Buries
  <2>2. data[a] \in Elements'
    BY <2>1 DEF Elements, ElementsOf
  <2>3. PICK c \in Buckets : data'[c] = data[a]
    BY <2>2 DEF Elements, ElementsOf, Buckets
  <2>4. c # a
    BY <1>0, <2>1, <2>3
  <2> QED
    BY <2>1, <2>3, <2>4 DEF KeysUnique
<1> QED
  BY <1>1, <1>2 DEF DataChange

(* What a step of another thread leaves of a running sum. *)
LEMMA WatcherKeeps ==
  ASSUME TypeOK, TypeOK', KeysUnique, KeysUnique', DataChange,
         NEW u \in Threads, SumOK(u),
         op'[u] = op[u], i'[u] = i[u], sum'[u] = sum[u],
         op[u] = "sum" => seen'[u] = seen[u] \cup {Elements'}
  PROVE  SumOK(u)'
<1> SUFFICES ASSUME op[u] = "sum" PROVE SumOK(u)'
  BY DEF SumOK
<1> SUFFICES ASSUME NEW n, n = i[u] PROVE SumOK(u)'
  OBVIOUS
<1>1. n \in 0 .. Cap /\ n \in Nat /\ sum[u] \in Int /\ 0 .. n - 1 \subseteq Buckets
  BY TableAssumption DEF TypeOK, TableTypeOK, Buckets
<1> SUFFICES ASSUME NEW A, A = StableKeys(u) \cap KeysBefore(n),
                    NEW B, B = StableKeys(u)' \cap KeysBefore(n)'
             PROVE SumOK(u)'
  OBVIOUS
<1>2. B \subseteq A
  <2> SUFFICES ASSUME NEW k \in B PROVE k \in A
    OBVIOUS
  <2>1. k \in Keys /\ k \in StableKeys(u) /\ k \in Elements
    BY DEF StableKeys, SumOK
  <2>2. PICK b \in 0 .. n - 1 : data'[b] = k
    BY <1>1 DEF KeysBefore
  <2>3. data[b] = k
    BY <1>1, <2>1, <2>2, KeysStayPut
  <2> QED
    BY <2>1, <2>3 DEF KeysBefore
<1>3. IsFiniteSet(A) /\ A \subseteq Nat /\ B \in SUBSET A /\ IsFiniteSet(B)
  <2>1. IsFiniteSet(KeysBefore(n)) /\ KeysBefore(n) \subseteq Nat
    BY <1>1, KeysBeforeFinite
  <2>2. A \in SUBSET KeysBefore(n)
    OBVIOUS
  <2> QED
    BY <1>2, <2>1, <2>2, FS_Subset
<1>4. SumSet(B) <= SumSet(A) /\ SumSet(A) \in Int /\ SumSet(B) \in Int
  <2>1. A \subseteq Int /\ B \subseteq Int
    BY <1>3
  <2> QED
    BY <1>3, <2>1, SumSetSubset, SumSetType
<1>5. SumSet(A) <= sum[u]
  BY DEF SumOK
<1>6. SumSet(B) <= sum'[u]
  BY <1>1, <1>4, <1>5
<1>7. ASSUME seen'[u] = {Elements'} PROVE sum'[u] = SumSet(KeysBefore(n)')
  <2>1. Elements' = Elements /\ seen[u] = {Elements}
    BY <1>7 DEF SumOK
  <2>2. data' = data
    BY <2>1, ChangeShows
  <2>3. KeysBefore(n)' = KeysBefore(n)
    BY <2>2 DEF KeysBefore
  <2> QED
    BY <2>1, <2>3 DEF SumOK
<1>8. Elements' \in seen'[u]
  OBVIOUS
<1>9. KeysBefore(i[u])' = KeysBefore(n)'
  BY DEF KeysBefore
<1> QED
  BY <1>6, <1>7, <1>8, <1>9 DEF SumOK

(* What a step is to the sums: it ends an operation, moves an update on,   *)
(* begins an operation, or adds a bucket to a sum.                         *)
Ends(t) == \E r, d : Leave(t, r, d) /\ DataChange
MovesOn(t) ==
  /\ op[t] # "sum" /\ UNCHANGED <<data, op, sum, seen>>
  /\ \A u \in Threads \ {t} : i'[u] = i[u]
Begins(t) == \E o \in {"insert", "erase", "sum"} : \E k, p : Enter(t, o, k, p)
AddsOne(t) == op[t] = "sum" /\ AddBucket(t)

LEMMA StepForTheSums ==
  ASSUME IInv, NEW t \in Threads, CallStep(t) \/ Step(t)
  PROVE  Ends(t) \/ MovesOn(t) \/ Begins(t) \/ AddsOne(t)
<1>1. TypeOK /\ LocalsOK
  BY DEF IInv
<1>2. ASSUME NEW r, Leave(t, r, data) PROVE Ends(t)
  BY <1>2 DEF Ends, Leave, DataChange
<1>3. ASSUME NEW p, Goto(t, p), op[t] # "sum" PROVE MovesOn(t)
  BY <1>3 DEF MovesOn, Goto
<1>4. ASSUME NEW p, Advance(t, p), op[t] # "sum" PROVE Ends(t) \/ MovesOn(t)
  <2>1. CASE Leave(t, FALSE, data)
    BY <1>2, <2>1
  <2>2. CASE /\ i' = [i EXCEPT ![t] = @ + 1]
             /\ UNCHANGED <<data, op, key, sum, result, seen>>
    BY <1>1, <1>4, <2>2 DEF MovesOn, TypeOK, TableTypeOK
  <2> QED
    BY <1>4, <2>1, <2>2 DEF Advance
<1>5. CASE CallStep(t)
  BY <1>5 DEF CallStep, InsertCall, EraseCall, SumCall, Begins
<1>6. CASE InsertRead(t)
  <2>1. op[t] # "sum"
    BY <1>1, <1>6 DEF InsertRead, LocalsOK
  <2> QED
    BY <1>2, <1>3, <1>4, <1>6, <2>1 DEF InsertRead
<1>7. CASE InsertRecheck(t)
  <2>1. op[t] # "sum"
    BY <1>1, <1>7 DEF InsertRecheck, LocalsOK
  <2> QED
    BY <1>2, <1>4, <1>7, <2>1 DEF InsertRecheck
<1>8. CASE EraseRead(t)
  <2>1. op[t] # "sum"
    BY <1>1, <1>8 DEF EraseRead, LocalsOK
  <2> QED
    BY <1>2, <1>3, <1>4, <1>8, <2>1 DEF EraseRead
<1>9. CASE InsertCAS(t)
  <2>1. op[t] = "insert" /\ key[t] \in Keys /\ Here(t) \in Buckets
    <3>1. op[t] = "insert" /\ key[t] \in Keys /\ i[t] \in Nat
      BY <1>1, <1>9, TableAssumption DEF InsertCAS, LocalsOK, Updating, Probes
    <3> QED
      BY <3>1, SlotInBuckets DEF Here
  <2>2. CASE /\ data[Here(t)] = EMPTY
             /\ Leave(t, TRUE, [data EXCEPT ![Here(t)] = key[t]])
    <3>1. Claims(Here(t), key[t])
      BY <2>1, <2>2 DEF Claims, Leave
    <3> QED
      BY <2>2, <3>1 DEF Ends, DataChange
  <2>3. CASE Goto(t, "insertRecheck")
    BY <1>3, <2>1, <2>3
  <2> QED
    BY <1>9, <2>2, <2>3 DEF InsertCAS
<1>10. CASE EraseCAS(t)
  <2>1. key[t] \in Keys /\ Here(t) \in Buckets
    <3>1. op[t] = "erase" /\ key[t] \in Keys /\ i[t] \in Nat
      BY <1>1, <1>10, TableAssumption DEF EraseCAS, LocalsOK, Updating, Probes
    <3> QED
      BY <3>1, SlotInBuckets DEF Here
  <2>2. CASE /\ data[Here(t)] = key[t]
             /\ Leave(t, TRUE, [data EXCEPT ![Here(t)] = TOMBSTONE])
    <3>1. Buries(Here(t))
      BY <2>1, <2>2 DEF Buries, Leave
    <3> QED
      BY <2>2, <3>1 DEF Ends, DataChange
  <2> QED
    BY <1>2, <1>10, <2>2 DEF EraseCAS
<1>11. CASE SumRead(t)
  <2>1. op[t] = "sum"
    BY <1>1, <1>11 DEF SumRead, LocalsOK, TypeOK, TableTypeOK
  <2> QED
    BY <1>11, <2>1 DEF SumRead, AddsOne
<1>12. CASE SumReturn(t)
  BY <1>2, <1>12 DEF SumReturn
<1> QED
  BY <1>5, <1>6, <1>7, <1>8, <1>9, <1>10, <1>11, <1>12 DEF Step

LEMMA OtherSumsKeep ==
  ASSUME IInv, IInv', SumInv, NEW t \in Threads,
         Ends(t) \/ MovesOn(t) \/ Begins(t) \/ AddsOne(t),
         NEW u \in Threads \ {t}
  PROVE  SumOK(u)'
<1>1. /\ TypeOK /\ TypeOK' /\ LocalsOK /\ KeysUnique /\ KeysUnique' /\ SumOK(u)
      /\ u \in Threads
  BY DEF IInv, SumInv
<1>2. CASE Ends(t)
  <2>1. PICK r, d : Leave(t, r, d) /\ DataChange
    BY <1>2 DEF Ends
  <2>2. op'[u] = op[u] /\ i'[u] = i[u] /\ sum'[u] = sum[u]
    BY <1>1, <2>1 DEF Leave, TypeOK, TableTypeOK
  <2>3. ASSUME op[u] = "sum" PROVE seen'[u] = seen[u] \cup {Elements'}
    <3>1. pc[u] # "idle"
      BY <1>1, <2>3 DEF LocalsOK
    <3>2. Elements' = ElementsOf(d)
      BY <2>1 DEF Leave, Elements, ElementsOf
    <3> QED
      BY <1>1, <2>1, <3>1, <3>2 DEF Leave
  <2> QED
    BY <1>1, <2>1, <2>2, <2>3, WatcherKeeps
<1>3. ASSUME /\ data' = data /\ op'[u] = op[u] /\ i'[u] = i[u]
             /\ sum'[u] = sum[u] /\ seen'[u] = seen[u]
      PROVE  SumOK(u)'
  <2>1. Elements' = Elements /\ DataChange
    BY <1>3 DEF Elements, ElementsOf, DataChange
  <2>2. op[u] = "sum" => seen'[u] = seen[u] \cup {Elements'}
    BY <1>1, <1>3, <2>1 DEF SumOK
  <2> QED
    BY <1>1, <1>3, <2>1, <2>2, WatcherKeeps
<1>4. CASE MovesOn(t)
  BY <1>3, <1>4 DEF MovesOn
<1>5. CASE Begins(t)
  BY <1>1, <1>3, <1>5 DEF Begins, Enter, TypeOK, TableTypeOK
<1>6. CASE AddsOne(t)
  BY <1>1, <1>3, <1>6 DEF AddsOne, AddBucket, TypeOK, TableTypeOK
<1> QED
  BY <1>2, <1>4, <1>5, <1>6

LEMMA BucketAdded ==
  ASSUME TypeOK, KeysUnique, NEW t \in Threads, SumOK(t), AddsOne(t)
  PROVE  SumOK(t)'
<1> SUFFICES ASSUME NEW n, n = i[t], NEW v, v = data[n] PROVE SumOK(t)'
  OBVIOUS
<1>1. /\ n \in 0 .. Cap /\ n < Cap /\ n \in Nat /\ n \in Buckets /\ v \in Keys \cup {0, -1}
      /\ Keys \subseteq Nat \ {0} /\ sum[t] \in Int
  BY TableAssumption DEF AddsOne, AddBucket, TypeOK, TableTypeOK, Buckets, EMPTY, TOMBSTONE
<1>2. /\ data' = data /\ op' = op /\ seen' = seen /\ i'[t] = n + 1 /\ op[t] = "sum"
      /\ v \in Keys => sum'[t] = sum[t] + v
      /\ v \notin Keys => sum'[t] = sum[t]
  BY <1>1 DEF AddsOne, AddBucket, TypeOK, TableTypeOK
<1>3. /\ Elements \in seen[t]
      /\ SumSet(StableKeys(t) \cap KeysBefore(n)) <= sum[t]
      /\ seen[t] = {Elements} => sum[t] = SumSet(KeysBefore(n))
  BY <1>2 DEF SumOK
<1>4. /\ Elements' = Elements /\ StableKeys(t)' = StableKeys(t)
      /\ KeysBefore(i[t])' = KeysBefore(n + 1)
  BY <1>2 DEF Elements, ElementsOf, StableKeys, KeysBefore
<1>5. CASE v \notin Keys
  <2>1. KeysBefore(n + 1) = KeysBefore(n)
    BY <1>1, <1>5, KeysBeforeNext
  <2> QED
    BY <1>2, <1>3, <1>4, <1>5, <2>1 DEF SumOK
<1>6. CASE v \in Keys
  <2> SUFFICES ASSUME NEW K, K = KeysBefore(n), NEW A, A = StableKeys(t) \cap K
               PROVE  SumOK(t)'
    OBVIOUS
  <2>1. /\ KeysBefore(n + 1) = K \cup {v} /\ v \notin K
        /\ IsFiniteSet(K) /\ K \subseteq Int /\ v \in Int /\ v >= 0
    <3>1. v = data[n] /\ K = KeysBefore(n) /\ data[n] \in Keys
      BY <1>6
    <3>2. KeysBefore(n + 1) = KeysBefore(n) \cup {data[n]} /\ data[n] \notin KeysBefore(n)
      BY <1>1, <3>1, KeysBeforeNext
    <3>3. IsFiniteSet(KeysBefore(n)) /\ KeysBefore(n) \subseteq Nat
      BY <1>1, KeysBeforeFinite
    <3>4. v \in Nat \ {0}
      BY <1>1, <1>6
    <3>5. IsFiniteSet(K) /\ K \subseteq Int
      BY <3>1, <3>3
    <3> QED
      BY <3>1, <3>2, <3>4, <3>5
  <2>2. A \in SUBSET K /\ A \subseteq Int /\ v \notin A /\ IsFiniteSet(A)
    <3>1. A \in SUBSET K
      OBVIOUS
    <3> QED
      BY <2>1, <3>1, FS_Subset
  <2>3. SumSet(K \cup {v}) = v + SumSet(K) /\ SumSet(A \cup {v}) = v + SumSet(A)
    BY <2>1, <2>2, SumSetAdd
  <2>4. SumSet(A) \in Int /\ SumSet(K) \in Int
    BY <2>1, <2>2, SumSetType
  <2>5. SumSet(A) <= sum[t] /\ (seen[t] = {Elements} => sum[t] = SumSet(K))
    BY <1>3
  <2>6. sum'[t] = sum[t] + v
    BY <1>2, <1>6
  <2>7. StableKeys(t) \cap (K \cup {v}) = A \/ StableKeys(t) \cap (K \cup {v}) = A \cup {v}
    OBVIOUS
  <2>8. SumSet(StableKeys(t) \cap (K \cup {v})) <= sum'[t]
    <3>1. SumSet(A) <= sum'[t] /\ SumSet(A \cup {v}) <= sum'[t]
      BY <1>1, <2>1, <2>3, <2>4, <2>5, <2>6
    <3> QED
      BY <2>7, <3>1
  <2>9. seen[t] = {Elements} => sum'[t] = SumSet(K \cup {v})
    BY <1>1, <2>1, <2>3, <2>4, <2>5, <2>6
  <2>10. KeysBefore(i[t])' = K \cup {v}
    BY <1>4, <2>1
  <2> QED
    BY <1>2, <1>3, <1>4, <2>8, <2>9, <2>10 DEF SumOK
<1> QED
  BY <1>5, <1>6

LEMMA OwnSumKeeps ==
  ASSUME IInv, IInv', SumInv, NEW t \in Threads,
         Ends(t) \/ MovesOn(t) \/ Begins(t) \/ AddsOne(t)
  PROVE  SumOK(t)'
<1>1. TypeOK /\ TypeOK' /\ LocalsOK /\ KeysUnique /\ SumOK(t)
  BY DEF IInv, SumInv
<1>2. CASE Ends(t)
  <2>1. op'[t] # "sum" /\ sum'[t] = 0
    BY <1>1, <1>2 DEF Ends, Leave, TypeOK, TableTypeOK
  <2> QED
    BY <2>1 DEF SumOK
<1>3. CASE MovesOn(t)
  BY <1>1, <1>3 DEF MovesOn, SumOK
<1>4. CASE Begins(t)
  <2>1. op[t] = "none" /\ i[t] = 0 /\ sum[t] = 0
    BY <1>1, <1>4 DEF Begins, Enter, LocalsOK, SumOK
  <2>2. i'[t] = 0 /\ sum'[t] = 0 /\ seen'[t] = {Elements} /\ data' = data
    BY <1>1, <1>4, <2>1 DEF Begins, Enter, TypeOK, TableTypeOK
  <2>3. KeysBefore(i[t])' = {} /\ Elements' = Elements
    BY <2>2, AllKeys, <1>1 DEF KeysBefore, Elements, ElementsOf
  <2>4. Elements' \in seen'[t]
    BY <2>2, <2>3
  <2>5. StableKeys(t)' \cap KeysBefore(i[t])' = {}
    BY <2>3
  <2> QED
    BY <2>2, <2>3, <2>4, <2>5, SumSetEmpty DEF SumOK
<1>5. CASE AddsOne(t)
  BY <1>1, <1>5, BucketAdded
<1> QED
  BY <1>2, <1>3, <1>4, <1>5

LEMMA SumStep == IInv /\ IInv' /\ SumInv /\ [Next]_tableVars => SumInv'
<1> SUFFICES ASSUME IInv, IInv', SumInv, [Next]_tableVars PROVE SumInv'
  OBVIOUS
<1>1. CASE UNCHANGED tableVars
  <2> SUFFICES ASSUME NEW t \in Threads PROVE SumOK(t)'
    BY DEF SumInv
  <2>1. SumOK(t) /\ data' = data /\ op' = op /\ i' = i /\ sum' = sum /\ seen' = seen
    BY <1>1 DEF SumInv, tableVars
  <2>2. /\ Elements' = Elements /\ StableKeys(t)' = StableKeys(t)
        /\ KeysBefore(i[t])' = KeysBefore(i[t])
    BY <2>1 DEF Elements, ElementsOf, StableKeys, KeysBefore
  <2> QED
    BY <2>1, <2>2 DEF SumOK
<1>2. ASSUME NEW t \in Threads, CallStep(t) \/ Step(t) PROVE SumInv'
  <2>1. Ends(t) \/ MovesOn(t) \/ Begins(t) \/ AddsOne(t)
    BY <1>2, StepForTheSums
  <2>2. SumOK(t)'
    BY <2>1, OwnSumKeeps
  <2>3. \A u \in Threads \ {t} : SumOK(u)'
    BY <2>1, OtherSumsKeep
  <2> QED
    BY <2>2, <2>3 DEF SumInv
<1> QED
  BY <1>1, <1>2 DEF Next

(* Each running sum has counted the stable keys of the buckets it passed,  *)
(* and exactly their keys as long as the table has not changed.            *)
THEOREM SumInvariant == Spec => []SumInv
<1>1. Init => SumInv
  BY DEF Init, TableInit, SumInv, SumOK
<1> QED
  BY <1>1, Invariant, SumStep, PTL DEF Spec

(* getSumOfKeys takes no lock: it counts every key that was in the table   *)
(* throughout its call, and when no update overlaps it, it is exact.       *)
THEOREM StableKeysCounted == Spec => []SumCountsStableKeys
<1>1. IInv /\ SumInv => SumCountsStableKeys
  <2> SUFFICES ASSUME IInv, SumInv, NEW t \in Threads, op[t] = "sum", i[t] = Cap
               PROVE  /\ SumSet(StableKeys(t)) <= sum[t]
                      /\ \A S \in seen[t] : seen[t] = {S} => sum[t] = SumSet(S)
    BY DEF SumCountsStableKeys, StableKeys
  <2>1. SumOK(t) /\ KeysBefore(Cap) = Elements
    BY AllKeys DEF SumInv, IInv
  <2>2. /\ Elements \in seen[t] /\ SumSet(StableKeys(t) \cap Elements) <= sum[t]
        /\ seen[t] = {Elements} => sum[t] = SumSet(Elements)
    BY <2>1 DEF SumOK
  <2>3. StableKeys(t) \cap Elements = StableKeys(t)
    BY <2>2 DEF StableKeys
  <2> QED
    BY <2>2, <2>3
<1> QED
  BY <1>1, Invariant, SumInvariant, PTL
=============================================================================
