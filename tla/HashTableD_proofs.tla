-------------------------- MODULE HashTableD_proofs --------------------------
EXTENDS HashTableD, SumTheorems, FiniteSetTheorems, TLAPS

Words == [key : Keys \cup {EMPTY, TOMBSTONE}, marked : BOOLEAN]
Counters == [sub : [Threads -> Nat], global : Nat]
TableSet ==
  {tab \in [cap : Nat \ {0}, old : Nat,
            bucket : UNION {[0 .. c - 1 -> Words] : c \in Nat},
            inserts : Counters, deletes : Counters, claimed : Nat, done : Nat] :
     tab.bucket \in [0 .. tab.cap - 1 -> Words]}

(* Division by the size of a chunk. *)
LEMMA Dividing ==
  ASSUME NEW a \in Nat, NEW n \in Nat \ {0}
  PROVE  /\ a \div n \in Nat /\ a % n \in 0 .. n - 1
         /\ a = n * (a \div n) + (a % n)
OBVIOUS

LEMMA DivIs ==
  ASSUME NEW a \in Nat, NEW n \in Nat \ {0}, NEW q \in Nat, NEW r \in 0 .. n - 1,
         a = n * q + r
  PROVE  a \div n = q /\ a % n = r
OBVIOUS

LEMMA DivOfProduct ==
  ASSUME NEW q \in Nat, NEW n \in Nat \ {0}
  PROVE  (q * n) \div n = q
OBVIOUS

LEMMA DivNext ==
  ASSUME NEW a \in Nat, NEW n \in Nat \ {0}, (a + 1) % n # 0
  PROVE  (a + 1) \div n = a \div n
OBVIOUS

LEMMA DivEnd ==
  ASSUME NEW a \in Nat, NEW n \in Nat \ {0}, (a + 1) % n = 0, NEW c \in Nat, c > a
  PROVE  c \div n # a \div n
OBVIOUS

LEMMA DivCeil ==
  ASSUME NEW cap \in Nat, NEW n \in Nat \ {0}, NEW b \in 0 .. cap - 1
  PROVE  b \div n < (cap + n - 1) \div n
OBVIOUS

LEMMA CeilInside ==
  ASSUME NEW cap \in Nat, NEW n \in Nat \ {0}, NEW q \in Nat,
         q < (cap + n - 1) \div n
  PROVE  q * n < cap
OBVIOUS

LEMMA FieldsOf ==
  ASSUME NEW tab \in TableSet
  PROVE  /\ tab.cap \in Nat \ {0} /\ tab.old \in Nat
         /\ tab.bucket \in [0 .. tab.cap - 1 -> Words]
         /\ tab.inserts \in Counters /\ tab.deletes \in Counters
         /\ tab.claimed \in Nat /\ tab.done \in Nat
BY DEF TableSet

LEMMA MadeTable ==
  ASSUME NEW c \in Nat \ {0}, NEW o \in Nat, NEW f \in [0 .. c - 1 -> Words],
         NEW i \in Counters, NEW d \in Counters, NEW cl \in Nat, NEW dn \in Nat
  PROVE  [cap |-> c, old |-> o, bucket |-> f, inserts |-> i, deletes |-> d,
          claimed |-> cl, done |-> dn] \in TableSet
BY DEF TableSet

LEMMA WholeTable ==
  ASSUME NEW tab \in TableSet
  PROVE  tab = [cap |-> tab.cap, old |-> tab.old, bucket |-> tab.bucket,
                inserts |-> tab.inserts, deletes |-> tab.deletes,
                claimed |-> tab.claimed, done |-> tab.done]
BY DEF TableSet

LEMMA SeqPut ==
  ASSUME NEW S, NEW s \in Seq(S), NEW T \in 1 .. Len(s), NEW e \in S
  PROVE  /\ [s EXCEPT ![T] = e] \in Seq(S)
         /\ Len([s EXCEPT ![T] = e]) = Len(s)
         /\ [s EXCEPT ![T] = e][T] = e
         /\ \A U \in 1 .. Len(s) : U # T => [s EXCEPT ![T] = e][U] = s[U]
OBVIOUS

LEMMA SeqMore ==
  ASSUME NEW S, NEW s \in Seq(S), NEW e \in S
  PROVE  /\ Append(s, e) \in Seq(S)
         /\ Len(Append(s, e)) = Len(s) + 1
         /\ Append(s, e)[Len(s) + 1] = e
         /\ \A U \in 1 .. Len(s) : Append(s, e)[U] = s[U]
OBVIOUS

LEMMA FieldPut ==
  ASSUME NEW tab \in TableSet, NEW x
  PROVE  /\ [tab EXCEPT !.bucket = x] =
              [cap |-> tab.cap, old |-> tab.old, bucket |-> x,
               inserts |-> tab.inserts, deletes |-> tab.deletes,
               claimed |-> tab.claimed, done |-> tab.done]
         /\ [tab EXCEPT !.inserts = x] =
              [cap |-> tab.cap, old |-> tab.old, bucket |-> tab.bucket,
               inserts |-> x, deletes |-> tab.deletes,
               claimed |-> tab.claimed, done |-> tab.done]
         /\ [tab EXCEPT !.deletes = x] =
              [cap |-> tab.cap, old |-> tab.old, bucket |-> tab.bucket,
               inserts |-> tab.inserts, deletes |-> x,
               claimed |-> tab.claimed, done |-> tab.done]
         /\ [tab EXCEPT !.claimed = x] =
              [cap |-> tab.cap, old |-> tab.old, bucket |-> tab.bucket,
               inserts |-> tab.inserts, deletes |-> tab.deletes,
               claimed |-> x, done |-> tab.done]
         /\ [tab EXCEPT !.done = x] =
              [cap |-> tab.cap, old |-> tab.old, bucket |-> tab.bucket,
               inserts |-> tab.inserts, deletes |-> tab.deletes,
               claimed |-> tab.claimed, done |-> x]
BY DEF TableSet

LEMMA MarkOf ==
  ASSUME NEW k, NEW m, NEW x
  PROVE  [[key |-> k, marked |-> m] EXCEPT !.marked = x] = [key |-> k, marked |-> x]
BY SMT

LEMMA WholeWord ==
  ASSUME NEW w \in Words
  PROVE  w = [key |-> w.key, marked |-> w.marked]
BY DEF Words

(* What stays of a table when one of its words, or a counter, changes. *)
SameButBuckets(tab, old) ==
  /\ tab.cap = old.cap /\ tab.old = old.old
  /\ tab.claimed = old.claimed /\ tab.done = old.done

SameSkeleton(tab, old) == SameButBuckets(tab, old) /\ tab.bucket = old.bucket

WordSet(s, T, b, w) == [s EXCEPT ![T].bucket[b] = w]
MarkSet(s, T, b) == [s EXCEPT ![T].bucket[b].marked = TRUE]

LEMMA WordPut ==
  ASSUME NEW s \in Seq(TableSet), NEW T \in 1 .. Len(s),
         NEW b \in 0 .. s[T].cap - 1, NEW w \in Words,
         NEW r, r = WordSet(s, T, b, w)
  PROVE  /\ r \in Seq(TableSet) /\ Len(r) = Len(s)
         /\ \A U \in 1 .. Len(s) : U # T => r[U] = s[U]
         /\ SameButBuckets(r[T], s[T])
         /\ r[T].bucket = [s[T].bucket EXCEPT ![b] = w]
<1> DEFINE tab == s[T]
           f == [tab.bucket EXCEPT ![b] = w]
           new == [cap |-> tab.cap, old |-> tab.old, bucket |-> f,
                   inserts |-> tab.inserts, deletes |-> tab.deletes,
                   claimed |-> tab.claimed, done |-> tab.done]
<1>1. tab \in TableSet
  OBVIOUS
<1>2. r = [s EXCEPT ![T] = [tab EXCEPT !.bucket = f]]
  BY Zenon DEF WordSet
<1>3. f \in [0 .. tab.cap - 1 -> Words]
  BY <1>1, FieldsOf
<1> HIDE DEF f
<1>4. r = [s EXCEPT ![T] = new]
  <2>1. [tab EXCEPT !.bucket = f] = new
    BY <1>1, FieldPut
  <2> QED
    BY <1>2, <2>1, Zenon
<1>5. new \in TableSet
  BY <1>1, <1>3, FieldsOf, MadeTable
<1>6. /\ r \in Seq(TableSet) /\ Len(r) = Len(s) /\ r[T] = new
      /\ \A U \in 1 .. Len(s) : U # T => r[U] = s[U]
  <2> HIDE DEF new
  <2> QED
    BY <1>4, <1>5, SeqPut
<1> QED
  BY <1>6 DEF SameButBuckets, f

LEMMA MarkPut ==
  ASSUME NEW s \in Seq(TableSet), NEW T \in 1 .. Len(s),
         NEW b \in 0 .. s[T].cap - 1
  PROVE  MarkSet(s, T, b) = WordSet(s, T, b, Word32(s[T].bucket[b].key, TRUE))
<1> DEFINE tab == s[T]
<1>1. tab \in TableSet
  OBVIOUS
<1>2. tab.bucket[b] \in Words
  BY <1>1, FieldsOf
<1>3. [tab.bucket[b] EXCEPT !.marked = TRUE] = Word32(tab.bucket[b].key, TRUE)
  <2> SUFFICES ASSUME NEW w \in Words PROVE [w EXCEPT !.marked = TRUE] = Word32(w.key, TRUE)
    BY <1>2
  <2>1. PICK k, m : w = [key |-> k, marked |-> m] /\ w.key = k
    BY WholeWord
  <2>2. [w EXCEPT !.marked = TRUE] = [key |-> k, marked |-> TRUE]
    BY <2>1, MarkOf
  <2> QED
    BY <2>1, <2>2 DEF Word32
<1> QED
  BY <1>3, Zenon DEF MarkSet, WordSet

LEMMA ClaimPut ==
  ASSUME NEW s \in Seq(TableSet), NEW T \in 1 .. Len(s),
         NEW r, r = [s EXCEPT ![T].claimed = @ + 1]
  PROVE  /\ r \in Seq(TableSet) /\ Len(r) = Len(s)
         /\ \A U \in 1 .. Len(s) : U # T => r[U] = s[U]
         /\ r[T].cap = s[T].cap /\ r[T].old = s[T].old
         /\ r[T].bucket = s[T].bucket /\ r[T].done = s[T].done
         /\ r[T].claimed = s[T].claimed + 1
<1> DEFINE tab == s[T]
           new == [cap |-> tab.cap, old |-> tab.old, bucket |-> tab.bucket,
                   inserts |-> tab.inserts, deletes |-> tab.deletes,
                   claimed |-> tab.claimed + 1, done |-> tab.done]
<1>1. tab \in TableSet
  OBVIOUS
<1>2. [tab EXCEPT !.claimed = tab.claimed + 1] = new
  BY <1>1, FieldPut
<1>3. r = [s EXCEPT ![T] = new]
  BY <1>2, Zenon
<1>4. new \in TableSet
  <2>1. tab.claimed + 1 \in Nat
    BY <1>1, FieldsOf
  <2> QED
    BY <1>1, <2>1, FieldsOf, MadeTable
<1>5. /\ r \in Seq(TableSet) /\ Len(r) = Len(s) /\ r[T] = new
      /\ \A U \in 1 .. Len(s) : U # T => r[U] = s[U]
  <2> HIDE DEF new
  <2> QED
    BY <1>3, <1>4, SeqPut
<1> QED
  BY <1>5

LEMMA DonePut ==
  ASSUME NEW s \in Seq(TableSet), NEW T \in 1 .. Len(s),
         NEW r, r = [s EXCEPT ![T].done = @ + 1]
  PROVE  /\ r \in Seq(TableSet) /\ Len(r) = Len(s)
         /\ \A U \in 1 .. Len(s) : U # T => r[U] = s[U]
         /\ r[T].cap = s[T].cap /\ r[T].old = s[T].old
         /\ r[T].bucket = s[T].bucket /\ r[T].claimed = s[T].claimed
         /\ r[T].done = s[T].done + 1
<1> DEFINE tab == s[T]
           new == [cap |-> tab.cap, old |-> tab.old, bucket |-> tab.bucket,
                   inserts |-> tab.inserts, deletes |-> tab.deletes,
                   claimed |-> tab.claimed, done |-> tab.done + 1]
<1>1. tab \in TableSet
  OBVIOUS
<1>2. [tab EXCEPT !.done = tab.done + 1] = new
  BY <1>1, FieldPut
<1>3. r = [s EXCEPT ![T] = new]
  BY <1>2, Zenon
<1>4. new \in TableSet
  <2>1. tab.done + 1 \in Nat
    BY <1>1, FieldsOf
  <2> QED
    BY <1>1, <2>1, FieldsOf, MadeTable
<1>5. /\ r \in Seq(TableSet) /\ Len(r) = Len(s) /\ r[T] = new
      /\ \A U \in 1 .. Len(s) : U # T => r[U] = s[U]
  <2> HIDE DEF new
  <2> QED
    BY <1>3, <1>4, SeqPut
<1> QED
  BY <1>5

CounterSet(s, T, which, c) == [s EXCEPT ![T] = [s[T] EXCEPT ![which] = c]]

(* A step of a batched counter changes nothing else of its table. *)
LEMMA CounterPut ==
  ASSUME NEW s \in Seq(TableSet), NEW T \in 1 .. Len(s),
         NEW which \in {"inserts", "deletes"}, NEW c \in Counters,
         NEW r, r = CounterSet(s, T, which, c)
  PROVE  /\ r \in Seq(TableSet) /\ Len(r) = Len(s)
         /\ \A U \in 1 .. Len(s) : SameSkeleton(r[U], s[U])
<1> DEFINE tab == s[T]
           new == [cap |-> tab.cap, old |-> tab.old, bucket |-> tab.bucket,
                   inserts |-> IF which = "inserts" THEN c ELSE tab.inserts,
                   deletes |-> IF which = "deletes" THEN c ELSE tab.deletes,
                   claimed |-> tab.claimed, done |-> tab.done]
<1>1. tab \in TableSet
  OBVIOUS
<1>2. [tab EXCEPT ![which] = c] = new
  <2>1. CASE which = "inserts"
    <3>1. [tab EXCEPT !["inserts"] = c] = [tab EXCEPT !.inserts = c]
      BY Zenon
    <3>2. [tab EXCEPT ![which] = c] = [tab EXCEPT !.inserts = c]
      BY <2>1, <3>1, Zenon
    <3> QED
      BY <1>1, <2>1, <3>2, FieldPut
  <2>2. CASE which = "deletes"
    <3>1. [tab EXCEPT !["deletes"] = c] = [tab EXCEPT !.deletes = c]
      BY Zenon
    <3>2. [tab EXCEPT ![which] = c] = [tab EXCEPT !.deletes = c]
      BY <2>2, <3>1, Zenon
    <3> QED
      BY <1>1, <2>2, <3>2, FieldPut
  <2> QED
    BY <2>1, <2>2
<1>3. r = [s EXCEPT ![T] = new]
  BY <1>2, Zenon DEF CounterSet
<1>4. new \in TableSet
  <2>1. (IF which = "inserts" THEN c ELSE tab.inserts) \in Counters
    BY <1>1, FieldsOf
  <2>2. (IF which = "deletes" THEN c ELSE tab.deletes) \in Counters
    BY <1>1, FieldsOf
  <2> QED
    BY <1>1, <2>1, <2>2, FieldsOf, MadeTable
<1>5. /\ r \in Seq(TableSet) /\ Len(r) = Len(s) /\ r[T] = new
      /\ \A U \in 1 .. Len(s) : U # T => r[U] = s[U]
  <2> HIDE DEF new
  <2> QED
    BY <1>3, <1>4, SeqPut
<1> QED
  BY <1>5 DEF SameSkeleton, SameButBuckets

-----------------------------------------------------------------------------
Labels == {"idle", "expand", "claim", "read", "mark", "copy", "copyRead", "copyCAS",
           "copyRecheck", "moved", "count", "start", "size", "swap", "again",
           "probe", "cas", "recheck", "inc", "flush", "clear"}

LocalSet ==
  [pc : Labels, op : {"none", "insert", "erase"}, key : Keys \cup {0}, tab : Nat, i : Nat,
   help : Nat, restart : BOOLEAN, b : Nat, found : Words, into : Nat, j : Nat,
   acc : Int, pos : Nat, cap : Nat]

TypeOK ==
  /\ tables \in Seq(TableSet)
  /\ current \in Nat
  /\ local \in [Threads -> LocalSet]
  /\ left \in [Threads -> Nat]
  /\ result \in [Threads -> BOOLEAN]
  /\ seen \in [Threads -> SUBSET SUBSET Keys]

Tables == 1 .. Len(tables)
Buckets(T) == 0 .. tables[T].cap - 1
Chunks(T) == OldChunks(tables, T)

Copying(t) == local[t].pc \in {"copy", "copyRead", "copyCAS", "copyRecheck"}

(* Thread t is between the claim of a chunk and its fetch_add of done. *)
Migrating(t) ==
  local[t].pc \in {"read", "mark", "copy", "moved"} \/ local[t].into # 0

Helpers(T) == {t \in Threads : Migrating(t) /\ local[t].help = T}

OwnChunk(t) ==
  (IF local[t].pc = "moved" THEN local[t].b - 1 ELSE local[t].b) \div Chunk

AheadOf(t, b) ==
  /\ b \div Chunk = OwnChunk(t)
  /\ b > local[t].b \/ (b = local[t].b /\ local[t].pc \in {"read", "mark"})

Ahead(T, b) ==
  \/ b \div Chunk >= tables[T].claimed
  \/ \E t \in Helpers(T) : AheadOf(t, b)

Lowest(a, b) == IF a < b THEN a ELSE b

Chain ==
  /\ current = Len(tables) /\ current # 0
  /\ \A T \in Tables : tables[T].old = T - 1
  /\ \A T \in 1 .. current - 1 : Migrated(T)

ChunksCounted ==
  \A T \in Tables :
    tables[T].done + Cardinality(Helpers(T)) = Lowest(tables[T].claimed, Chunks(T))

OneOwner ==
  \A t, u \in Threads :
    Migrating(t) /\ Migrating(u) /\ OwnChunk(t) = OwnChunk(u) => t = u

MarksTellProgress ==
  \A T \in 2 .. current : \A b \in Buckets(T - 1) :
    tables[T - 1].bucket[b].marked <=> ~Ahead(T, b)

CurrentUnmarked ==
  \A b \in Buckets(current) : ~tables[current].bucket[b].marked

KeysUnique ==
  \A T \in Tables : \A b, c \in Buckets(T) :
    tables[T].bucket[b].key \in Keys /\ tables[T].bucket[b].key = tables[T].bucket[c].key
      => b = c

KeysReachable ==
  \A T \in Tables : \A b \in Buckets(T) :
    tables[T].bucket[b].key \in Keys =>
      \E n \in Buckets(T) :
        /\ Slot(T, tables[T].bucket[b].key, n) = b
        /\ \A m \in 0 .. n - 1 :
             tables[T].bucket[Slot(T, tables[T].bucket[b].key, m)].key # EMPTY

MarkedKeysMove ==
  ~Migrated(current) =>
    \A b \in Buckets(current - 1) :
      LET w == tables[current - 1].bucket[b] IN
      w.marked /\ w.key \in Keys =>
        \/ w.key \in KeysIn(tables[current])
        \/ \E t \in Threads : Copying(t) /\ local[t].b = b

MovedKeysMarked ==
  ~Migrated(current) =>
    \A k \in KeysIn(tables[current]) :
      \E b \in Buckets(current - 1) : tables[current - 1].bucket[b] = Word32(k, TRUE)

Finished(t) ==
  local[t].pc = "idle" \/ (local[t].pc \in {"inc", "flush", "clear"} /\ local[t].into = 0)

InCall(t) ==
  local[t].pc # "idle" =>
    /\ local[t].op \in {"insert", "erase"} /\ local[t].key \in Keys
    /\ local[t].tab \in Tables /\ local[t].help \in Tables
    /\ ~local[t].restart => local[t].help = local[t].tab
    /\ local[t].i \in Buckets(local[t].tab)

Helped(t) ==
  local[t].pc \in {"count", "start", "size", "swap", "probe", "cas", "recheck"} =>
    ~local[t].restart /\ Migrated(local[t].tab)

Locals(t) ==
  /\ local[t].pc = "idle" => local[t].into = 0
  /\ local[t].pc = "swap" => local[t].cap > 0
  /\ local[t].into # 0 => /\ local[t].into = local[t].help
                         /\ local[t].pc \in {"copyRead", "copyCAS", "copyRecheck", "inc", "flush", "clear"}
  /\ local[t].pc \in {"copyRead", "copyCAS", "copyRecheck"} => local[t].into # 0
  /\ local[t].into = 0 => local[t].j = 0

Owner(t) ==
  Migrating(t) =>
    /\ OwnChunk(t) \in 0 .. Lowest(tables[local[t].help].claimed, Chunks(local[t].help)) - 1
    /\ IF local[t].pc = "moved"
       THEN local[t].b > 0 /\ (local[t].b % Chunk = 0 \/ local[t].b = OldOf(local[t].help).cap)
       ELSE local[t].b \in Buckets(tables[local[t].help].old)

Copier(t) ==
  /\ Copying(t) =>
       /\ local[t].found.key \in Keys \ KeysIn(tables[local[t].help])
       /\ OldOf(local[t].help).bucket[local[t].b] = Word32(local[t].found.key, TRUE)
  /\ Copying(t) /\ local[t].into # 0 =>
       /\ local[t].j \in Buckets(local[t].into)
       /\ \A m \in 0 .. local[t].j - 1 :
            tables[local[t].into].bucket[Slot(local[t].into, local[t].found.key, m)].key
               # EMPTY
       /\ local[t].pc = "copyRecheck" => Target(t) # Vacant

Prober(t) ==
  local[t].pc # "idle" =>
    /\ \A m \in 0 .. local[t].i - 1 :
         tables[local[t].tab].bucket[Slot(local[t].tab, local[t].key, m)].key
           \notin {EMPTY, local[t].key}
    /\ local[t].pc = "recheck" /\ local[t].op = "insert" => Bucket(t) # Vacant

(* The key that the erase of thread t is after has left its bucket. *)
Gone(t) == ~ Bucket(t).marked /\ Bucket(t) # Mine(t)

LostErase(t) ==
  local[t].pc \in {"cas", "recheck"} /\ local[t].op = "erase" /\ Gone(t)
    => \E S \in seen[t] : local[t].key \notin S

SeenOK(t) ==
  /\ seen[t] = {} <=> Finished(t)
  /\ seen[t] # {} => Live \in seen[t]

Globals ==
  /\ Chain /\ ChunksCounted /\ OneOwner /\ MarksTellProgress /\ CurrentUnmarked
  /\ KeysUnique /\ KeysReachable /\ MarkedKeysMove /\ MovedKeysMarked

InPlace(t) == InCall(t) /\ Helped(t) /\ Locals(t) /\ Owner(t) /\ Prober(t)

Records(t) == LostErase(t) /\ SeenOK(t)

IInv ==
  /\ TypeOK /\ Globals
  /\ \A t \in Threads : InPlace(t) /\ Copier(t) /\ Records(t)

-----------------------------------------------------------------------------
(* The words of a bucket change in one direction: nobody touches a marked  *)
(* word, and a key is replaced by a tombstone only.                        *)
WordStep(w, x) ==
  /\ w.marked => x = w
  /\ w.key # EMPTY => x.key \in {w.key, TOMBSTONE}

Evolve ==
  /\ Len(tables) <= Len(tables')
  /\ current <= current'
  /\ \A T \in Tables :
       /\ tables'[T].cap = tables[T].cap /\ tables'[T].old = tables[T].old
       /\ tables[T].claimed <= tables'[T].claimed
       /\ \A b \in Buckets(T) : WordStep(tables[T].bucket[b], tables'[T].bucket[b])

Stay(t) == \A u \in Threads \ {t} : local'[u] = local[u]

(* A step of thread t inside its operation: the contents of the set stay,  *)
(* and t goes on with the call it works on.                                *)
Moves(t) ==
  /\ Evolve /\ Live' = Live /\ Stay(t)
  /\ seen[t] # {} => local'[t].op = local[t].op /\ local'[t].key = local[t].key

(* The call of t ends with answer r and leaves the contents S. *)
Ends(t, r, S) ==
  /\ Evolve /\ Stay(t) /\ current' = current /\ outcome' = outcome
  /\ Live' = S
  /\ result' = [result EXCEPT ![t] = r]
  /\ seen' = [u \in Threads |-> IF u = t \/ seen[u] = {} THEN {} ELSE seen[u] \cup {S}]

(* A migration that is complete stays so. *)
StayMigrated == \A T \in Tables : Migrated(T) => Migrated(T)'

LEMMA KeyFacts ==
  /\ EMPTY \notin Keys /\ TOMBSTONE \notin Keys /\ EMPTY # TOMBSTONE
  /\ Keys \subseteq Nat
BY ExpandAssumption DEF EMPTY, TOMBSTONE

(* A word without a mark is told by its key. *)
LEMMA PlainWord ==
  ASSUME NEW w \in Words, ~ w.marked
  PROVE  w = Word32(w.key, FALSE)
<1>1. w.marked = FALSE
  BY DEF Words
<1> QED
  BY <1>1, WholeWord DEF Word32

LEMMA TableFacts ==
  ASSUME TypeOK, NEW T \in Tables
  PROVE  /\ tables[T] \in TableSet
         /\ tables[T].cap \in Nat \ {0} /\ tables[T].old \in Nat
         /\ tables[T].bucket \in [Buckets(T) -> Words]
         /\ tables[T].inserts \in Counters /\ tables[T].deletes \in Counters
         /\ tables[T].claimed \in Nat /\ tables[T].done \in Nat
<1>1. tables[T] \in TableSet
  BY DEF TypeOK, Tables
<1> QED
  BY <1>1, FieldsOf DEF Buckets

LEMMA SlotInside ==
  ASSUME TypeOK, NEW T \in Tables, NEW k \in Keys, NEW n \in Nat
  PROVE  Slot(T, k, n) \in Buckets(T)
<1>1. Hash[k] + n \in Nat /\ Word \in Nat \ {0}
  BY ExpandAssumption
<1> DEFINE h == (Hash[k] + n) % Word
<1>2. h \in Nat
  BY <1>1, Dividing
<1>3. tables[T].cap \in Nat \ {0}
  BY TableFacts
<1> HIDE DEF h
<1>4. h % tables[T].cap \in 0 .. tables[T].cap - 1
  BY <1>2, <1>3, Dividing
<1> QED
  BY <1>4 DEF h, Slot, Buckets

LEMMA LocalFacts ==
  ASSUME TypeOK, NEW t \in Threads
  PROVE  /\ local[t] \in LocalSet
         /\ local[t].pc \in Labels /\ local[t].op \in {"none", "insert", "erase"}
         /\ local[t].key \in Keys \cup {0} /\ local[t].tab \in Nat
         /\ local[t].i \in Nat /\ local[t].help \in Nat
         /\ local[t].restart \in BOOLEAN /\ local[t].b \in Nat
         /\ local[t].found \in Words /\ local[t].into \in Nat
         /\ local[t].j \in Nat /\ local[t].acc \in Int /\ local[t].pos \in Nat
         /\ local[t].cap \in Nat
<1>1. local[t] \in LocalSet
  BY DEF TypeOK
<1> QED
  BY <1>1 DEF LocalSet

-----------------------------------------------------------------------------
LEMMA NeverVacantAgain ==
  ASSUME NEW w \in Words, NEW x, WordStep(w, x), w # Vacant
  PROVE  x # Vacant
<1>1. CASE w.marked
  BY <1>1 DEF WordStep
<1>2. CASE w.key # EMPTY
  <2>1. x.key # EMPTY
    BY <1>2, KeyFacts DEF WordStep
  <2> QED
    BY <2>1 DEF Vacant, Word32
<1>3. CASE ~ w.marked /\ w.key = EMPTY
  <2>1. w.marked = FALSE
    BY <1>3 DEF Words
  <2> QED
    BY <1>3, <2>1, WholeWord DEF Vacant, Word32
<1> QED
  BY <1>1, <1>2, <1>3

(* A step within an operation, of the thread itself or of another one. *)
SameProbe(u) ==
  /\ local'[u].op = local[u].op /\ local'[u].key = local[u].key
  /\ local'[u].tab = local[u].tab /\ local'[u].i = local[u].i

SameCall(u) ==
  SameProbe(u) /\ local'[u].help = local[u].help /\ local'[u].restart = local[u].restart

LEMMA InCallKept ==
  ASSUME TypeOK, Evolve, NEW u \in Threads, local[u].pc # "idle", SameCall(u), InCall(u)
  PROVE  InCall(u)'
<1>1. /\ Len(tables) <= Len(tables')
      /\ \A T \in Tables : tables'[T].cap = tables[T].cap
  BY DEF Evolve
<1>2. Len(tables) \in Nat /\ Tables' = 1 .. Len(tables')
  BY DEF TypeOK, Tables
<1>3. /\ local[u].tab \in Tables' /\ local[u].help \in Tables'
      /\ local[u].tab \in Tables
  BY <1>1, <1>2 DEF InCall, Tables
<1>4. local[u].i \in 0 .. tables'[local[u].tab].cap - 1
  BY <1>1, <1>3 DEF InCall, Buckets
<1> QED
  BY <1>3, <1>4 DEF InCall, Buckets, SameCall, SameProbe

LEMMA ProberKept ==
  ASSUME TypeOK, Evolve, NEW u \in Threads, local[u].pc # "idle", SameProbe(u),
         InCall(u), Prober(u),
         local'[u].pc = "recheck" /\ local[u].op = "insert" => Bucket(u) # Vacant
  PROVE  Prober(u)'
<1> DEFINE T == local[u].tab
           k == local[u].key
<1>1. T \in Tables /\ k \in Keys /\ local[u].i \in Buckets(T)
  BY DEF InCall
<1>2. /\ tables'[T].cap = tables[T].cap
      /\ \A b \in Buckets(T) : WordStep(tables[T].bucket[b], tables'[T].bucket[b])
  BY <1>1 DEF Evolve
<1>3. local[u].i \in Nat
  BY LocalFacts
<1>4. \A n \in Nat : Slot(T, k, n) \in Buckets(T)
  BY <1>1, SlotInside
<1> DEFINE Spot(n) == ((Hash[k] + n) % Word) % tables[T].cap
<1>5. \A n : Slot(T, k, n) = Spot(n)
  BY DEF Slot
<1>6. \A n : Slot(local[u].tab, local[u].key, n)' = Spot(n)
  BY <1>2 DEF Slot, SameProbe
<1>7. ASSUME NEW m \in 0 .. local[u].i - 1
      PROVE  tables'[T].bucket[Spot(m)].key \notin {EMPTY, k}
  <2> HIDE DEF Spot, T, k
  <2>1. m \in Nat
    BY <1>3
  <2>2. tables[T].bucket[Spot(m)].key \notin {EMPTY, k}
    BY <1>5 DEF Prober, T, k
  <2>3. WordStep(tables[T].bucket[Spot(m)], tables'[T].bucket[Spot(m)])
    BY <1>2, <1>4, <1>5, <2>1
  <2> QED
    BY <1>1, <2>2, <2>3, KeyFacts DEF WordStep
<1> HIDE DEF Spot, T, k
<1>8. ASSUME local'[u].pc = "recheck", local[u].op = "insert"
      PROVE  tables'[T].bucket[Spot(local[u].i)] # Vacant
  <2>1. tables[T].bucket[Spot(local[u].i)] # Vacant
    BY <1>5, <1>8 DEF Bucket, Here, T, k
  <2>2. /\ WordStep(tables[T].bucket[Spot(local[u].i)], tables'[T].bucket[Spot(local[u].i)])
        /\ tables[T].bucket[Spot(local[u].i)] \in Words
    BY <1>1, <1>2, <1>3, <1>4, <1>5, TableFacts
  <2> QED
    BY <2>1, <2>2, NeverVacantAgain
<1>9. (\A m \in 0 .. local[u].i - 1 :
        tables[local[u].tab].bucket[Slot(local[u].tab, local[u].key, m)].key
          \notin {EMPTY, local[u].key})'
  BY <1>6, <1>7 DEF T, k, SameProbe
<1>10. (local[u].pc = "recheck" /\ local[u].op = "insert" => Bucket(u) # Vacant)'
  <2>1. Vacant' = Vacant
    BY DEF Vacant, Word32, EMPTY
  <2>2. Bucket(u)' = tables'[T].bucket[Spot(local[u].i)]
    BY <1>6 DEF Bucket, Here, T, k, SameProbe
  <2> QED
    BY <1>8, <2>1, <2>2 DEF SameProbe
<1> QED
  BY <1>9, <1>10 DEF Prober

LEMMA HelpedKept ==
  ASSUME StayMigrated, NEW u \in Threads, local'[u] = local[u], InCall(u), Helped(u)
  PROVE  Helped(u)'
<1>1. ASSUME local[u].pc \in {"count", "start", "size", "swap", "probe", "cas", "recheck"}
      PROVE  ~ local[u].restart /\ Migrated(local[u].tab)'
  <2>1. local[u].tab \in Tables /\ Migrated(local[u].tab) /\ ~ local[u].restart
    BY <1>1 DEF InCall, Helped
  <2>2. \A T \in Tables : Migrated(T) => Migrated(T)'
    BY DEF StayMigrated
  <2>3. Migrated(local[u].tab)'
    BY <2>1, <2>2 DEF Migrated, OldChunks
  <2> QED
    BY <2>1, <2>3
<1> QED
  BY <1>1 DEF Helped

LEMMA LocalsKept ==
  ASSUME NEW u \in Threads, local'[u] = local[u], Locals(u)
  PROVE  Locals(u)'
BY DEF Locals

-----------------------------------------------------------------------------
(* The old table of a migration, and its chunks, do not change. *)
LEMMA ChunksKept ==
  ASSUME TypeOK, Chain, Evolve, NEW T \in Tables
  PROVE  /\ Chunks(T)' = Chunks(T)
         /\ tables'[T].old = tables[T].old
         /\ tables[T].old # 0 => tables[T].old \in Tables
<1>1. tables[T].old = T - 1 /\ tables'[T].old = tables[T].old
  BY DEF Chain, Evolve
<1>2. T - 1 # 0 => T - 1 \in Tables
  BY DEF Tables, TypeOK
<1>3. T - 1 # 0 => tables'[T - 1].cap = tables[T - 1].cap
  BY <1>2 DEF Evolve
<1> QED
  BY <1>1, <1>2, <1>3 DEF Chunks, OldChunks

LEMMA ChunksAre ==
  ASSUME TypeOK, Chain, NEW T \in Tables
  PROVE  /\ Chunks(T) \in Nat
         /\ T = 1 => Chunks(T) = 0
         /\ T # 1 => /\ Chunks(T) = (tables[T - 1].cap + Chunk - 1) \div Chunk
                     /\ T - 1 \in Tables /\ Chunks(T) > 0
                     /\ \A b \in Buckets(T - 1) : b \div Chunk < Chunks(T)
<1>1. tables[T].old = T - 1
  BY DEF Chain
<1>2. CASE T = 1
  BY <1>1, <1>2 DEF Chunks, OldChunks
<1>3. CASE T # 1
  <2>1. T - 1 \in Tables /\ T - 1 # 0
    BY <1>3 DEF Tables, TypeOK
  <2>2. tables[T - 1].cap \in Nat \ {0} /\ Chunk \in Nat \ {0}
    BY <2>1, TableFacts, ExpandAssumption
  <2>3. Chunks(T) = (tables[T - 1].cap + Chunk - 1) \div Chunk
    BY <1>1, <2>1 DEF Chunks, OldChunks
  <2>4. ASSUME NEW b \in Buckets(T - 1)
        PROVE  b \div Chunk < Chunks(T) /\ b \div Chunk \in Nat
    <3> DEFINE cap == tables[T - 1].cap
    <3>1. cap \in Nat /\ b \in 0 .. cap - 1 /\ b \in Nat
      BY <2>2 DEF Buckets
    <3> HIDE DEF cap
    <3>2. b \div Chunk < (cap + Chunk - 1) \div Chunk
      BY <2>2, <3>1, DivCeil
    <3> QED
      BY <2>2, <2>3, <3>1, <3>2, Dividing DEF cap
  <2>5. 0 \in Buckets(T - 1)
    BY <2>2 DEF Buckets
  <2>6. Chunks(T) \in Nat
    <3>1. tables[T - 1].cap + Chunk - 1 \in Nat
      BY <2>2
    <3> QED
      BY <2>2, <2>3, <3>1, Dividing
  <2>7. Chunks(T) > 0
    BY <2>4, <2>5, <2>6
  <2> QED
    BY <1>3, <2>1, <2>3, <2>4, <2>6, <2>7
<1> QED
  BY <1>2, <1>3

LEMMA OwnChunkIs ==
  ASSUME TypeOK, NEW t \in Threads
  PROVE  local[t].pc # "moved" => OwnChunk(t) = local[t].b \div Chunk /\ OwnChunk(t) \in Nat
<1>1. local[t].b \in Nat /\ Chunk \in Nat \ {0}
  BY LocalFacts, ExpandAssumption
<1> QED
  BY <1>1, Dividing DEF OwnChunk

LEMMA SameView ==
  ASSUME NEW u, local'[u] = local[u]
  PROVE  /\ Migrating(u)' = Migrating(u) /\ Copying(u)' = Copying(u)
         /\ OwnChunk(u)' = OwnChunk(u)
         /\ \A b : AheadOf(u, b)' = AheadOf(u, b)
<1>1. OwnChunk(u)' = OwnChunk(u)
  BY DEF OwnChunk
<1>2. \A b : AheadOf(u, b)' = AheadOf(u, b)
  BY <1>1 DEF AheadOf
<1> QED
  BY <1>1, <1>2 DEF Migrating, Copying

LEMMA HelperPlace ==
  ASSUME TypeOK, Chain, NEW u \in Threads, Migrating(u), InCall(u), Locals(u), Owner(u)
  PROVE  LET T == local[u].help
         IN /\ T \in Tables /\ T # 1 /\ T - 1 \in Tables /\ tables[T].old = T - 1
            /\ Chunks(T) > 0 /\ Chunks(T) \in Nat
            /\ OldOf(T) = tables[T - 1]
            /\ OwnChunk(u) \in Nat /\ OwnChunk(u) < Chunks(T)
            /\ OwnChunk(u) < tables[T].claimed
            /\ local[u].pc # "moved" => local[u].b \in Buckets(T - 1)
<1> DEFINE T == local[u].help
<1>1. T \in Tables
  BY DEF Migrating, InCall, Locals
<1>2. Chunks(T) \in Nat /\ tables[T].claimed \in Nat
  BY <1>1, ChunksAre, TableFacts
<1>3. OwnChunk(u) \in 0 .. Lowest(tables[T].claimed, Chunks(T)) - 1
  BY DEF Owner
<1>4. /\ OwnChunk(u) \in Nat /\ OwnChunk(u) < Chunks(T)
      /\ OwnChunk(u) < tables[T].claimed /\ Chunks(T) > 0
  BY <1>2, <1>3 DEF Lowest
<1>5. T # 1
  BY <1>1, <1>4, ChunksAre
<1>6. T - 1 \in Tables /\ tables[T].old = T - 1
  BY <1>1, <1>5, ChunksAre DEF Chain
<1> QED
  BY <1>1, <1>2, <1>4, <1>5, <1>6 DEF OldOf, Owner

LEMMA OwnerKept ==
  ASSUME TypeOK, TypeOK', Chain, Evolve, NEW u \in Threads,
         Migrating(u), InCall(u), Locals(u), Owner(u),
         local'[u].help = local[u].help, OwnChunk(u)' = OwnChunk(u),
         IF local'[u].pc = "moved"
         THEN /\ local'[u].b > 0
              /\ local'[u].b % Chunk = 0 \/ local'[u].b = tables[local[u].help - 1].cap
         ELSE local'[u].b \in Buckets(local[u].help - 1)
  PROVE  Owner(u)'
<1> DEFINE T == local[u].help
<1>1. /\ T \in Tables /\ T # 1 /\ T - 1 \in Tables /\ tables[T].old = T - 1
      /\ Chunks(T) \in Nat /\ OwnChunk(u) \in Nat /\ OwnChunk(u) < Chunks(T)
      /\ OwnChunk(u) < tables[T].claimed
  BY HelperPlace
<1>2. Chunks(T)' = Chunks(T) /\ tables'[T].old = T - 1
  BY <1>1, ChunksKept
<1>3. tables'[T].claimed \in Nat /\ tables[T].claimed \in Nat
  <2>1. T \in 1 .. Len(tables')
    BY <1>1 DEF Tables, Evolve, TypeOK
  <2> QED
    BY <1>1, <2>1, TableFacts, FieldsOf DEF TypeOK
<1>4. tables[T].claimed <= tables'[T].claimed /\ tables'[T - 1].cap = tables[T - 1].cap
  BY <1>1 DEF Evolve
<1>5. OwnChunk(u) \in 0 .. Lowest(tables'[T].claimed, OldChunks(tables', T)) - 1
  BY <1>1, <1>2, <1>3, <1>4 DEF Lowest, Chunks
<1>6. OldOf(T)'.cap = tables[T - 1].cap /\ Buckets(tables[T].old)' = Buckets(T - 1)
  BY <1>2, <1>4 DEF OldOf, Buckets
<1> HIDE DEF T
<1>7. OldOf(local[u].help)' = OldOf(T)' /\ tables'[local'[u].help].old = tables'[T].old
  BY DEF T, OldOf
<1>8. OwnChunk(u)' \in 0 .. Lowest(tables[local[u].help].claimed, Chunks(local[u].help))' - 1
  BY <1>5 DEF Lowest, Chunks, T
<1>9. Buckets(tables[local[u].help].old)' = Buckets(T - 1)
  BY <1>6 DEF T, Buckets
<1> QED
  BY <1>6, <1>7, <1>8, <1>9 DEF Owner, T

LEMMA CopyingMigrates ==
  ASSUME NEW u, Copying(u), Locals(u)
  PROVE  Migrating(u) /\ local[u].pc # "moved"
BY DEF Copying, Migrating, Locals

LEMMA CopierKept ==
  ASSUME TypeOK, Chain, Evolve, NEW u \in Threads, Copying(u),
         InCall(u), Locals(u), Owner(u), Copier(u),
         local'[u].help = local[u].help, local'[u].b = local[u].b,
         local'[u].found = local[u].found,
         local[u].found.key \notin KeysIn(tables'[local[u].help]),
         local'[u].into # 0 =>
           /\ local'[u].into = local[u].help
           /\ local'[u].j \in Buckets(local[u].help)
           /\ \A m \in 0 .. local'[u].j - 1 :
                tables[local[u].help].bucket[Slot(local[u].help, local[u].found.key, m)].key
                  # EMPTY
           /\ local'[u].pc = "copyRecheck" =>
                tables[local[u].help].bucket
                  [Slot(local[u].help, local[u].found.key, local'[u].j)] # Vacant
  PROVE  Copier(u)'
<1> DEFINE T == local[u].help
           k == local[u].found.key
           n == local'[u].j
<1>1. /\ T \in Tables /\ T - 1 \in Tables /\ tables[T].old = T - 1
      /\ OldOf(T) = tables[T - 1] /\ local[u].b \in Buckets(T - 1)
  BY CopyingMigrates, HelperPlace
<1>2. k \in Keys
  BY DEF Copier
<1>3. OldOf(T)' = tables'[T - 1] /\ OldOf(local[u].help)' = tables'[T - 1]
  BY <1>1 DEF Evolve, OldOf
<1>4. tables'[T - 1].bucket[local[u].b] = Word32(k, TRUE)
  <2>1. tables[T - 1].bucket[local[u].b] = Word32(k, TRUE)
    BY <1>1 DEF Copier
  <2>2. WordStep(tables[T - 1].bucket[local[u].b], tables'[T - 1].bucket[local[u].b])
    BY <1>1 DEF Evolve
  <2>3. Word32(k, TRUE).marked
    BY DEF Word32
  <2> QED
    BY <2>1, <2>2, <2>3 DEF WordStep
<1>5. (/\ local[u].found.key \in Keys \ KeysIn(tables[local[u].help])
       /\ OldOf(local[u].help).bucket[local[u].b] = Word32(local[u].found.key, TRUE))'
  BY <1>2, <1>3, <1>4 DEF Word32
<1>6. ASSUME local'[u].into # 0
      PROVE  (/\ local[u].j \in Buckets(local[u].into)
              /\ \A m \in 0 .. local[u].j - 1 :
                   tables[local[u].into].bucket[Slot(local[u].into, local[u].found.key, m)].key
                     # EMPTY
              /\ local[u].pc = "copyRecheck" => Target(u) # Vacant)'
  <2>1. local'[u].into = T /\ n \in Buckets(T) /\ n \in Nat
    BY <1>6 DEF Buckets
  <2>2. /\ tables'[T].cap = tables[T].cap
        /\ \A b \in Buckets(T) : WordStep(tables[T].bucket[b], tables'[T].bucket[b])
    BY <1>1 DEF Evolve
  <2> DEFINE Spot(m) == ((Hash[k] + m) % Word) % tables[T].cap
  <2>3. \A m : Slot(T, k, m) = Spot(m)
    BY DEF Slot
  <2>4. \A m : Slot(local[u].into, local[u].found.key, m)' = Spot(m)
    BY <2>1, <2>2 DEF Slot
  <2>5. \A m \in Nat : Spot(m) \in Buckets(T)
    BY <1>1, <1>2, <2>3, SlotInside
  <2>6. local'[u].j \in Buckets(local[u].into)'
    BY <2>1, <2>2 DEF Buckets
  <2> HIDE DEF Spot, T, k, n
  <2>7. ASSUME NEW m \in 0 .. n - 1
        PROVE  tables'[T].bucket[Spot(m)].key # EMPTY
    <3>1. m \in Nat
      BY <2>1
    <3>2. tables[T].bucket[Spot(m)].key # EMPTY
      BY <1>6, <2>3 DEF T, k, n
    <3>3. WordStep(tables[T].bucket[Spot(m)], tables'[T].bucket[Spot(m)])
      BY <2>2, <2>5, <3>1
    <3> QED
      BY <3>2, <3>3, KeyFacts DEF WordStep
  <2>8. local'[u].pc = "copyRecheck" => tables'[T].bucket[Spot(n)] # Vacant
    <3>1. local'[u].pc = "copyRecheck" => tables[T].bucket[Spot(n)] # Vacant
      BY <1>6, <2>3 DEF T, k, n
    <3>2. tables[T].bucket[Spot(n)] \in Words
      BY <1>1, <2>1, <2>5, TableFacts DEF T
    <3>3. WordStep(tables[T].bucket[Spot(n)], tables'[T].bucket[Spot(n)])
      BY <2>1, <2>2, <2>5
    <3> QED
      BY <3>1, <3>2, <3>3, NeverVacantAgain
  <2>9. Target(u)' = tables'[T].bucket[Spot(n)] /\ Vacant' = Vacant
    BY <2>1, <2>4 DEF Target, CopySlot, Vacant, Word32, EMPTY, T, k, n
  <2> QED
    BY <2>1, <2>4, <2>6, <2>7, <2>8, <2>9 DEF T, k, n
<1> QED
  BY <1>5, <1>6 DEF Copier, Copying

-----------------------------------------------------------------------------
(* A step that writes no bucket and claims or finishes no chunk. *)
Quiet ==
  /\ Len(tables') = Len(tables) /\ current' = current
  /\ \A T \in Tables : SameSkeleton(tables'[T], tables[T])

(* A thread keeps its chunk, and its place in it. *)
ViewKept(t) ==
  /\ Migrating(t)' <=> Migrating(t)
  /\ Migrating(t) =>
       /\ local'[t].help = local[t].help /\ OwnChunk(t)' = OwnChunk(t)
       /\ \A b \in Buckets(local[t].help - 1) : AheadOf(t, b)' <=> AheadOf(t, b)
  /\ Copying(t)' <=> Copying(t)
  /\ Copying(t) => local'[t].b = local[t].b

LEMMA QuietFacts ==
  ASSUME TypeOK, Chain, Quiet
  PROVE  /\ Tables' = Tables /\ Evolve /\ StayMigrated
         /\ \A T \in Tables : /\ Chunks(T)' = Chunks(T) /\ (Migrated(T)' <=> Migrated(T))
                              /\ tables'[T].bucket = tables[T].bucket
                              /\ KeysIn(tables'[T]) = KeysIn(tables[T])
                              /\ Buckets(T)' = Buckets(T)
                              /\ \A k, n : Slot(T, k, n)' = Slot(T, k, n)
<1>1. Tables' = Tables
  BY DEF Quiet, Tables
<1>2. Evolve
  <2>1. Len(tables) <= Len(tables') /\ current <= current'
    BY DEF Quiet, TypeOK
  <2>2. ASSUME NEW T \in Tables
        PROVE  /\ tables'[T].cap = tables[T].cap /\ tables'[T].old = tables[T].old
               /\ tables[T].claimed <= tables'[T].claimed
               /\ \A b \in Buckets(T) : WordStep(tables[T].bucket[b], tables'[T].bucket[b])
    <3>1. SameSkeleton(tables'[T], tables[T])
      BY DEF Quiet
    <3>2. tables[T].claimed \in Nat
      BY TableFacts
    <3> QED
      BY <3>1, <3>2 DEF SameSkeleton, SameButBuckets, WordStep
  <2> QED
    BY <2>1, <2>2 DEF Evolve
<1>3. ASSUME NEW T \in Tables
      PROVE  /\ Chunks(T)' = Chunks(T) /\ (Migrated(T)' <=> Migrated(T))
             /\ tables'[T].bucket = tables[T].bucket
             /\ KeysIn(tables'[T]) = KeysIn(tables[T])
             /\ Buckets(T)' = Buckets(T)
             /\ \A k, n : Slot(T, k, n)' = Slot(T, k, n)
  <2>1. Chunks(T)' = Chunks(T)
    BY <1>2, ChunksKept
  <2>2. SameSkeleton(tables'[T], tables[T])
    BY DEF Quiet
  <2>3. Migrated(T)' <=> Migrated(T)
    BY <2>1, <2>2 DEF Migrated, Chunks, SameSkeleton, SameButBuckets
  <2> QED
    BY <2>1, <2>2, <2>3 DEF SameSkeleton, SameButBuckets, KeysIn, Buckets, Slot
<1>4. StayMigrated
  BY <1>3 DEF StayMigrated
<1> QED
  BY <1>1, <1>2, <1>3, <1>4

LEMMA SameHelpers ==
  ASSUME NEW t \in Threads, Stay(t), ViewKept(t)
  PROVE  /\ \A T : Helpers(T)' = Helpers(T)
         /\ \A T : \A u \in Helpers(T) : \A b \in Buckets(T - 1) :
              AheadOf(u, b)' <=> AheadOf(u, b)
         /\ \A u \in Threads : Migrating(u)' <=> Migrating(u)
         /\ \A u \in Threads : Migrating(u) => OwnChunk(u)' = OwnChunk(u)
         /\ \A u \in Threads : (Copying(u)' <=> Copying(u)) /\ (Copying(u) => local'[u].b = local[u].b)
<1>1. ASSUME NEW u \in Threads, u # t
      PROVE  /\ local'[u] = local[u] /\ (Migrating(u)' <=> Migrating(u))
             /\ OwnChunk(u)' = OwnChunk(u)
             /\ (Copying(u)' <=> Copying(u))
             /\ \A b : AheadOf(u, b)' <=> AheadOf(u, b)
  BY <1>1, SameView DEF Stay
<1>2. \A u \in Threads : /\ Migrating(u)' <=> Migrating(u)
                         /\ Migrating(u) => /\ local'[u].help = local[u].help
                                            /\ OwnChunk(u)' = OwnChunk(u)
                         /\ Copying(u)' <=> Copying(u)
                         /\ Copying(u) => local'[u].b = local[u].b
  BY <1>1 DEF ViewKept
<1>3. ASSUME NEW T PROVE Helpers(T)' = Helpers(T)
  BY <1>2 DEF Helpers
<1>4. ASSUME NEW T, NEW u \in Helpers(T), NEW b \in Buckets(T - 1)
      PROVE  AheadOf(u, b)' <=> AheadOf(u, b)
  BY <1>1 DEF ViewKept, Helpers
<1> QED
  BY <1>2, <1>3, <1>4

LEMMA HelpersFinite ==
  ASSUME NEW T
  PROVE  IsFiniteSet(Helpers(T)) /\ Cardinality(Helpers(T)) \in Nat
<1>1. NumThreads \in Nat
  BY ExpandAssumption
<1>2. IsFiniteSet(Threads)
  BY <1>1, FS_Interval DEF Threads
<1>3. Helpers(T) \subseteq Threads
  BY DEF Helpers
<1> QED
  BY <1>2, <1>3, FS_Subset, FS_CardinalityType

(* The first table replaces none, so there is nothing to migrate into it. *)
LEMMA FirstMigrated ==
  ASSUME TypeOK, Chain, ChunksCounted
  PROVE  1 \in Tables /\ Migrated(1) /\ current \in Tables
<1>1. 1 \in Tables /\ current \in Tables
  BY DEF Chain, Tables, TypeOK
<1>2. Chunks(1) = 0 /\ tables[1].claimed \in Nat /\ tables[1].done \in Nat
  BY <1>1, ChunksAre, TableFacts
<1>3. tables[1].done + Cardinality(Helpers(1)) = 0
  BY <1>1, <1>2 DEF ChunksCounted, Lowest
<1>4. tables[1].done = 0
  BY <1>2, <1>3, HelpersFinite
<1> QED
  BY <1>1, <1>2, <1>4 DEF Migrated, Chunks

(* While a chunk is being moved the migration is not over, and it is the   *)
(* one into the current table.                                             *)
LEMMA BusyIsCurrent ==
  ASSUME TypeOK, Chain, ChunksCounted, NEW T \in Tables, NEW t \in Helpers(T)
  PROVE  ~ Migrated(T) /\ T = current
<1>1. /\ Chunks(T) \in Nat /\ tables[T].claimed \in Nat /\ tables[T].done \in Nat
      /\ tables[T].done + Cardinality(Helpers(T)) = Lowest(tables[T].claimed, Chunks(T))
  BY ChunksAre, TableFacts DEF ChunksCounted
<1>2. Cardinality(Helpers(T)) \in Nat /\ Cardinality(Helpers(T)) # 0
  BY HelpersFinite, FS_EmptySet
<1>3. tables[T].done < Chunks(T)
  BY <1>1, <1>2 DEF Lowest
<1>4. ~ Migrated(T)
  BY <1>1, <1>3 DEF Migrated, Chunks
<1>5. T = current
  BY <1>4 DEF Chain, Tables, TypeOK
<1> QED
  BY <1>4, <1>5

(* The keys of the tables after a step are reachable. *)
LEMMA ReachableNext ==
  ASSUME Tables' = Tables,
         \A T \in Tables : Buckets(T)' = Buckets(T) /\ \A k, n : Slot(T, k, n)' = Slot(T, k, n),
         \A T \in Tables : \A b \in Buckets(T) : \A k \in Keys :
           tables'[T].bucket[b].key = k =>
             \E n \in Buckets(T) :
               /\ Slot(T, k, n) = b
               /\ \A m \in 0 .. n - 1 : tables'[T].bucket[Slot(T, k, m)].key # EMPTY
  PROVE  KeysReachable'
<1> SUFFICES ASSUME NEW T \in Tables, NEW b \in Buckets(T), tables'[T].bucket[b].key \in Keys
             PROVE  \E n \in Buckets(T) :
                      /\ Slot(T, tables[T].bucket[b].key, n)' = b
                      /\ \A m \in 0 .. n - 1 :
                           tables'[T].bucket[Slot(T, tables[T].bucket[b].key, m)'].key # EMPTY
  BY DEF KeysReachable
<1> QED
  OBVIOUS


LEMMA QuietGlobals ==
  ASSUME TypeOK, Globals, Quiet, NEW t \in Threads, Stay(t), ViewKept(t)
  PROVE  Globals'
<1> USE DEF Globals
<1>1. Tables' = Tables /\ current' = current /\ current \in Tables
  BY QuietFacts, FirstMigrated DEF Quiet
<1>2. ASSUME NEW T \in Tables
      PROVE  /\ Chunks(T)' = Chunks(T) /\ (Migrated(T)' <=> Migrated(T))
             /\ tables'[T].bucket = tables[T].bucket
             /\ KeysIn(tables'[T]) = KeysIn(tables[T])
             /\ Buckets(T)' = Buckets(T)
             /\ tables'[T].claimed = tables[T].claimed /\ tables'[T].done = tables[T].done
             /\ tables'[T].old = tables[T].old
             /\ \A k, n : Slot(T, k, n)' = Slot(T, k, n)
  BY QuietFacts DEF Quiet, SameSkeleton, SameButBuckets
<1>3. Chain'
  <2>1. current = Len(tables) /\ current # 0 /\ \A T \in 1 .. current - 1 : T \in Tables
    BY DEF Chain, Tables, TypeOK
  <2>2. \A T \in 1 .. current - 1 : Migrated(T)'
    BY <1>2, <2>1 DEF Chain
  <2>3. \A T \in Tables : tables'[T].old = T - 1
    BY <1>2 DEF Chain
  <2> QED
    BY <1>1, <2>1, <2>2, <2>3 DEF Chain, Quiet
<1>4. ChunksCounted'
  <2> SUFFICES ASSUME NEW T \in Tables
               PROVE  (tables[T].done + Cardinality(Helpers(T))
                         = Lowest(tables[T].claimed, Chunks(T)))'
    BY <1>1 DEF ChunksCounted
  <2>1. Helpers(T)' = Helpers(T)
    BY SameHelpers
  <2> QED
    BY <1>2, <2>1 DEF ChunksCounted, Lowest
<1>5. OneOwner'
  BY SameHelpers DEF OneOwner
<1>6. MarksTellProgress'
  <2> SUFFICES ASSUME NEW T \in 2 .. current, NEW b \in Buckets(T - 1)'
               PROVE  (tables[T - 1].bucket[b].marked <=> ~ Ahead(T, b))'
    BY <1>1 DEF MarksTellProgress
  <2>1. T \in Tables /\ T - 1 \in Tables
    BY DEF Chain, Tables, TypeOK
  <2>2. b \in Buckets(T - 1)
    BY <1>2, <2>1
  <2>3. Ahead(T, b)' <=> Ahead(T, b)
    <3>1. \A u \in Helpers(T) : AheadOf(u, b)' <=> AheadOf(u, b)
      BY <2>2, SameHelpers
    <3> QED
      BY <1>2, <2>1, <3>1, SameHelpers DEF Ahead
  <2> QED
    BY <1>2, <2>1, <2>2, <2>3 DEF MarksTellProgress
<1>7. CurrentUnmarked'
  BY <1>1, <1>2 DEF CurrentUnmarked
<1>8. KeysUnique'
  BY <1>1, <1>2 DEF KeysUnique
<1>9. KeysReachable'
  <2> SUFFICES ASSUME NEW T \in Tables, NEW b \in Buckets(T), NEW k \in Keys,
                      tables[T].bucket[b].key = k
               PROVE  \E n \in Buckets(T) :
                        /\ Slot(T, k, n) = b
                        /\ \A m \in 0 .. n - 1 : tables'[T].bucket[Slot(T, k, m)].key # EMPTY
    BY <1>1, <1>2, ReachableNext
  <2>1. PICK n \in Buckets(T) :
          /\ Slot(T, k, n) = b
          /\ \A m \in 0 .. n - 1 : tables[T].bucket[Slot(T, k, m)].key # EMPTY
    BY DEF KeysReachable
  <2> QED
    BY <1>2, <2>1
<1>10. MarkedKeysMove' /\ MovedKeysMarked'
  <2> SUFFICES ASSUME ~ Migrated(current)'
               PROVE  MarkedKeysMove' /\ MovedKeysMarked'
    BY DEF MarkedKeysMove, MovedKeysMarked
  <2>0. ~ Migrated(current)
    BY <1>1, <1>2
  <2> USE <2>0
  <2>1. current - 1 \in Tables
    <3>1. current # 1
      BY FirstMigrated
    <3> QED
      BY <1>1, <3>1 DEF Tables
  <2>2. /\ tables'[current - 1].bucket = tables[current - 1].bucket
        /\ Buckets(current - 1)' = Buckets(current - 1)
        /\ KeysIn(tables'[current]) = KeysIn(tables[current])
    BY <1>1, <1>2, <2>1
  <2>3. MarkedKeysMove'
    BY <1>1, <2>2, SameHelpers DEF MarkedKeysMove
  <2>4. MovedKeysMarked'
    BY <1>1, <2>2 DEF MovedKeysMarked, Word32
  <2> QED
    BY <2>3, <2>4
<1> QED
  BY <1>3, <1>4, <1>5, <1>6, <1>7, <1>8, <1>9, <1>10

-----------------------------------------------------------------------------
(* What a step does not change for the threads that do not take it. *)
LEMMA OthersKept ==
  ASSUME IInv, TypeOK', Evolve, StayMigrated, NEW u \in Threads, local'[u] = local[u],
         Copying(u) => local[u].found.key \notin KeysIn(tables'[local[u].help])
  PROVE  InPlace(u)' /\ Copier(u)'
<1>1. /\ TypeOK /\ Chain /\ InCall(u) /\ Helped(u) /\ Locals(u) /\ Owner(u)
      /\ Prober(u) /\ Copier(u)
  BY DEF IInv, Globals, InPlace
<1>2. SameCall(u) /\ SameProbe(u)
  BY DEF SameCall, SameProbe
<1>3. InCall(u)' /\ Prober(u)'
  <2>1. CASE local[u].pc = "idle"
    BY <2>1 DEF InCall, Prober
  <2>2. CASE local[u].pc # "idle"
    <3>1. local'[u].pc = "recheck" /\ local[u].op = "insert" => Bucket(u) # Vacant
      BY <1>1, <2>2 DEF Prober
    <3> QED
      BY <1>1, <1>2, <2>2, <3>1, InCallKept, ProberKept
  <2> QED
    BY <2>1, <2>2
<1>4. Helped(u)' /\ Locals(u)'
  BY <1>1, HelpedKept, LocalsKept
<1>5. Owner(u)'
  <2>1. CASE Migrating(u)
    <3>1. OwnChunk(u)' = OwnChunk(u)
      BY SameView
    <3>2. /\ tables[local[u].help].old = local[u].help - 1
          /\ OldOf(local[u].help) = tables[local[u].help - 1]
          /\ local[u].pc # "moved" => local[u].b \in Buckets(local[u].help - 1)
      BY <1>1, <2>1, HelperPlace
    <3>3. IF local'[u].pc = "moved"
          THEN /\ local'[u].b > 0
               /\ local'[u].b % Chunk = 0 \/ local'[u].b = tables[local[u].help - 1].cap
          ELSE local'[u].b \in Buckets(local[u].help - 1)
      BY <1>1, <2>1, <3>2 DEF Owner
    <3> QED
      BY <1>1, <2>1, <3>1, <3>3, OwnerKept
  <2>2. CASE ~ Migrating(u)
    BY <2>2, SameView DEF Owner
  <2> QED
    BY <2>1, <2>2
<1>6. Copier(u)'
  <2>1. CASE Copying(u)
    <3>1. local[u].into # 0 => local[u].into = local[u].help
      BY <1>1 DEF Locals
    <3>2. local'[u].into # 0 =>
           /\ local'[u].into = local[u].help
           /\ local'[u].j \in Buckets(local[u].help)
           /\ \A m \in 0 .. local'[u].j - 1 :
                tables[local[u].help].bucket[Slot(local[u].help, local[u].found.key, m)].key
                  # EMPTY
           /\ local'[u].pc = "copyRecheck" =>
                tables[local[u].help].bucket
                  [Slot(local[u].help, local[u].found.key, local'[u].j)] # Vacant
      BY <1>1, <2>1, <3>1 DEF Copier, Target, CopySlot
    <3> QED
      BY <1>1, <2>1, <3>2, CopierKept
  <2>2. CASE ~ Copying(u)
    BY <2>2, SameView DEF Copier
  <2> QED
    BY <2>1, <2>2
<1> QED
  BY <1>3, <1>4, <1>5, <1>6 DEF InPlace

LEMMA QuietLive ==
  ASSUME IInv, Quiet
  PROVE  Live' = Live
<1>1. TypeOK /\ Chain /\ current \in Tables
  BY FirstMigrated DEF IInv, Globals
<1>2. /\ current' = current /\ (Migrated(current)' <=> Migrated(current))
      /\ KeysIn(tables'[current]) = KeysIn(tables[current])
      /\ tables'[current].old = tables[current].old
  BY <1>1, QuietFacts DEF Quiet, SameSkeleton, SameButBuckets
<1>3. /\ (tables'[current].done = OldChunks(tables', current)) <=> Migrated(current)'
      /\ (tables[current].done = OldChunks(tables, current)) <=> Migrated(current)
  BY <1>2 DEF Migrated
<1>4. ~ Migrated(current) => KeysIn(tables'[tables[current].old]) = KeysIn(tables[tables[current].old])
  <2>1. ~ Migrated(current) => current # 1
    BY FirstMigrated DEF IInv, Globals
  <2>2. ~ Migrated(current) => tables[current].old \in Tables
    BY <1>1, <2>1 DEF Chain, Tables, TypeOK
  <2> QED
    BY <1>1, <2>2, QuietFacts
<1> QED
  BY <1>2, <1>3, <1>4 DEF Live, LiveIn

LEMMA QuietRecords ==
  ASSUME IInv, Quiet, NEW u \in Threads, local'[u] = local[u], seen'[u] = seen[u]
  PROVE  Records(u)'
<1>1. TypeOK /\ Chain /\ InCall(u) /\ LostErase(u) /\ SeenOK(u) /\ Live' = Live
  BY QuietLive DEF IInv, Globals, InPlace, Records
<1>2. LostErase(u)'
  <2>1. ASSUME local[u].pc \in {"cas", "recheck"}, local[u].op = "erase", Gone(u)'
        PROVE  \E S \in seen[u] : local[u].key \notin S
    <3>1. local[u].tab \in Tables
      BY <1>1, <2>1 DEF InCall
    <3>2. Bucket(u)' = Bucket(u)
      BY <1>1, <3>1, QuietFacts DEF Bucket, Here, Slot
    <3> QED
      BY <1>1, <2>1, <3>2 DEF LostErase, Gone, Mine, Word32
  <2> QED
    BY <2>1 DEF LostErase
<1>3. SeenOK(u)'
  BY <1>1 DEF SeenOK, Finished
<1> QED
  BY <1>2, <1>3 DEF Records

LEMMA QuietStep ==
  ASSUME IInv, TypeOK', Quiet, NEW t \in Threads, Stay(t), ViewKept(t),
         \A u \in Threads \ {t} : seen'[u] = seen[u],
         InPlace(t)', Copier(t)', Records(t)'
  PROVE  IInv'
<1>1. Globals'
  BY QuietGlobals DEF IInv
<1>2. ASSUME NEW u \in Threads \ {t}
      PROVE  InPlace(u)' /\ Copier(u)' /\ Records(u)'
  <2>1. local'[u] = local[u] /\ seen'[u] = seen[u]
    BY DEF Stay
  <2>2. Evolve /\ StayMigrated
    BY QuietFacts DEF IInv, Globals
  <2>3. Copying(u) => local[u].found.key \notin KeysIn(tables'[local[u].help])
    <3>1. ASSUME Copying(u)
          PROVE  local[u].help \in Tables
      BY <3>1, CopyingMigrates, HelperPlace DEF IInv, InPlace, Globals
    <3> QED
      BY <3>1, QuietFacts DEF IInv, Globals, Copier
  <2> QED
    BY <2>1, <2>2, <2>3, OthersKept, QuietRecords
<1> QED
  BY <1>1, <1>2 DEF IInv

-----------------------------------------------------------------------------
-----------------------------------------------------------------------------
(* What the helpers of the actions do to the locals. *)
LEMMA OnlyIs ==
  ASSUME TypeOK, NEW t \in Threads, NEW l \in LocalSet, Only(t, l)
  PROVE  /\ TypeOK' /\ Quiet /\ Stay(t) /\ local'[t] = l
         /\ tables' = tables /\ current' = current /\ seen' = seen
         /\ Tables' = Tables
<1>1. /\ tables' = tables /\ current' = current /\ seen' = seen /\ left' = left
      /\ result' = result /\ local' = [local EXCEPT ![t] = l]
  BY DEF Only, quiet
<1>2. TypeOK'
  BY <1>1 DEF TypeOK
<1>3. Quiet
  BY <1>1 DEF Quiet, SameSkeleton, SameButBuckets
<1>4. Stay(t) /\ local'[t] = l
  BY <1>1 DEF TypeOK, Stay
<1> QED
  BY <1>1, <1>2, <1>3, <1>4 DEF Tables

LEMMA GotoIs ==
  ASSUME TypeOK, NEW t \in Threads, NEW p \in Labels
  PROVE  /\ [local[t] EXCEPT !.pc = p] \in LocalSet
         /\ Goto(t, p) => local' = [local EXCEPT ![t] = [local[t] EXCEPT !.pc = p]]
<1>1. local[t] \in LocalSet
  BY LocalFacts
<1>2. [local[t] EXCEPT !.pc = p] \in LocalSet
  BY <1>1 DEF LocalSet
<1>3. Goto(t, p) => local' = [local EXCEPT ![t] = [local[t] EXCEPT !.pc = p]]
  BY Zenon DEF Goto
<1> QED
  BY <1>2, <1>3

LEMMA OnlyGotoIs ==
  ASSUME TypeOK, NEW t \in Threads, NEW p \in Labels, OnlyGoto(t, p)
  PROVE  /\ TypeOK' /\ Quiet /\ Stay(t)
         /\ tables' = tables /\ current' = current /\ seen' = seen
         /\ Tables' = Tables
         /\ local'[t].pc = p /\ SameCall(t) /\ SameProbe(t)
         /\ local'[t].b = local[t].b /\ local'[t].found = local[t].found
         /\ local'[t].into = local[t].into /\ local'[t].j = local[t].j
         /\ local'[t].cap = local[t].cap
<1>1. /\ local'[t] = [local[t] EXCEPT !.pc = p] /\ TypeOK' /\ Quiet /\ Stay(t)
      /\ tables' = tables /\ current' = current /\ seen' = seen /\ Tables' = Tables
  BY GotoIs, OnlyIs DEF OnlyGoto
<1>2. local[t] \in LocalSet
  BY LocalFacts
<1> DEFINE l == local[t]
           m == local'[t]
<1>3. /\ m.pc = p /\ m.op = l.op /\ m.key = l.key /\ m.tab = l.tab /\ m.i = l.i
      /\ m.help = l.help /\ m.restart = l.restart /\ m.b = l.b /\ m.found = l.found
      /\ m.into = l.into /\ m.j = l.j /\ m.cap = l.cap
  <2> SUFFICES ASSUME NEW x \in LocalSet, NEW y, y = [x EXCEPT !.pc = p]
               PROVE  /\ y.pc = p /\ y.op = x.op /\ y.key = x.key /\ y.tab = x.tab
                      /\ y.i = x.i /\ y.help = x.help /\ y.restart = x.restart
                      /\ y.b = x.b /\ y.found = x.found
                      /\ y.into = x.into /\ y.j = x.j /\ y.cap = x.cap
    BY <1>1, <1>2
  <2> QED
    BY DEF LocalSet
<1> QED
  BY <1>1, <1>3 DEF SameCall, SameProbe

(* A step of an operation that is not moving keys, and stays in its call.  *)
LEMMA FreeStep ==
  ASSUME IInv, TypeOK', Quiet, NEW t \in Threads, Stay(t), seen' = seen,
         ~ Finished(t), ~ Migrating(t),
         local'[t].pc \notin {"idle", "read", "mark", "copy", "moved", "copyRead",
                              "copyCAS", "copyRecheck", "inc", "flush", "clear"},
         local'[t].into = 0, local'[t].j = 0,
         local'[t].pc = "swap" => local'[t].cap > 0,
         InCall(t)', Helped(t)', Prober(t)', LostErase(t)'
  PROVE  IInv'
<1>1. ~ Migrating(t)' /\ ~ Copying(t)' /\ ~ Finished(t)'
  BY DEF Migrating, Copying, Finished
<1>2. ~ Copying(t)
  BY CopyingMigrates DEF IInv, InPlace
<1>3. ViewKept(t)
  BY <1>1, <1>2 DEF ViewKept
<1>4. Locals(t)' /\ Owner(t)' /\ Copier(t)'
  BY <1>1 DEF Locals, Owner, Copier
<1>5. SeenOK(t)'
  BY <1>1, QuietLive DEF IInv, Records, SeenOK
<1>6. InPlace(t)' /\ Records(t)'
  BY <1>4, <1>5 DEF InPlace, Records
<1> QED
  BY <1>3, <1>4, <1>6, QuietStep DEF Stay

(* The pcs of an operation outside migrate. *)
LEMMA NotMigrating ==
  ASSUME IInv, NEW t \in Threads,
         local[t].pc \in {"expand", "claim", "count", "start", "size", "swap", "again",
                          "probe", "cas", "recheck"}
  PROVE  /\ ~ Migrating(t) /\ ~ Finished(t) /\ local[t].pc # "idle"
         /\ local[t].into = 0 /\ local[t].j = 0
         /\ TypeOK /\ Chain /\ InCall(t) /\ Helped(t) /\ Prober(t) /\ LostErase(t)
         /\ SeenOK(t)
BY DEF IInv, InPlace, Records, Globals, Migrating, Finished, Locals

-----------------------------------------------------------------------------
(* Labels of an operation outside migrate, and those past helpExpansion. *)
FreeLabels == {"expand", "claim", "count", "start", "size", "swap", "again", "probe",
               "cas", "recheck"}
HelpedLabels == {"count", "start", "size", "swap", "probe", "cas", "recheck"}

LEMMA LostEraseKept ==
  ASSUME TypeOK, Chain, NEW t \in Threads, InCall(t), local[t].pc # "idle", SameProbe(t),
         Quiet, seen' = seen,
         local'[t].pc \in {"cas", "recheck"} /\ local[t].op = "erase" /\ Gone(t)
           => \E S \in seen[t] : local[t].key \notin S
  PROVE  LostErase(t)'
<1>1. local[t].tab \in Tables
  BY DEF InCall
<1>2. Bucket(t)' = Bucket(t)
  BY <1>1, QuietFacts DEF Bucket, Here, Slot, SameProbe
<1>3. Gone(t)' <=> Gone(t)
  BY <1>2 DEF Gone, Mine, Word32, SameProbe
<1> QED
  BY <1>2, <1>3 DEF LostErase, SameProbe

LEMMA HelpedAgain ==
  ASSUME TypeOK, Chain, NEW t \in Threads, InCall(t), local[t].pc # "idle", SameCall(t),
         Quiet,
         local'[t].pc \in HelpedLabels => ~ local[t].restart /\ Migrated(local[t].tab)
  PROVE  Helped(t)'
<1>1. local[t].tab \in Tables
  BY DEF InCall
<1>2. Migrated(local[t].tab)' <=> Migrated(local[t].tab)
  <2>1. local'[t].tab = local[t].tab
    BY DEF SameCall, SameProbe
  <2>2. \A T \in Tables : Migrated(T)' <=> Migrated(T)
    BY QuietFacts
  <2> QED
    BY <1>1, <2>1, <2>2 DEF Migrated, OldChunks
<1> QED
  BY <1>2 DEF Helped, HelpedLabels, SameCall, SameProbe

LEMMA GotoStep ==
  ASSUME IInv, NEW t \in Threads, local[t].pc \in FreeLabels,
         NEW p \in FreeLabels \ {"swap"}, OnlyGoto(t, p),
         p \in HelpedLabels => ~ local[t].restart /\ Migrated(local[t].tab),
         p = "recheck" /\ local[t].op = "insert" => Bucket(t) # Vacant,
         p \in {"cas", "recheck"} /\ local[t].op = "erase" /\ Gone(t)
           => \E S \in seen[t] : local[t].key \notin S
  PROVE  IInv'
<1>1. /\ ~ Migrating(t) /\ ~ Finished(t) /\ local[t].pc # "idle"
      /\ local[t].into = 0 /\ local[t].j = 0
      /\ TypeOK /\ Chain /\ InCall(t) /\ Prober(t)
  BY NotMigrating DEF FreeLabels
<1>2. p \in Labels
  BY DEF FreeLabels, Labels
<1>3. /\ TypeOK' /\ Quiet /\ Stay(t) /\ seen' = seen /\ local'[t].pc = p
      /\ SameCall(t) /\ SameProbe(t) /\ local'[t].into = 0 /\ local'[t].j = 0
  BY <1>1, <1>2, OnlyGotoIs
<1>4. Evolve
  BY <1>1, <1>3, QuietFacts
<1>5. InCall(t)' /\ Prober(t)'
  BY <1>1, <1>3, <1>4, InCallKept, ProberKept
<1>6. Helped(t)' /\ LostErase(t)'
  BY <1>1, <1>3, HelpedAgain, LostEraseKept
<1> QED
  BY <1>1, <1>3, <1>5, <1>6, FreeStep DEF FreeLabels

LEMMA HelpTestKeeps == ASSUME IInv, NEW t \in Threads, HelpTest(t) PROVE IInv'
BY GotoStep DEF HelpTest, FreeLabels, HelpedLabels

LEMMA HelpedMeans ==
  ASSUME IInv, NEW t \in Threads, HelpedAll(t), ~ local[t].restart
  PROVE  Migrated(local[t].tab)
<1>1. local[t].help = local[t].tab /\ Migrated(local[t].help)
  BY NotMigrating DEF HelpedAll, InCall
<1> QED
  BY <1>1 DEF Migrated, OldChunks

LEMMA CheckUseKeeps == ASSUME IInv, NEW t \in Threads, CheckUse(t) PROVE IInv'
<1>1. local[t].pc = "expand" /\ ~ local[t].restart /\ Migrated(local[t].tab)
  BY HelpedMeans DEF CheckUse, HelpedAll
<1>2. OnlyGoto(t, "start") \/ OnlyGoto(t, "count") \/ OnlyGoto(t, "probe")
  BY DEF CheckUse
<1> QED
  BY <1>1, <1>2, GotoStep DEF FreeLabels, HelpedLabels

LEMMA StartExpansionKeeps ==
  ASSUME IInv, NEW t \in Threads, StartExpansion(t) PROVE IInv'
<1>1. local[t].pc = "start" /\ ~ local[t].restart /\ Migrated(local[t].tab)
  BY NotMigrating DEF StartExpansion, Helped
<1>2. OnlyGoto(t, "size") \/ OnlyGoto(t, "again")
  BY DEF StartExpansion
<1> QED
  BY <1>1, <1>2, GotoStep DEF FreeLabels, HelpedLabels

-----------------------------------------------------------------------------
LEMMA PartIsNat ==
  ASSUME NEW c \in Counters, NEW pos \in Nat
  PROVE  Part(c, pos) \in Nat
<1>1. c.global \in Nat /\ c.sub \in [Threads -> Nat]
  BY DEF Counters
<1>2. NumThreads \in Nat /\ (pos < NumThreads => pos \in Threads)
  BY ExpandAssumption DEF Threads
<1> QED
  BY <1>1, <1>2 DEF Part

(* A step of a thread that counts. *)
LEMMA CountStep ==
  ASSUME IInv, NEW t \in Threads, local[t].pc \in HelpedLabels,
         NEW l \in LocalSet, Only(t, l), l.pc \in HelpedLabels \ {"cas", "recheck"},
         l.op = local[t].op, l.key = local[t].key, l.tab = local[t].tab,
         l.i = local[t].i, l.help = local[t].help, l.restart = local[t].restart,
         l.into = local[t].into, l.j = local[t].j,
         l.pc = "swap" => l.cap > 0
  PROVE  IInv'
<1>1. /\ ~ Migrating(t) /\ ~ Finished(t) /\ local[t].pc # "idle"
      /\ local[t].into = 0 /\ local[t].j = 0
      /\ TypeOK /\ Chain /\ InCall(t) /\ Prober(t) /\ Helped(t)
  BY NotMigrating DEF HelpedLabels
<1>2. /\ TypeOK' /\ Quiet /\ Stay(t) /\ seen' = seen /\ local'[t] = l
  BY <1>1, OnlyIs
<1>3. SameCall(t) /\ SameProbe(t)
  BY <1>2 DEF SameCall, SameProbe
<1>4. Evolve
  BY <1>1, <1>2, QuietFacts
<1>5. local'[t].pc \notin {"cas", "recheck"} /\ local'[t].pc \in HelpedLabels
  BY <1>2
<1>6. InCall(t)' /\ Prober(t)'
  BY <1>1, <1>2, <1>3, <1>4, <1>5, InCallKept, ProberKept
<1>7. Helped(t)'
  <2>1. ~ local[t].restart /\ Migrated(local[t].tab)
    BY <1>1 DEF Helped, HelpedLabels
  <2> QED
    BY <1>1, <1>2, <1>3, <2>1, HelpedAgain
<1>8. LostErase(t)'
  BY <1>5 DEF LostErase
<1> QED
  BY <1>1, <1>2, <1>5, <1>6, <1>7, <1>8, FreeStep DEF HelpedLabels

(* The locals after one step of a count, and at its end. *)
CountMore(x, a, n) == [x EXCEPT !.acc = a, !.pos = n]

LEMMA CountOn ==
  ASSUME NEW x \in LocalSet, NEW a \in Int, NEW n \in Nat
  PROVE  LET y == CountMore(x, a, n) IN
         /\ y \in LocalSet
         /\ y.op = x.op /\ y.key = x.key /\ y.tab = x.tab /\ y.i = x.i
         /\ y.help = x.help /\ y.into = x.into /\ y.j = x.j /\ y.restart = x.restart
         /\ y.pc = x.pc
BY DEF LocalSet, CountMore

CountDone(x, a, n, p) == [x EXCEPT !.acc = a, !.pos = n, !.pc = p]

LEMMA CountEnds ==
  ASSUME NEW x \in LocalSet, NEW a \in Int, NEW n \in Nat, NEW p \in Labels,
         NEW y, y = CountDone(x, a, n, p)
  PROVE  /\ y \in LocalSet
         /\ y.op = x.op /\ y.key = x.key /\ y.tab = x.tab /\ y.i = x.i
         /\ y.help = x.help /\ y.into = x.into /\ y.j = x.j /\ y.restart = x.restart
         /\ y.pc = p
BY DEF LocalSet, CountDone

SizeDone(x, a, n, p, c) == [x EXCEPT !.acc = a, !.pos = n, !.pc = p, !.cap = c]

LEMMA SizeFound ==
  ASSUME NEW x \in LocalSet, NEW a \in Int, NEW n \in Nat, NEW p \in Labels, NEW c \in Nat
  PROVE  LET y == SizeDone(x, a, n, p, c) IN
         /\ y \in LocalSet
         /\ y.op = x.op /\ y.key = x.key /\ y.tab = x.tab /\ y.i = x.i
         /\ y.help = x.help /\ y.into = x.into /\ y.j = x.j /\ y.restart = x.restart
         /\ y.pc = p /\ y.cap = c
BY DEF LocalSet, SizeDone

LEMMA NewCapacity ==
  ASSUME NEW a \in Int, NEW c \in Nat \ {0}, a >= 0
  PROVE  (IF a = 0 THEN 2 * c ELSE 4 * a) \in Nat \ {0}
OBVIOUS

LEMMA CountUseKeeps == ASSUME IInv, NEW t \in Threads, CountUse(t) PROVE IInv'
<1> DEFINE acc == local[t].acc + Part(tables[local[t].tab].inserts, local[t].pos)
           p == IF HalfUsed(t, acc) THEN "start" ELSE "probe"
           go == [local[t] EXCEPT !.acc = acc, !.pos = @ + 1]
           stop == [local[t] EXCEPT !.acc = 0, !.pos = 0, !.pc = p]
<1>1. local[t].pc = "count" /\ TypeOK /\ InCall(t) /\ local[t].pc # "idle"
      /\ local[t].into = 0 /\ local[t].j = 0
  BY NotMigrating DEF CountUse
<1>2. local[t] \in LocalSet /\ acc \in Int /\ local[t].pos \in Nat
      /\ p \in {"start", "probe"} /\ p \in Labels
  <2>1. local[t].tab \in Tables
    BY <1>1 DEF InCall
  <2>2. Part(tables[local[t].tab].inserts, local[t].pos) \in Nat
    BY <1>1, <2>1, TableFacts, LocalFacts, PartIsNat
  <2> QED
    BY <1>1, <2>2, LocalFacts DEF Labels
<1>3. Only(t, go) \/ Only(t, stop)
  BY DEF CountUse
<1> HIDE DEF acc, p, go, stop
<1>4. CASE Only(t, go)
  <2>1. go = CountMore(local[t], acc, local[t].pos + 1)
    BY Zenon DEF go, CountMore
  <2>2. local[t].pos + 1 \in Nat
    BY <1>2
  <2>3. /\ go \in LocalSet /\ go.pc = local[t].pc
        /\ go.op = local[t].op /\ go.key = local[t].key /\ go.tab = local[t].tab
        /\ go.i = local[t].i /\ go.help = local[t].help
        /\ go.into = local[t].into /\ go.j = local[t].j
        /\ go.restart = local[t].restart
    BY <1>2, <2>1, <2>2, CountOn
  <2> QED
    BY <1>1, <1>4, <2>3, CountStep DEF HelpedLabels
<1>5. CASE Only(t, stop)
  <2> DEFINE z == 0
  <2>1. stop = CountDone(local[t], z, z, p)
    BY Zenon DEF stop, CountDone
  <2>3. z \in Int /\ z \in Nat
    OBVIOUS
  <2> HIDE DEF z
  <2>2. /\ stop \in LocalSet /\ stop.pc = p
        /\ stop.op = local[t].op /\ stop.key = local[t].key /\ stop.tab = local[t].tab
        /\ stop.i = local[t].i /\ stop.help = local[t].help
        /\ stop.into = local[t].into /\ stop.j = local[t].j
        /\ stop.restart = local[t].restart
    <3>1. local[t] \in LocalSet /\ p \in Labels
      BY <1>2
    <3> QED
      BY <2>1, <2>3, <3>1, CountEnds
  <2> QED
    BY <1>1, <1>2, <1>5, <2>2, CountStep DEF HelpedLabels
<1> QED
  BY <1>3, <1>4, <1>5

(* An early end of the program, which changes nothing else. *)
LEMMA FailKeeps == ASSUME IInv, NEW what, Fail(what) PROVE IInv'
<1> USE DEF Fail
<1>1. TypeOK'
  BY DEF IInv, TypeOK
<1>2. Quiet
  BY DEF Quiet, SameSkeleton, SameButBuckets
<1>3. \E t \in Threads : TRUE
  BY ExpandAssumption DEF Threads
<1>4. PICK t \in Threads : TRUE
  BY <1>3
<1>5. Stay(t) /\ ViewKept(t)
  BY SameView DEF Stay, ViewKept
<1>6. ASSUME NEW u \in Threads PROVE InPlace(u)' /\ Copier(u)' /\ Records(u)'
  <2>1. Evolve /\ StayMigrated
    BY <1>2, QuietFacts DEF IInv, Globals
  <2>2. Copying(u) => local[u].found.key \notin KeysIn(tables'[local[u].help])
    BY DEF IInv, Copier
  <2> QED
    BY <1>1, <1>2, <2>1, <2>2, OthersKept, QuietRecords
<1> QED
  BY <1>1, <1>2, <1>4, <1>5, <1>6, QuietStep

LEMMA CountKeysKeeps == ASSUME IInv, NEW t \in Threads, CountKeys(t) PROVE IInv'
<1> DEFINE tab == tables[local[t].tab]
           pos == local[t].pos
           acc == local[t].acc + (IF pos <= NumThreads THEN Part(tab.inserts, pos)
                                  ELSE 0 - Part(tab.deletes, pos - NumThreads - 1))
           new == IF acc = 0 THEN 2 * tab.cap ELSE 4 * acc
           go == [local[t] EXCEPT !.acc = acc, !.pos = @ + 1]
           stop == [local[t] EXCEPT !.acc = 0, !.pos = 0, !.pc = "swap", !.cap = new]
<1>1. local[t].pc = "size" /\ TypeOK /\ InCall(t) /\ local[t].pc # "idle"
      /\ local[t].into = 0 /\ local[t].j = 0
  BY NotMigrating DEF CountKeys
<1>2. local[t] \in LocalSet /\ acc \in Int /\ pos \in Nat /\ tab.cap \in Nat \ {0}
  <2>1. local[t].tab \in Tables /\ pos \in Nat /\ local[t].acc \in Int
    BY <1>1, LocalFacts DEF InCall
  <2>2. NumThreads \in Nat
    BY ExpandAssumption
  <2>3. Part(tab.inserts, pos) \in Nat
    BY <1>1, <2>1, TableFacts, PartIsNat
  <2>4. pos > NumThreads => Part(tab.deletes, pos - NumThreads - 1) \in Nat
    BY <1>1, <2>1, <2>2, TableFacts, PartIsNat
  <2>5. (IF pos <= NumThreads THEN Part(tab.inserts, pos)
         ELSE 0 - Part(tab.deletes, pos - NumThreads - 1)) \in Int
    BY <2>1, <2>2, <2>3, <2>4
  <2> QED
    BY <1>1, <2>1, <2>5, LocalFacts, TableFacts
<1>3. \/ Only(t, go)
      \/ acc >= 0 /\ Only(t, stop)
      \/ Fail("no keys") \/ Fail("bad alloc")
  <2>1. \/ Only(t, go)
        \/ (acc > 0 \/ acc = 0) /\ Only(t, stop)
        \/ Fail("no keys") \/ Fail("bad alloc")
    BY Zenon DEF CountKeys
  <2> HIDE DEF acc, go, stop
  <2>2. acc > 0 \/ acc = 0 => acc >= 0
    BY <1>2
  <2> QED
    BY <2>1, <2>2, Zenon
<1>4. acc >= 0 => new \in Nat \ {0}
  <2> HIDE DEF acc, tab
  <2> QED
    BY <1>2, NewCapacity
<1> HIDE DEF acc, pos, tab, new, go, stop
<1>5. CASE Only(t, go)
  <2>1. go = CountMore(local[t], acc, pos + 1)
    BY Zenon DEF go, pos, CountMore
  <2>2. pos + 1 \in Nat
    BY <1>2
  <2>3. /\ go \in LocalSet /\ go.pc = local[t].pc
        /\ go.op = local[t].op /\ go.key = local[t].key /\ go.tab = local[t].tab
        /\ go.i = local[t].i /\ go.help = local[t].help
        /\ go.into = local[t].into /\ go.j = local[t].j
        /\ go.restart = local[t].restart
    BY <1>2, <2>1, <2>2, CountOn
  <2> QED
    BY <1>1, <1>5, <2>3, CountStep DEF HelpedLabels
<1>6. CASE acc >= 0 /\ Only(t, stop)
  <2>1. stop = SizeDone(local[t], 0, 0, "swap", new)
    BY Zenon DEF stop, SizeDone
  <2>2. new \in Nat /\ new > 0 /\ "swap" \in Labels /\ 0 \in Nat /\ 0 \in Int
    BY <1>4, <1>6 DEF Labels
  <2>3. /\ stop \in LocalSet /\ stop.pc = "swap"
        /\ stop.op = local[t].op /\ stop.key = local[t].key /\ stop.tab = local[t].tab
        /\ stop.i = local[t].i /\ stop.help = local[t].help
        /\ stop.into = local[t].into /\ stop.j = local[t].j
        /\ stop.restart = local[t].restart
        /\ stop.cap = new
    <3> DEFINE x == local[t]
               p == "swap"
    <3>1. x \in LocalSet /\ p \in Labels /\ new \in Nat /\ 0 \in Nat /\ 0 \in Int
      BY <1>2, <2>2
    <3>2. stop = SizeDone(x, 0, 0, p, new)
      BY <2>1
    <3> HIDE DEF x, p
    <3>3. /\ stop \in LocalSet /\ stop.pc = p
          /\ stop.op = x.op /\ stop.key = x.key /\ stop.tab = x.tab
          /\ stop.i = x.i /\ stop.help = x.help
          /\ stop.into = x.into /\ stop.j = x.j
          /\ stop.restart = x.restart
          /\ stop.cap = new
      BY <3>1, <3>2, SizeFound
    <3> QED
      BY <3>3 DEF x, p
  <2> QED
    BY <1>1, <1>6, <2>2, <2>3, CountStep DEF HelpedLabels
<1> QED
  BY <1>3, <1>5, <1>6, FailKeeps

-----------------------------------------------------------------------------
(* A step of an operation back to helpExpansion. *)
LEMMA ToExpand ==
  ASSUME IInv, NEW t \in Threads, local[t].pc \in FreeLabels,
         NEW l \in LocalSet, Only(t, l), l.pc = "expand", l.into = 0, l.j = 0,
         l.op \in {"insert", "erase"}, l.key \in Keys,
         l.tab \in Tables, l.help \in Tables, ~ l.restart => l.help = l.tab,
         l.i \in Buckets(l.tab),
         \A m \in 0 .. l.i - 1 :
           tables[l.tab].bucket[Slot(l.tab, l.key, m)].key \notin {EMPTY, l.key}
  PROVE  IInv'
<1>1. ~ Migrating(t) /\ ~ Finished(t) /\ TypeOK /\ Chain
  BY NotMigrating DEF FreeLabels
<1>2. /\ TypeOK' /\ Quiet /\ Stay(t) /\ seen' = seen /\ local'[t] = l
      /\ Tables' = Tables /\ tables' = tables
  BY <1>1, OnlyIs
<1>3. InCall(t)'
  <2>1. Buckets(l.tab)' = Buckets(l.tab)
    BY <1>1, <1>2, QuietFacts
  <2> QED
    BY <1>2, <2>1 DEF InCall, Buckets
<1>4. Prober(t)'
  BY <1>2 DEF Prober, Slot, EMPTY
<1>5. Helped(t)' /\ LostErase(t)'
  BY <1>2 DEF Helped, LostErase
<1> QED
  BY <1>1, <1>2, <1>3, <1>4, <1>5, FreeStep

HelpMore(x, p, h, r) == [x EXCEPT !.pc = p, !.help = h, !.restart = r]

LEMMA HelpOn ==
  ASSUME NEW x \in LocalSet, NEW p \in Labels, NEW h \in Nat, NEW r \in BOOLEAN
  PROVE  LET y == HelpMore(x, p, h, r) IN
         /\ y \in LocalSet
         /\ y.op = x.op /\ y.key = x.key /\ y.tab = x.tab /\ y.i = x.i
         /\ y.into = x.into /\ y.j = x.j /\ y.pc = p /\ y.help = h /\ y.restart = r
BY DEF LocalSet, HelpMore

LEMMA HelpCurrentKeeps == ASSUME IInv, NEW t \in Threads, HelpCurrent(t) PROVE IInv'
<1> DEFINE x == local[t]
           p == "expand"
           r == TRUE
           l == HelpMore(x, p, current, r)
<1>1. /\ local[t].pc = "again" /\ local[t].pc \in FreeLabels
      /\ local[t].into = 0 /\ local[t].j = 0 /\ TypeOK /\ InCall(t) /\ Prober(t)
      /\ current \in Tables
  BY NotMigrating, FirstMigrated DEF HelpCurrent, FreeLabels, IInv, Globals
<1>2. Only(t, l)
  BY Zenon DEF HelpCurrent, HelpMore
<1>3. x \in LocalSet /\ p \in Labels /\ current \in Nat /\ r \in BOOLEAN
  BY <1>1, LocalFacts DEF Labels, TypeOK
<1>4. /\ l \in LocalSet
      /\ l.op = local[t].op /\ l.key = local[t].key /\ l.tab = local[t].tab
      /\ l.i = local[t].i /\ l.into = local[t].into /\ l.j = local[t].j
      /\ l.pc = "expand" /\ l.help = current /\ l.restart = TRUE
  <2> HIDE DEF x, p, r
  <2>1. /\ l \in LocalSet
        /\ l.op = x.op /\ l.key = x.key /\ l.tab = x.tab /\ l.i = x.i
        /\ l.into = x.into /\ l.j = x.j /\ l.pc = p /\ l.help = current /\ l.restart = r
    BY <1>3, HelpOn
  <2> QED
    BY <2>1 DEF x, p, r
<1> HIDE DEF l
<1>5. /\ local[t].op \in {"insert", "erase"} /\ local[t].key \in Keys
      /\ local[t].tab \in Tables /\ local[t].i \in Buckets(local[t].tab)
      /\ \A m \in 0 .. local[t].i - 1 :
           tables[local[t].tab].bucket[Slot(local[t].tab, local[t].key, m)].key
             \notin {EMPTY, local[t].key}
  BY <1>1 DEF InCall, Prober
<1> HIDE DEF x, p, r
<1> QED
  BY <1>1, <1>2, <1>4, <1>5, ToExpand

CallFrom(x, p, o, k, c) ==
  [x EXCEPT !.pc = p, !.op = o, !.key = k, !.tab = c, !.help = c]

LEMMA CallRecord ==
  ASSUME NEW x \in LocalSet, NEW p \in Labels, NEW o \in {"none", "insert", "erase"},
         NEW k \in Keys \cup {0}, NEW c \in Nat
  PROVE  LET y == CallFrom(x, p, o, k, c) IN
         /\ y \in LocalSet
         /\ y.pc = p /\ y.op = o /\ y.key = k /\ y.tab = c /\ y.help = c
         /\ y.i = x.i /\ y.restart = x.restart /\ y.into = x.into /\ y.j = x.j
         /\ y.b = x.b /\ y.found = x.found
BY DEF LocalSet, CallFrom

LEMMA FreshIs ==
  /\ Fresh \in LocalSet /\ Fresh.pc = "idle" /\ Fresh.op = "none" /\ Fresh.i = 0
  /\ Fresh.restart = FALSE /\ Fresh.into = 0 /\ Fresh.j = 0 /\ Fresh.b = 0
<1>1. Vacant \in Words
  BY DEF Vacant, Words, Word32
<1> QED
  BY <1>1 DEF LocalSet, Labels, Fresh

(* A call, or its retry, starts from the current table. *)
LEMMA BeginIs ==
  ASSUME TypeOK, NEW o \in {"insert", "erase"}, NEW k \in Keys
  PROVE  LET l == Begin(o, k) IN
         /\ l \in LocalSet /\ l.pc = "expand" /\ l.op = o /\ l.key = k
         /\ l.tab = current /\ l.help = current /\ l.i = 0 /\ l.restart = FALSE
         /\ l.into = 0 /\ l.j = 0
<1> DEFINE p == "expand"
<1>1. Begin(o, k) = CallFrom(Fresh, p, o, k, current)
  BY Zenon DEF Begin, CallFrom
<1>2. p \in Labels /\ current \in Nat /\ o \in {"none", "insert", "erase"}
      /\ k \in Keys \cup {0}
  BY DEF TypeOK, Labels
<1> HIDE DEF p
<1>3. /\ Begin(o, k) \in LocalSet
      /\ Begin(o, k).pc = p /\ Begin(o, k).op = o /\ Begin(o, k).key = k
      /\ Begin(o, k).tab = current /\ Begin(o, k).help = current
      /\ Begin(o, k).i = 0 /\ Begin(o, k).restart = FALSE
      /\ Begin(o, k).into = 0 /\ Begin(o, k).j = 0
  BY <1>1, <1>2, CallRecord, FreshIs
<1> QED
  BY <1>3 DEF p

LEMMA RestartKeeps ==
  ASSUME IInv, NEW t \in Threads, local[t].pc \in FreeLabels, Restart(t)
  PROVE  IInv'
<1> DEFINE l == Begin(local[t].op, local[t].key)
<1>1. /\ TypeOK /\ local[t].op \in {"insert", "erase"} /\ local[t].key \in Keys
      /\ current \in Tables /\ Only(t, l)
  BY NotMigrating, FirstMigrated DEF FreeLabels, IInv, Globals, InCall, Restart
<1>2. /\ l \in LocalSet /\ l.pc = "expand" /\ l.op = local[t].op /\ l.key = local[t].key
      /\ l.tab = current /\ l.help = current /\ l.i = 0 /\ l.restart = FALSE
      /\ l.into = 0 /\ l.j = 0
  BY <1>1, BeginIs
<1>3. 0 \in Buckets(current)
  BY <1>1, TableFacts DEF Buckets
<1> HIDE DEF l
<1>4. \A m \in 0 .. l.i - 1 : FALSE
  BY <1>2
<1> QED
  BY <1>1, <1>2, <1>3, <1>4, ToExpand

LEMMA AfterExpansionKeeps ==
  ASSUME IInv, NEW t \in Threads, AfterExpansion(t) PROVE IInv'
BY RestartKeeps DEF AfterExpansion, HelpedAll, FreeLabels

-----------------------------------------------------------------------------
(* A step of a thread whose operation has taken effect, or takes it now    *)
(* by answering from what it has read.                                     *)
LEMMA DoneStep ==
  ASSUME IInv, TypeOK', Quiet, NEW t \in Threads, Stay(t), ~ Migrating(t),
         \A u \in Threads \ {t} : seen'[u] = seen[u], seen'[t] = {},
         local'[t].pc \in {"idle", "inc", "flush", "clear"},
         local'[t].into = 0, local'[t].j = 0,
         InCall(t)', Prober(t)'
  PROVE  IInv'
<1>1. ~ Migrating(t)' /\ ~ Copying(t)' /\ Finished(t)'
  BY DEF Migrating, Copying, Finished
<1>2. ~ Copying(t)
  BY CopyingMigrates DEF IInv, InPlace
<1>3. ViewKept(t)
  BY <1>1, <1>2 DEF ViewKept
<1>4. Helped(t)' /\ Locals(t)' /\ Owner(t)' /\ Copier(t)'
  BY <1>1 DEF Helped, Locals, Owner, Copier
<1>5. SeenOK(t)' /\ LostErase(t)'
  BY <1>1 DEF SeenOK, LostErase
<1>6. InPlace(t)' /\ Records(t)'
  BY <1>4, <1>5 DEF InPlace, Records
<1> QED
  BY <1>3, <1>4, <1>6, QuietStep

LEMMA ReturnKeeps ==
  ASSUME IInv, NEW t \in Threads, local[t].pc \in FreeLabels, NEW r \in BOOLEAN, Return(t, r)
  PROVE  IInv'
<1>1. ~ Migrating(t) /\ TypeOK /\ SeenOK(t)
  BY NotMigrating DEF FreeLabels
<1>2. /\ tables' = tables /\ current' = current /\ left' = left
      /\ result' = [result EXCEPT ![t] = r]
      /\ seen' = [u \in Threads |-> IF u = t \/ seen[u] = {} THEN {}
                                    ELSE seen[u] \cup {Live}]
      /\ local' = [local EXCEPT ![t] = Fresh]
  BY DEF Return, Answer, Live
<1>3. \A u \in Threads : seen[u] # {} => Live \in seen[u]
  BY DEF IInv, Records, SeenOK
<1>4. seen'[t] = {} /\ \A u \in Threads \ {t} : seen'[u] = seen[u]
  BY <1>2, <1>3
<1>5. local'[t] = Fresh /\ Stay(t) /\ local' \in [Threads -> LocalSet]
  BY <1>1, <1>2, FreshIs DEF TypeOK, Stay
<1>6. TypeOK'
  <2>1. seen' \in [Threads -> SUBSET SUBSET Keys]
    <3>1. seen' = [u \in Threads |-> IF u = t THEN {} ELSE seen[u]]
      BY <1>2, <1>3
    <3> QED
      BY <1>1, <3>1 DEF TypeOK
  <2> QED
    BY <1>1, <1>2, <1>5, <2>1 DEF TypeOK
<1>7. Quiet
  BY <1>2 DEF Quiet, SameSkeleton, SameButBuckets
<1>8. local'[t].pc = "idle" /\ local'[t].into = 0 /\ local'[t].j = 0
  BY <1>5, FreshIs
<1>9. InCall(t)' /\ Prober(t)'
  BY <1>8 DEF InCall, Prober
<1> QED
  BY <1>1, <1>4, <1>5, <1>6, <1>7, <1>8, <1>9, DoneStep

LEMMA CallKeeps ==
  ASSUME IInv, NEW t \in Threads, NEW o \in {"insert", "erase"}, NEW k \in Keys,
         Call(t, o, k)
  PROVE  IInv'
<1> DEFINE l == Begin(o, k)
<1>1. /\ local[t].pc = "idle" /\ TypeOK /\ Locals(t) /\ Chain /\ current \in Tables
      /\ tables' = tables /\ current' = current /\ result' = result
      /\ left' = [left EXCEPT ![t] = @ - 1] /\ left[t] > 0
      /\ seen' = [seen EXCEPT ![t] = {Live}] /\ local' = [local EXCEPT ![t] = l]
  BY FirstMigrated DEF Call, IInv, InPlace, Globals
<1>2. /\ l \in LocalSet /\ l.pc = "expand" /\ l.op = o /\ l.key = k
      /\ l.tab = current /\ l.help = current /\ l.i = 0 /\ l.restart = FALSE
      /\ l.into = 0 /\ l.j = 0
  BY <1>1, BeginIs
<1> HIDE DEF l
<1>3. local'[t] = l /\ Stay(t) /\ local' \in [Threads -> LocalSet]
  BY <1>1, <1>2 DEF TypeOK, Stay
<1>4. Live \in SUBSET Keys
  BY DEF Live, LiveIn, KeysIn
<1>5. TypeOK'
  <2>1. left' \in [Threads -> Nat]
    BY <1>1 DEF TypeOK
  <2>2. seen' \in [Threads -> SUBSET SUBSET Keys]
    BY <1>1, <1>4 DEF TypeOK
  <2> QED
    BY <1>1, <1>3, <2>1, <2>2 DEF TypeOK
<1>6. Quiet
  BY <1>1 DEF Quiet, SameSkeleton, SameButBuckets
<1>7. ViewKept(t)
  <2>1. ~ Migrating(t) /\ ~ Copying(t) /\ ~ Migrating(t)' /\ ~ Copying(t)'
    BY <1>1, <1>2, <1>3 DEF Migrating, Copying, Locals
  <2> QED
    BY <2>1 DEF ViewKept
<1>8. InPlace(t)'
  <2>1. Tables' = Tables /\ 0 \in Buckets(current) /\ Buckets(current)' = Buckets(current)
    BY <1>1, <1>6, TableFacts, QuietFacts DEF Buckets
  <2>2. InCall(t)'
    BY <1>1, <1>2, <1>3, <2>1 DEF InCall, Buckets
  <2>3. Prober(t)'
    <3>1. \A m \in 0 .. local'[t].i - 1 : FALSE
      BY <1>2, <1>3
    <3> QED
      BY <1>2, <1>3, <3>1 DEF Prober
  <2>4. Helped(t)' /\ Locals(t)' /\ Owner(t)'
    BY <1>2, <1>3, <1>7 DEF Helped, Locals, Owner, Migrating
  <2> QED
    BY <2>2, <2>3, <2>4 DEF InPlace
<1>9. Copier(t)'
  BY <1>2, <1>3 DEF Copier, Copying
<1>10. Records(t)'
  <2>1. Live' = Live /\ seen'[t] = {Live}
    BY <1>1, <1>6, QuietLive DEF TypeOK
  <2> QED
    BY <1>2, <1>3, <2>1 DEF Records, LostErase, SeenOK, Finished
<1> QED
  BY <1>1, <1>3, <1>5, <1>6, <1>7, <1>8, <1>9, <1>10, QuietStep DEF TypeOK

-----------------------------------------------------------------------------
ProbeMore(x, p, n) == [x EXCEPT !.pc = p, !.i = n]

LEMMA ProbeOn ==
  ASSUME NEW x \in LocalSet, NEW p \in Labels, NEW n \in Nat
  PROVE  LET y == ProbeMore(x, p, n) IN
         /\ y \in LocalSet
         /\ y.op = x.op /\ y.key = x.key /\ y.tab = x.tab /\ y.help = x.help
         /\ y.into = x.into /\ y.j = x.j /\ y.restart = x.restart /\ y.pc = p /\ y.i = n
BY DEF LocalSet, ProbeMore

(* A bucket that was passed holds another key, or a tombstone. *)
LEMMA ProbeAgainKeeps ==
  ASSUME IInv, NEW t \in Threads, local[t].pc \in FreeLabels, Other(t),
         local[t].i + 1 < tables[local[t].tab].cap, ProbeAgain(t)
  PROVE  IInv'
<1> DEFINE x == local[t]
           p == "expand"
           n == x.i + 1
           l == ProbeMore(x, p, n)
<1>1. /\ local[t].into = 0 /\ local[t].j = 0 /\ TypeOK /\ InCall(t) /\ Prober(t)
      /\ local[t].pc # "idle"
  BY NotMigrating DEF FreeLabels
<1>2. Only(t, l)
  BY Zenon DEF ProbeAgain, ProbeMore
<1>3. x \in LocalSet /\ p \in Labels /\ x.i \in Nat /\ n \in Nat
  <2>1. local[t] \in LocalSet /\ local[t].i \in Nat
    BY <1>1, LocalFacts
  <2> QED
    BY <2>1 DEF Labels
<1>4. /\ l \in LocalSet
      /\ l.op = local[t].op /\ l.key = local[t].key /\ l.tab = local[t].tab
      /\ l.help = local[t].help /\ l.into = local[t].into /\ l.j = local[t].j
      /\ l.restart = local[t].restart /\ l.pc = "expand" /\ l.i = local[t].i + 1
  <2> HIDE DEF x, p, n
  <2>1. /\ l \in LocalSet
        /\ l.op = x.op /\ l.key = x.key /\ l.tab = x.tab /\ l.help = x.help
        /\ l.into = x.into /\ l.j = x.j /\ l.restart = x.restart /\ l.pc = p /\ l.i = n
    BY <1>3, ProbeOn
  <2> QED
    BY <2>1 DEF x, p, n
<1>5. /\ local[t].op \in {"insert", "erase"} /\ local[t].key \in Keys
      /\ local[t].tab \in Tables /\ local[t].help \in Tables
      /\ ~ local[t].restart => local[t].help = local[t].tab
      /\ \A m \in 0 .. local[t].i - 1 :
           tables[local[t].tab].bucket[Slot(local[t].tab, local[t].key, m)].key
             \notin {EMPTY, local[t].key}
  BY <1>1 DEF InCall, Prober
<1>6. tables[local[t].tab].bucket[Slot(local[t].tab, local[t].key, local[t].i)].key
             \notin {EMPTY, local[t].key}
  BY DEF Other, Bucket, Here
<1>7. local[t].i + 1 \in Buckets(local[t].tab)
  <2>1. tables[local[t].tab].cap \in Nat
    BY <1>1, <1>5, TableFacts
  <2> QED
    BY <1>3, <2>1 DEF Buckets
<1> HIDE DEF x, p, n, l
<1>8. \A m \in 0 .. l.i - 1 :
        tables[l.tab].bucket[Slot(l.tab, l.key, m)].key \notin {EMPTY, l.key}
  <2> SUFFICES ASSUME NEW m \in 0 .. l.i - 1
               PROVE  tables[l.tab].bucket[Slot(l.tab, l.key, m)].key \notin {EMPTY, l.key}
    OBVIOUS
  <2>1. m \in 0 .. local[t].i - 1 \/ m = local[t].i
    BY <1>3, <1>4 DEF x
  <2> QED
    BY <1>4, <1>5, <1>6, <2>1
<1> QED
  BY <1>1, <1>2, <1>4, <1>5, <1>7, <1>8, ToExpand

LEMMA NextProbeKeeps ==
  ASSUME IInv, NEW t \in Threads, local[t].pc \in FreeLabels, Other(t), NextProbe(t)
  PROVE  IInv'
<1>1. \/ local[t].i + 1 < tables[local[t].tab].cap /\ ProbeAgain(t)
      \/ Fail("ran out") \/ Return(t, FALSE)
  BY DEF NextProbe, AfterLoop
<1> QED
  BY <1>1, ProbeAgainKeeps, FailKeeps, ReturnKeeps

LEMMA MineIsKey ==
  ASSUME IInv, NEW t \in Threads, local[t].pc \in FreeLabels, Bucket(t) = Mine(t)
  PROVE  Bucket(t) # Word32(TOMBSTONE, FALSE) /\ Bucket(t) # Vacant /\ ~ Gone(t)
<1>1. local[t].key \in Keys
  BY NotMigrating DEF FreeLabels, InCall
<1> QED
  BY <1>1, KeyFacts DEF Mine, Word32, Vacant, Gone

LEMMA ProbeLabels ==
  ASSUME IInv, NEW t \in Threads, local[t].pc \in {"probe", "cas", "recheck"}
  PROVE  /\ local[t].pc \in FreeLabels /\ ~ local[t].restart /\ Migrated(local[t].tab)
         /\ LostErase(t) /\ "cas" \in FreeLabels \ {"swap"} /\ "recheck" \in FreeLabels \ {"swap"}
BY NotMigrating DEF FreeLabels, Helped

LEMMA InsertReadKeeps == ASSUME IInv, NEW t \in Threads, InsertRead(t) PROVE IInv'
<1>1. local[t].pc = "probe" /\ local[t].op = "insert"
  BY DEF InsertRead, At
<1>2. \/ Restart(t) \/ Return(t, FALSE) \/ OnlyGoto(t, "cas")
      \/ Other(t) /\ NextProbe(t)
  BY Zenon DEF InsertRead
<1>3. CASE Restart(t)
  BY <1>1, <1>3, ProbeLabels, RestartKeeps
<1>4. CASE Return(t, FALSE)
  BY <1>1, <1>4, ProbeLabels, ReturnKeeps
<1>5. CASE OnlyGoto(t, "cas")
  BY <1>1, <1>5, ProbeLabels, GotoStep
<1>6. CASE Other(t) /\ NextProbe(t)
  BY <1>1, <1>6, ProbeLabels, NextProbeKeeps
<1> QED
  BY <1>2, <1>3, <1>4, <1>5, <1>6

LEMMA InsertRecheckKeeps == ASSUME IInv, NEW t \in Threads, InsertRecheck(t) PROVE IInv'
<1>1. local[t].pc = "recheck"
  BY DEF InsertRecheck, At
<1>2. \/ Restart(t) \/ Return(t, FALSE)
      \/ Other(t) /\ NextProbe(t)
  BY Zenon DEF InsertRecheck
<1> QED
  BY <1>1, <1>2, ProbeLabels, RestartKeeps, ReturnKeeps, NextProbeKeeps

LEMMA InsertLost ==
  ASSUME IInv, NEW t \in Threads, At(t, "cas", "insert"),
         Bucket(t) # Vacant, OnlyGoto(t, "recheck")
  PROVE  IInv'
BY ProbeLabels, GotoStep DEF At

LEMMA EraseReadKeeps == ASSUME IInv, NEW t \in Threads, EraseRead(t) PROVE IInv'
<1>1. local[t].pc = "probe" /\ local[t].op = "erase"
  BY DEF EraseRead, At
<1>2. \/ Restart(t) \/ Return(t, FALSE)
      \/ Bucket(t) = Mine(t) /\ OnlyGoto(t, "cas")
      \/ Other(t) /\ NextProbe(t)
  BY Zenon DEF EraseRead
<1>3. CASE Restart(t)
  BY <1>1, <1>3, ProbeLabels, RestartKeeps
<1>4. CASE Return(t, FALSE)
  BY <1>1, <1>4, ProbeLabels, ReturnKeeps
<1>5. CASE Bucket(t) = Mine(t) /\ OnlyGoto(t, "cas")
  BY <1>1, <1>5, ProbeLabels, GotoStep, MineIsKey
<1>6. CASE Other(t) /\ NextProbe(t)
  BY <1>1, <1>6, ProbeLabels, NextProbeKeeps
<1> QED
  BY <1>2, <1>3, <1>4, <1>5, <1>6

LEMMA EraseLost ==
  ASSUME IInv, NEW t \in Threads, At(t, "cas", "erase"),
         Bucket(t) # Mine(t), OnlyGoto(t, "recheck")
  PROVE  IInv'
BY ProbeLabels, GotoStep DEF At, LostErase

LEMMA EraseRecheckKeeps == ASSUME IInv, NEW t \in Threads, EraseRecheck(t) PROVE IInv'
<1>1. local[t].pc = "recheck"
  BY DEF EraseRecheck, At
<1>2. Restart(t) \/ Return(t, FALSE)
  BY Zenon DEF EraseRecheck
<1> QED
  BY <1>1, <1>2, ProbeLabels, RestartKeeps, ReturnKeeps

-----------------------------------------------------------------------------
BucketMore(x, n, z, f, p) == [x EXCEPT !.b = n, !.into = z, !.j = z, !.found = f, !.pc = p]

LEMMA BucketOn ==
  ASSUME NEW x \in LocalSet, NEW n \in Nat, NEW z \in Nat, NEW f \in Words, NEW p \in Labels
  PROVE  LET y == BucketMore(x, n, z, f, p) IN
         /\ y \in LocalSet
         /\ y.op = x.op /\ y.key = x.key /\ y.tab = x.tab /\ y.i = x.i
         /\ y.help = x.help /\ y.restart = x.restart
         /\ y.b = n /\ y.into = z /\ y.j = z /\ y.pc = p
BY DEF LocalSet, BucketMore

(* migrate goes on to the next bucket: what lies ahead of it is what was   *)
(* behind the bucket it leaves.                                            *)
LEMMA NextBucketIs ==
  ASSUME TypeOK, Chain, NEW t \in Threads, Migrating(t), local[t].pc # "moved",
         InCall(t), Locals(t), Owner(t), local'[t] = NextBucket(t)
  PROVE  /\ NextBucket(t) \in LocalSet /\ SameCall(t)
         /\ local'[t].into = 0 /\ local'[t].j = 0 /\ local'[t].pc \in {"read", "moved"}
         /\ Migrating(t)' /\ ~ Copying(t)'
         /\ OwnChunk(t)' = OwnChunk(t)
         /\ \A c \in Buckets(local[t].help - 1) :
              AheadOf(t, c)' <=> c \div Chunk = OwnChunk(t) /\ c > local[t].b
         /\ IF local'[t].pc = "moved"
            THEN /\ local'[t].b > 0
                 /\ local'[t].b % Chunk = 0 \/ local'[t].b = tables[local[t].help - 1].cap
            ELSE local'[t].b \in Buckets(local[t].help - 1)
<1> DEFINE x == local[t]
           b == local[t].b
           cap == tables[local[t].help - 1].cap
           out == (b + 1) % Chunk = 0 \/ b + 1 = cap
           p == IF out THEN "moved" ELSE "read"
           l == BucketMore(x, b + 1, 0, Vacant, p)
<1>1. /\ OldOf(local[t].help) = tables[local[t].help - 1] /\ b \in Buckets(local[t].help - 1)
      /\ local[t].help - 1 \in Tables
  BY HelperPlace
<1>2. NextBucket(t) = l
  BY <1>1, Zenon DEF NextBucket, BucketMore
<1>3. x \in LocalSet /\ b \in Nat /\ b + 1 \in Nat /\ 0 \in Nat /\ Vacant \in Words /\ p \in Labels
      /\ cap \in Nat /\ b < cap /\ Chunk \in Nat \ {0}
  <2>1. x \in LocalSet /\ b \in Nat
    BY LocalFacts
  <2>2. Vacant \in Words
    BY DEF Vacant, Words, Word32
  <2>3. cap \in Nat
    BY <1>1, TableFacts
  <2>4. p \in Labels
    BY DEF Labels
  <2> QED
    BY <1>1, <2>1, <2>2, <2>3, <2>4, ExpandAssumption DEF Buckets
<1>4. /\ l \in LocalSet
      /\ l.op = local[t].op /\ l.key = local[t].key /\ l.tab = local[t].tab
      /\ l.i = local[t].i /\ l.help = local[t].help /\ l.restart = local[t].restart
      /\ l.b = b + 1 /\ l.into = 0 /\ l.j = 0 /\ l.pc = p
  <2> DEFINE n == b + 1
             z == 0
  <2>1. x \in LocalSet /\ n \in Nat /\ z \in Nat /\ Vacant \in Words /\ p \in Labels
    BY <1>3
  <2>2. l = BucketMore(x, n, z, Vacant, p)
    OBVIOUS
  <2> HIDE DEF x, p, n, z, l
  <2>3. /\ l \in LocalSet
        /\ l.op = x.op /\ l.key = x.key /\ l.tab = x.tab
        /\ l.i = x.i /\ l.help = x.help /\ l.restart = x.restart
        /\ l.b = n /\ l.into = z /\ l.j = z /\ l.pc = p
    BY <2>1, <2>2, BucketOn
  <2> QED
    BY <2>3 DEF x, n, z
<1>5. local'[t] = l
  BY <1>2
<1> HIDE DEF l
<1>6. SameCall(t)
  BY <1>4, <1>5 DEF SameCall, SameProbe
<1>7. local'[t].pc \in {"read", "moved"} /\ (local'[t].pc = "moved" <=> out)
      /\ local'[t].b = b + 1 /\ local'[t].into = 0 /\ local'[t].j = 0
  BY <1>4, <1>5
<1>8. OwnChunk(t) = b \div Chunk
  BY DEF OwnChunk
<1> HIDE DEF cap
<1>9. OwnChunk(t)' = OwnChunk(t)
  <2>1. CASE out
    <3>1. local'[t].pc = "moved" /\ local'[t].b - 1 = b
      BY <1>3, <1>7, <2>1
    <3>2. OwnChunk(t)' = (local'[t].b - 1) \div Chunk
      BY <3>1, Zenon DEF OwnChunk
    <3> QED
      BY <1>8, <3>1, <3>2
  <2>2. CASE ~ out
    <3>1. OwnChunk(t)' = (b + 1) \div Chunk
      BY <1>7, <2>2 DEF OwnChunk
    <3> QED
      BY <1>3, <1>8, <2>2, <3>1, DivNext
  <2> QED
    BY <2>1, <2>2
<1>10. ASSUME NEW c \in Buckets(local[t].help - 1)
       PROVE  AheadOf(t, c)' <=> c \div Chunk = OwnChunk(t) /\ c > local[t].b
  <2>1. c \in Nat /\ c < cap
    BY <1>3 DEF Buckets, cap
  <2>2. CASE out
    <3>1. ~ (c \div Chunk = OwnChunk(t) /\ c > local[t].b)
      BY <1>3, <1>8, <2>1, <2>2, DivEnd
    <3>2. AheadOf(t, c)' => c \div Chunk = OwnChunk(t) /\ c > b + 1
      BY <1>7, <1>9, <2>2 DEF AheadOf
    <3> QED
      BY <1>3, <2>1, <3>1, <3>2
  <2>3. CASE ~ out
    <3>1. AheadOf(t, c)' <=> c \div Chunk = OwnChunk(t) /\ (c > b + 1 \/ c = b + 1)
      BY <1>7, <1>9, <2>3 DEF AheadOf
    <3> QED
      BY <1>3, <2>1, <3>1
  <2> QED
    BY <2>2, <2>3
<1>11. Migrating(t)' /\ ~ Copying(t)'
  BY <1>7 DEF Migrating, Copying
<1>12. IF local'[t].pc = "moved"
       THEN /\ local'[t].b > 0
            /\ local'[t].b % Chunk = 0 \/ local'[t].b = tables[local[t].help - 1].cap
       ELSE local'[t].b \in Buckets(local[t].help - 1)
  <2>1. CASE out
    BY <1>3, <1>7, <2>1 DEF cap
  <2>2. CASE ~ out
    BY <1>3, <1>7, <2>2 DEF cap, Buckets
  <2> QED
    BY <2>1, <2>2
<1> QED
  BY <1>2, <1>4, <1>6, <1>7, <1>9, <1>10, <1>11, <1>12

(* So it keeps its place when it leaves a bucket that is done with.        *)
LEMMA NextBucketPlace ==
  ASSUME IInv, TypeOK', Evolve, NEW t \in Threads, Migrating(t), local[t].pc # "moved",
         local'[t] = NextBucket(t)
  PROVE  InPlace(t)' /\ Copier(t)'
<1>1. TypeOK /\ Chain /\ InCall(t) /\ Locals(t) /\ Owner(t) /\ Prober(t)
  BY DEF IInv, Globals, InPlace
<1>2. /\ SameCall(t)
      /\ local'[t].into = 0 /\ local'[t].j = 0 /\ local'[t].pc \in {"read", "moved"}
      /\ ~ Copying(t)' /\ OwnChunk(t)' = OwnChunk(t)
      /\ IF local'[t].pc = "moved"
         THEN /\ local'[t].b > 0
              /\ local'[t].b % Chunk = 0 \/ local'[t].b = tables[local[t].help - 1].cap
         ELSE local'[t].b \in Buckets(local[t].help - 1)
  BY <1>1, NextBucketIs
<1>3. local[t].pc # "idle"
  BY <1>1 DEF Migrating, Locals
<1>4. InCall(t)' /\ Prober(t)'
  BY <1>1, <1>2, <1>3, InCallKept, ProberKept DEF SameCall
<1>5. Helped(t)' /\ Locals(t)' /\ Copier(t)'
  BY <1>2 DEF Helped, Locals, Copier
<1>6. Owner(t)'
  BY <1>1, <1>2, OwnerKept DEF SameCall
<1> QED
  BY <1>4, <1>5, <1>6 DEF InPlace

-----------------------------------------------------------------------------
CounterLabels == {"inc", "flush", "clear"}

CounterAt(s, T, which) == s[T][which]

LEMMA CounterPlace ==
  ASSUME TypeOK, NEW t \in Threads, local[t].pc \in CounterLabels, InCall(t), Locals(t)
  PROVE  /\ Into(t) \in Tables /\ Which(t) \in {"inserts", "deletes"}
         /\ tables[Into(t)][Which(t)] \in Counters
         /\ CounterAt(tables, Into(t), Which(t)) \in Counters
<1>1. Into(t) \in Tables
  BY DEF CounterLabels, Into, InCall, Locals
<1>2. Which(t) \in {"inserts", "deletes"}
  BY DEF Which
<1>3. tables[Into(t)].inserts \in Counters /\ tables[Into(t)].deletes \in Counters
  BY <1>1, TableFacts
<1>4. tables[Into(t)][Which(t)] \in Counters
  <2>1. CASE Which(t) = "inserts"
    BY <1>3, <2>1, Zenon
  <2>2. CASE Which(t) = "deletes"
    BY <1>3, <2>2, Zenon
  <2> QED
    BY <1>2, <2>1, <2>2
<1> QED
  BY <1>1, <1>2, <1>4, Zenon DEF CounterAt

LEMMA CounterRecord ==
  ASSUME NEW c \in Counters, NEW t \in Threads, NEW n \in Nat
  PROVE  /\ [c EXCEPT !.sub = [c.sub EXCEPT ![t] = n]] \in Counters
         /\ [c EXCEPT !.global = n] \in Counters
         /\ c.sub[t] \in Nat /\ c.global \in Nat
BY DEF Counters

SubPut(s, T, which, t, n) == [s EXCEPT ![T][which].sub[t] = n]
GlobalPut(s, T, which, n) == [s EXCEPT ![T][which].global = n]

LEMMA SubWritten ==
  ASSUME NEW s, NEW T, NEW which, NEW n \in Nat,
         NEW t \in Threads, CounterAt(s, T, which) \in Counters
  PROVE  \E x \in Counters : SubPut(s, T, which, t, n) = CounterSet(s, T, which, x)
<1> DEFINE c == CounterAt(s, T, which)
           d == [c EXCEPT !.sub = [c.sub EXCEPT ![t] = n]]
<1>1. d \in Counters
  BY CounterRecord
<1>2. SubPut(s, T, which, t, n) = CounterSet(s, T, which, d)
  BY Zenon DEF SubPut, CounterSet, CounterAt
<1> QED
  BY <1>1, <1>2, Zenon

LEMMA GlobalWritten ==
  ASSUME NEW s, NEW T, NEW which, NEW n \in Nat, CounterAt(s, T, which) \in Counters
  PROVE  \E x \in Counters : GlobalPut(s, T, which, n) = CounterSet(s, T, which, x)
<1> DEFINE c == CounterAt(s, T, which)
           g == [c EXCEPT !.global = n]
<1>1. g \in Counters
  BY DEF Counters
<1>2. GlobalPut(s, T, which, n) = CounterSet(s, T, which, g)
  BY Zenon DEF GlobalPut, CounterSet, CounterAt
<1> QED
  BY <1>1, <1>2, Zenon

LEMMA CounterWrite ==
  ASSUME TypeOK, NEW T \in Tables, NEW which \in {"inserts", "deletes"},
         current' = current, NEW x \in Counters, tables' = CounterSet(tables, T, which, x)
  PROVE  tables' \in Seq(TableSet) /\ Quiet
<1>1. tables \in Seq(TableSet) /\ T \in 1 .. Len(tables)
  BY DEF TypeOK, Tables
<1>2. /\ tables' \in Seq(TableSet) /\ Len(tables') = Len(tables)
      /\ \A U \in 1 .. Len(tables) : SameSkeleton(tables'[U], tables[U])
  BY <1>1, CounterPut
<1> QED
  BY <1>2 DEF Quiet, Tables

(* The part of a counter's step that is local to the thread.               *)
LEMMA CounterStep ==
  ASSUME IInv, NEW t \in Threads, local[t].pc \in CounterLabels,
         tables' \in Seq(TableSet), Quiet, UNCHANGED quiet,
         Goto(t, "flush") \/ Goto(t, "clear") \/ Counted(t)
  PROVE  IInv'
<1>1. /\ TypeOK /\ Chain /\ InCall(t) /\ Locals(t) /\ Owner(t) /\ Prober(t) /\ SeenOK(t)
      /\ current' = current /\ left' = left /\ result' = result /\ seen' = seen
  BY DEF IInv, Globals, InPlace, Records, quiet
<1>2. Evolve
  BY <1>1, QuietFacts
<1>3. ~ Copying(t) /\ local[t].pc \notin {"read", "mark", "copy", "moved", "idle"}
  BY DEF CounterLabels, Copying
<1>4. (Migrating(t) <=> local[t].into # 0) /\ (Finished(t) <=> local[t].into = 0)
  BY <1>3 DEF Migrating, Finished, CounterLabels
<1>5. CASE Goto(t, "flush") \/ Goto(t, "clear")
  <2>1. PICK p \in {"flush", "clear"} : Goto(t, p)
    BY <1>5
  <2>2. p \in Labels
    BY DEF Labels
  <2> DEFINE m == local'[t]
             x == local[t]
  <2>3. local' = [local EXCEPT ![t] = [local[t] EXCEPT !.pc = p]]
        /\ [local[t] EXCEPT !.pc = p] \in LocalSet
    BY <1>1, <2>1, <2>2, GotoIs
  <2>4. local' \in [Threads -> LocalSet] /\ local'[t] = [local[t] EXCEPT !.pc = p] /\ Stay(t)
    BY <1>1, <2>3 DEF TypeOK, Stay
  <2>5. /\ m.pc = p /\ m.op = x.op /\ m.key = x.key /\ m.tab = x.tab /\ m.i = x.i
        /\ m.help = x.help /\ m.restart = x.restart /\ m.b = x.b /\ m.found = x.found
        /\ m.into = x.into /\ m.j = x.j
    <3>1. local[t] \in LocalSet
      BY <1>1, LocalFacts
    <3> QED
      BY <2>4, <3>1 DEF LocalSet
  <2> HIDE DEF m
  <2>6. SameCall(t) /\ SameProbe(t)
    BY <2>5 DEF m, SameCall, SameProbe
  <2>7. TypeOK'
    BY <1>1, <2>4 DEF TypeOK
  <2>8. InCall(t)' /\ Prober(t)'
    BY <1>1, <1>2, <1>3, <2>5, <2>6, InCallKept, ProberKept DEF m
  <2>9. CASE local[t].into = 0
    <3>1. seen'[t] = {}
      BY <1>1, <1>4, <2>9 DEF SeenOK
    <3>2. local'[t].into = 0 /\ local'[t].j = 0 /\ local'[t].pc \in {"idle", "inc", "flush", "clear"}
      BY <1>1, <2>5, <2>9 DEF m, Locals
    <3> QED
      BY <1>1, <1>4, <2>4, <2>7, <2>8, <2>9, <3>1, <3>2, DoneStep
  <2>10. CASE local[t].into # 0
    <3>1. Migrating(t) /\ Migrating(t)' /\ ~ Copying(t)' /\ ~ Finished(t) /\ ~ Finished(t)'
      BY <1>4, <2>5, <2>10 DEF m, Migrating, Copying, Finished
    <3>2. local'[t].pc # "moved" /\ local'[t].pc \notin {"read", "mark"}
          /\ local'[t].b = local[t].b
      BY <2>5 DEF m
    <3>3. OwnChunk(t)' = OwnChunk(t)
      BY <1>3, <3>2 DEF OwnChunk
    <3>4. \A c : AheadOf(t, c)' <=> AheadOf(t, c)
      BY <1>3, <3>2, <3>3 DEF AheadOf
    <3>5. ViewKept(t)
      BY <1>3, <2>6, <3>1, <3>3, <3>4 DEF ViewKept, SameCall
    <3>6. Owner(t)'
      <4>1. local'[t].b \in Buckets(local[t].help - 1)
        BY <1>1, <1>3, <3>1, <3>2, HelperPlace
      <4> QED
        BY <1>1, <1>2, <2>6, <2>7, <3>1, <3>2, <3>3, <4>1, OwnerKept DEF SameCall
    <3>7. Helped(t)' /\ Locals(t)' /\ Copier(t)'
      BY <1>1, <2>5, <2>10, <3>1 DEF m, Helped, Locals, Copier
    <3>8. Records(t)'
      <4>1. LostErase(t)'
        BY <2>5 DEF m, LostErase
      <4>2. SeenOK(t)'
        BY <1>1, <3>1, QuietLive DEF SeenOK
      <4> QED
        BY <4>1, <4>2 DEF Records
    <3> QED
      BY <1>1, <2>4, <2>7, <2>8, <3>5, <3>6, <3>7, <3>8, QuietStep DEF InPlace
  <2> QED
    BY <2>9, <2>10
<1>6. CASE Counted(t)
  <2>1. CASE local[t].into = 0
    <3>1. local' = [local EXCEPT ![t] = Fresh]
      BY <1>6, <2>1 DEF Counted
    <3>2. local'[t] = Fresh /\ Stay(t) /\ local' \in [Threads -> LocalSet]
      BY <1>1, <3>1, FreshIs DEF TypeOK, Stay
    <3>3. TypeOK'
      BY <1>1, <3>2 DEF TypeOK
    <3>4. seen'[t] = {}
      BY <1>1, <1>4, <2>1 DEF SeenOK
    <3>5. local'[t].pc = "idle" /\ local'[t].into = 0 /\ local'[t].j = 0
      BY <3>2, FreshIs
    <3>6. InCall(t)' /\ Prober(t)'
      BY <3>5 DEF InCall, Prober
    <3> QED
      BY <1>1, <1>4, <2>1, <3>2, <3>3, <3>4, <3>5, <3>6, DoneStep
  <2>2. CASE local[t].into # 0
    <3>1. local' = [local EXCEPT ![t] = NextBucket(t)]
      BY <1>6, <2>2 DEF Counted
    <3>2. local'[t] = NextBucket(t) /\ Stay(t)
      BY <1>1, <3>1 DEF TypeOK, Stay
    <3>3. Migrating(t) /\ local[t].pc # "moved"
      BY <1>3, <1>4, <2>2
    <3>4. /\ NextBucket(t) \in LocalSet /\ SameCall(t)
          /\ local'[t].into = 0 /\ local'[t].j = 0 /\ local'[t].pc \in {"read", "moved"}
          /\ Migrating(t)' /\ ~ Copying(t)'
          /\ OwnChunk(t)' = OwnChunk(t)
          /\ \A c \in Buckets(local[t].help - 1) :
               AheadOf(t, c)' <=> c \div Chunk = OwnChunk(t) /\ c > local[t].b
      BY <1>1, <3>2, <3>3, NextBucketIs
    <3>5. TypeOK'
      BY <1>1, <3>1, <3>4 DEF TypeOK
    <3>6. ViewKept(t)
      <4>1. \A c : AheadOf(t, c) <=> c \div Chunk = OwnChunk(t) /\ c > local[t].b
        BY <1>3 DEF AheadOf
      <4> QED
        BY <1>3, <3>3, <3>4, <4>1 DEF ViewKept, SameCall
    <3>7. InPlace(t)' /\ Copier(t)'
      BY <1>2, <3>2, <3>3, <3>5, NextBucketPlace
    <3>8. Records(t)'
      <4>1. LostErase(t)' /\ ~ Finished(t)'
        BY <3>4 DEF LostErase, Finished
      <4>2. SeenOK(t)'
        BY <1>1, <1>4, <2>2, <4>1, QuietLive DEF SeenOK
      <4> QED
        BY <4>1, <4>2 DEF Records
    <3> QED
      BY <1>1, <3>2, <3>5, <3>6, <3>7, <3>8, QuietStep
  <2> QED
    BY <2>1, <2>2
<1> QED
  BY <1>5, <1>6

LEMMA IncKeeps == ASSUME IInv, NEW t \in Threads, Inc(t) PROVE IInv'
<1> DEFINE n == tables[Into(t)][Which(t)].sub[t] + 1
<1>1. /\ TypeOK /\ InCall(t) /\ Locals(t) /\ local[t].pc \in CounterLabels
      /\ current' = current
  BY DEF Inc, IInv, InPlace, CounterLabels, quiet
<1>2. /\ Into(t) \in Tables /\ Which(t) \in {"inserts", "deletes"}
      /\ tables[Into(t)][Which(t)] \in Counters
      /\ CounterAt(tables, Into(t), Which(t)) \in Counters
  BY <1>1, CounterPlace, Zenon
<1>3. n \in Nat
  <2>1. tables[Into(t)][Which(t)].sub[t] \in Nat
    BY <1>2, CounterRecord
  <2> QED
    BY <2>1
<1>4. tables' = SubPut(tables, Into(t), Which(t), t, n)
  BY Zenon DEF Inc, SubPut
<1> HIDE DEF n
<1>5. tables' \in Seq(TableSet) /\ Quiet
  <2>1. CounterAt(tables, Into(t), Which(t)) \in Counters
    BY <1>2, Zenon
  <2>2. PICK x \in Counters : tables' = CounterSet(tables, Into(t), Which(t), x)
    BY <1>3, <1>4, <2>1, SubWritten, Zenon
  <2>3. Into(t) \in Tables /\ Which(t) \in {"inserts", "deletes"}
    BY <1>2
  <2> QED
    BY <1>1, <2>2, <2>3, CounterWrite
<1>6. UNCHANGED quiet /\ (Goto(t, "flush") \/ Counted(t))
  BY DEF Inc
<1> QED
  BY <1>1, <1>5, <1>6, CounterStep

LEMMA FlushBatchKeeps == ASSUME IInv, NEW t \in Threads, FlushBatch(t) PROVE IInv'
<1> DEFINE n == tables[Into(t)][Which(t)].global + tables[Into(t)][Which(t)].sub[t]
<1>1. /\ TypeOK /\ InCall(t) /\ Locals(t) /\ local[t].pc \in CounterLabels
      /\ current' = current
  BY DEF FlushBatch, IInv, InPlace, CounterLabels, quiet
<1>2. /\ Into(t) \in Tables /\ Which(t) \in {"inserts", "deletes"}
      /\ tables[Into(t)][Which(t)] \in Counters
      /\ CounterAt(tables, Into(t), Which(t)) \in Counters
  BY <1>1, CounterPlace, Zenon
<1>3. n \in Nat
  <2>1. tables[Into(t)][Which(t)].sub[t] \in Nat /\ tables[Into(t)][Which(t)].global \in Nat
    BY <1>2, CounterRecord
  <2> QED
    BY <2>1
<1>4. tables' = GlobalPut(tables, Into(t), Which(t), n)
  BY Zenon DEF FlushBatch, GlobalPut
<1> HIDE DEF n
<1>5. tables' \in Seq(TableSet) /\ Quiet
  <2>1. CounterAt(tables, Into(t), Which(t)) \in Counters
    BY <1>2, Zenon
  <2>2. PICK x \in Counters : tables' = CounterSet(tables, Into(t), Which(t), x)
    BY <1>3, <1>4, <2>1, GlobalWritten, Zenon
  <2>3. Into(t) \in Tables /\ Which(t) \in {"inserts", "deletes"}
    BY <1>2
  <2> QED
    BY <1>1, <2>2, <2>3, CounterWrite
<1>6. UNCHANGED quiet /\ Goto(t, "clear")
  BY DEF FlushBatch
<1> QED
  BY <1>1, <1>5, <1>6, CounterStep

LEMMA ClearBatchKeeps == ASSUME IInv, NEW t \in Threads, ClearBatch(t) PROVE IInv'
<1>1. /\ TypeOK /\ InCall(t) /\ Locals(t) /\ local[t].pc \in CounterLabels
      /\ current' = current
  BY DEF ClearBatch, IInv, InPlace, CounterLabels, quiet
<1>2. /\ Into(t) \in Tables /\ Which(t) \in {"inserts", "deletes"}
      /\ tables[Into(t)][Which(t)] \in Counters
      /\ CounterAt(tables, Into(t), Which(t)) \in Counters
  BY <1>1, CounterPlace, Zenon
<1>3. tables' \in Seq(TableSet) /\ Quiet
  <2>1. tables' = SubPut(tables, Into(t), Which(t), t, 0) /\ 0 \in Nat
    BY DEF ClearBatch, SubPut
  <2>4. CounterAt(tables, Into(t), Which(t)) \in Counters
    BY <1>2, Zenon
  <2>2. PICK x \in Counters : tables' = CounterSet(tables, Into(t), Which(t), x)
    BY <2>1, <2>4, SubWritten, Zenon
  <2>3. Into(t) \in Tables /\ Which(t) \in {"inserts", "deletes"}
    BY <1>2
  <2> QED
    BY <1>1, <2>2, <2>3, CounterWrite
<1>4. UNCHANGED quiet /\ Counted(t)
  BY DEF ClearBatch
<1> QED
  BY <1>1, <1>3, <1>4, CounterStep

-----------------------------------------------------------------------------
(* A step of migrate that stays at its bucket and writes nothing.          *)
LEMMA MigrateStep ==
  ASSUME IInv, NEW t \in Threads, Migrating(t), local[t].pc # "moved",
         NEW l \in LocalSet, Only(t, l),
         l.op = local[t].op, l.key = local[t].key, l.tab = local[t].tab, l.i = local[t].i,
         l.help = local[t].help, l.restart = local[t].restart, l.b = local[t].b,
         l.pc \in {"read", "mark", "copyRead", "copyCAS", "copyRecheck"},
         l.pc \in {"read", "mark"} <=> local[t].pc \in {"read", "mark"},
         Copying(t) <=> l.pc \notin {"read", "mark"},
         l.pc \in {"read", "mark"} => l.into = 0 /\ l.j = 0,
         l.pc \notin {"read", "mark"} => l.into # 0 /\ l.into = local[t].help,
         Copier(t)'
  PROVE  IInv'
<1>1. /\ TypeOK /\ Chain /\ InCall(t) /\ Locals(t) /\ Owner(t) /\ Prober(t) /\ SeenOK(t)
  BY DEF IInv, Globals, InPlace, Records
<1>2. /\ TypeOK' /\ Quiet /\ Stay(t) /\ local'[t] = l /\ seen' = seen
  BY <1>1, OnlyIs
<1>3. Evolve /\ SameCall(t) /\ SameProbe(t) /\ local[t].pc # "idle"
  BY <1>1, <1>2, QuietFacts DEF SameCall, SameProbe, Migrating, Locals
<1>4. Migrating(t)' /\ (Copying(t)' <=> Copying(t)) /\ ~ Finished(t) /\ ~ Finished(t)'
  BY <1>1, <1>2 DEF Migrating, Copying, Finished, Locals
<1>5. OwnChunk(t)' = OwnChunk(t) /\ \A c : AheadOf(t, c)' <=> AheadOf(t, c)
  <2>1. OwnChunk(t)' = OwnChunk(t)
    BY <1>2 DEF OwnChunk
  <2> QED
    BY <1>2, <2>1 DEF AheadOf
<1>6. ViewKept(t)
  BY <1>2, <1>4, <1>5 DEF ViewKept
<1>7. InCall(t)' /\ Prober(t)'
  BY <1>1, <1>2, <1>3, InCallKept, ProberKept
<1>8. Owner(t)'
  <2>1. local'[t].b \in Buckets(local[t].help - 1) /\ local'[t].pc # "moved"
        /\ local'[t].help = local[t].help
    BY <1>1, <1>2, HelperPlace
  <2> QED
    BY <1>1, <1>2, <1>3, <1>5, <2>1, OwnerKept
<1>9. Helped(t)' /\ Locals(t)'
  BY <1>2 DEF Helped, Locals
<1>10. Records(t)'
  <2>1. LostErase(t)'
    BY <1>2 DEF LostErase
  <2>2. SeenOK(t)'
    BY <1>1, <1>2, <1>4, QuietLive DEF SeenOK
  <2> QED
    BY <2>1, <2>2 DEF Records
<1> QED
  BY <1>2, <1>6, <1>7, <1>8, <1>9, <1>10, QuietStep DEF InPlace

FoundMore(x, p, f) == [x EXCEPT !.pc = p, !.found = f]
IntoMore(x, p, n) == [x EXCEPT !.pc = p, !.into = n]
PlaceMore(x, p, n) == [x EXCEPT !.pc = p, !.j = n]

LEMMA FoundOn ==
  ASSUME NEW x \in LocalSet, NEW p \in Labels, NEW f \in Words
  PROVE  LET y == FoundMore(x, p, f) IN
         /\ y \in LocalSet
         /\ y.op = x.op /\ y.key = x.key /\ y.tab = x.tab /\ y.i = x.i
         /\ y.help = x.help /\ y.restart = x.restart /\ y.b = x.b
         /\ y.into = x.into /\ y.j = x.j /\ y.pc = p
BY DEF LocalSet, FoundMore

LEMMA IntoOn ==
  ASSUME NEW x \in LocalSet, NEW p \in Labels, NEW n \in Nat
  PROVE  LET y == IntoMore(x, p, n) IN
         /\ y \in LocalSet
         /\ y.op = x.op /\ y.key = x.key /\ y.tab = x.tab /\ y.i = x.i
         /\ y.help = x.help /\ y.restart = x.restart /\ y.b = x.b /\ y.found = x.found
         /\ y.into = n /\ y.j = x.j /\ y.pc = p
BY DEF LocalSet, IntoMore

LEMMA PlaceOn ==
  ASSUME NEW x \in LocalSet, NEW p \in Labels, NEW n \in Nat
  PROVE  LET y == PlaceMore(x, p, n) IN
         /\ y \in LocalSet
         /\ y.op = x.op /\ y.key = x.key /\ y.tab = x.tab /\ y.i = x.i
         /\ y.help = x.help /\ y.restart = x.restart /\ y.b = x.b /\ y.found = x.found
         /\ y.into = x.into /\ y.j = n /\ y.pc = p
BY DEF LocalSet, PlaceMore

LEMMA ReadOldKeeps == ASSUME IInv, NEW t \in Threads, ReadOld(t) PROVE IInv'
<1> DEFINE f == OldOf(local[t].help).bucket[local[t].b]
           x == local[t]
           p == "mark"
           l == FoundMore(x, p, f)
<1>1. /\ local[t].pc = "read" /\ Migrating(t) /\ TypeOK /\ Chain /\ InCall(t) /\ Locals(t)
      /\ Owner(t) /\ ~ Copying(t)
  BY DEF ReadOld, Migrating, Copying, IInv, Globals, InPlace
<1>2. Only(t, l)
  BY Zenon DEF ReadOld, FoundMore
<1>3. x \in LocalSet /\ p \in Labels /\ f \in Words
  <2>1. /\ local[t].help - 1 \in Tables /\ OldOf(local[t].help) = tables[local[t].help - 1]
        /\ local[t].b \in Buckets(local[t].help - 1)
    BY <1>1, HelperPlace
  <2>2. tables[local[t].help - 1].bucket \in [Buckets(local[t].help - 1) -> Words]
    BY <1>1, <2>1, TableFacts
  <2> QED
    BY <1>1, <2>1, <2>2, LocalFacts DEF Labels
<1>4. /\ l \in LocalSet
      /\ l.op = local[t].op /\ l.key = local[t].key /\ l.tab = local[t].tab
      /\ l.i = local[t].i /\ l.help = local[t].help /\ l.restart = local[t].restart
      /\ l.b = local[t].b /\ l.into = local[t].into /\ l.j = local[t].j /\ l.pc = "mark"
  <2> HIDE DEF x, p, f
  <2>1. /\ l \in LocalSet
        /\ l.op = x.op /\ l.key = x.key /\ l.tab = x.tab
        /\ l.i = x.i /\ l.help = x.help /\ l.restart = x.restart
        /\ l.b = x.b /\ l.into = x.into /\ l.j = x.j /\ l.pc = p
    BY <1>3, FoundOn
  <2> QED
    BY <2>1 DEF x, p
<1> HIDE DEF x, p, f, l
<1>5. local[t].into = 0 /\ local[t].j = 0
  BY <1>1 DEF Locals
<1>6. Copier(t)'
  <2>1. local'[t] = l
    BY <1>1, <1>2, <1>4, OnlyIs
  <2> QED
    BY <1>4, <2>1 DEF Copier, Copying
<1> QED
  BY <1>1, <1>2, <1>4, <1>5, <1>6, MigrateStep

LEMMA MarkLostKeeps ==
  ASSUME IInv, NEW t \in Threads, local[t].pc = "mark", OnlyGoto(t, "read")
  PROVE  IInv'
<1> DEFINE l == [local[t] EXCEPT !.pc = "read"]
<1>1. /\ Migrating(t) /\ TypeOK /\ ~ Copying(t) /\ local[t].into = 0 /\ local[t].j = 0
      /\ "read" \in Labels
  BY DEF Migrating, Copying, IInv, InPlace, Locals, Labels
<1>2. l \in LocalSet /\ Only(t, l)
  BY <1>1, GotoIs DEF OnlyGoto
<1>3. /\ local'[t] = l /\ local'[t].pc = "read" /\ SameCall(t) /\ SameProbe(t)
      /\ local'[t].b = local[t].b /\ local'[t].into = local[t].into
      /\ local'[t].j = local[t].j
  BY <1>1, <1>2, OnlyGotoIs, OnlyIs
<1> HIDE DEF l
<1>4. Copier(t)'
  BY <1>3 DEF Copier, Copying
<1> QED
  BY <1>1, <1>2, <1>3, <1>4, MigrateStep DEF SameCall, SameProbe

-----------------------------------------------------------------------------
(* Where a thread copies a key to, and what it may find there. *)
LEMMA CopyPlace ==
  ASSUME IInv, NEW t \in Threads, Copying(t)
  PROVE  /\ TypeOK /\ Chain /\ Migrating(t) /\ local[t].pc # "moved"
         /\ InCall(t) /\ Locals(t) /\ Owner(t) /\ Copier(t)
         /\ local[t].help \in Tables /\ local[t].help = current /\ ~ Migrated(current)
         /\ local[t].help - 1 \in Tables /\ local[t].b \in Buckets(local[t].help - 1)
         /\ OldOf(local[t].help) = tables[local[t].help - 1]
         /\ local[t].found.key \in Keys \ KeysIn(tables[local[t].help])
         /\ tables[local[t].help - 1].bucket[local[t].b] = Word32(local[t].found.key, TRUE)
<1>1. TypeOK /\ Chain /\ ChunksCounted /\ InCall(t) /\ Locals(t) /\ Owner(t) /\ Copier(t)
  BY DEF IInv, Globals, InPlace
<1>2. Migrating(t) /\ local[t].pc # "moved"
  BY <1>1, CopyingMigrates
<1>3. /\ local[t].help \in Tables
      /\ local[t].help - 1 \in Tables /\ local[t].b \in Buckets(local[t].help - 1)
      /\ OldOf(local[t].help) = tables[local[t].help - 1]
  BY <1>1, <1>2, HelperPlace
<1>4. local[t].help = current /\ ~ Migrated(local[t].help)
  BY <1>1, <1>2, <1>3, BusyIsCurrent DEF Helpers
<1>5. ~ Migrated(current)
  BY <1>4
<1>6. /\ local[t].found.key \in Keys \ KeysIn(tables[local[t].help])
      /\ tables[local[t].help - 1].bucket[local[t].b] = Word32(local[t].found.key, TRUE)
  BY <1>1, <1>3 DEF Copier
<1> QED
  BY <1>1, <1>2, <1>3, <1>4, <1>5, <1>6

LEMMA CopyTarget ==
  ASSUME IInv, NEW t \in Threads, Copying(t), local[t].into # 0
  PROVE  /\ local[t].into = local[t].help /\ CopySlot(t) \in Buckets(local[t].help)
         /\ Target(t) = tables[local[t].help].bucket[CopySlot(t)]
         /\ Target(t) \in Words /\ ~ Target(t).marked
         /\ Target(t).key # local[t].found.key /\ Target(t) # Copied(t)
<1>1. /\ TypeOK /\ local[t].into = local[t].help /\ local[t].help \in Tables
      /\ local[t].help = current
      /\ local[t].found.key \in Keys \ KeysIn(tables[local[t].help])
  BY CopyPlace DEF Locals
<1>2. local[t].j \in Nat
  BY <1>1, LocalFacts
<1>3. CopySlot(t) \in Buckets(local[t].help)
  BY <1>1, <1>2, SlotInside DEF CopySlot
<1>4. Target(t) = tables[local[t].help].bucket[CopySlot(t)]
  BY <1>1 DEF Target
<1>5. Target(t) \in Words
  <2>1. tables[local[t].help].bucket \in [Buckets(local[t].help) -> Words]
    BY <1>1, TableFacts
  <2> QED
    BY <1>3, <1>4, <2>1
<1>6. ~ Target(t).marked
  BY <1>1, <1>3, <1>4 DEF IInv, Globals, CurrentUnmarked
<1>7. Target(t).key # local[t].found.key
  <2>1. tables[local[t].help].bucket[CopySlot(t)].key \in Keys
          => tables[local[t].help].bucket[CopySlot(t)].key \in KeysIn(tables[local[t].help])
    BY <1>3 DEF KeysIn, Buckets
  <2> QED
    BY <1>1, <1>4, <2>1
<1>8. Target(t) # Copied(t)
  BY <1>7 DEF Copied, Word32
<1> QED
  BY <1>1, <1>3, <1>4, <1>5, <1>6, <1>7, <1>8

LEMMA CopyStep ==
  ASSUME IInv, NEW t \in Threads, Copying(t), NEW l \in LocalSet, Only(t, l),
         l.op = local[t].op, l.key = local[t].key, l.tab = local[t].tab, l.i = local[t].i,
         l.help = local[t].help, l.restart = local[t].restart, l.b = local[t].b,
         l.found = local[t].found,
         l.pc \in {"copyRead", "copyCAS", "copyRecheck"}, l.into = local[t].help,
         l.j \in Buckets(local[t].help),
         \A m \in 0 .. l.j - 1 :
           tables[local[t].help].bucket[Slot(local[t].help, local[t].found.key, m)].key # EMPTY,
         l.pc = "copyRecheck" =>
           tables[local[t].help].bucket[Slot(local[t].help, local[t].found.key, l.j)] # Vacant
  PROVE  IInv'
<1>1. /\ TypeOK /\ Chain /\ Migrating(t) /\ local[t].pc # "moved"
      /\ InCall(t) /\ Locals(t) /\ Owner(t) /\ Copier(t) /\ local[t].help \in Tables
      /\ local[t].found.key \in Keys \ KeysIn(tables[local[t].help])
  BY CopyPlace
<1>2. /\ Quiet /\ local'[t] = l /\ tables' = tables
  BY <1>1, OnlyIs
<1>3. Evolve
  BY <1>1, <1>2, QuietFacts
<1>4. Copier(t)'
  BY <1>1, <1>2, <1>3, CopierKept
<1>5. local[t].help # 0 /\ local[t].pc \notin {"read", "mark"}
  BY <1>1 DEF Tables, Copying
<1> QED
  BY <1>1, <1>4, <1>5, MigrateStep

LEMMA CopyCallKeeps == ASSUME IInv, NEW t \in Threads, CopyCall(t) PROVE IInv'
<1> DEFINE x == local[t]
           p == "copyRead"
           l == IntoMore(x, p, current)
<1>1. local[t].pc = "copy" /\ Copying(t)
  BY DEF CopyCall, Copying
<1>2. /\ TypeOK /\ Locals(t) /\ local[t].help \in Tables /\ local[t].help = current
  BY <1>1, CopyPlace
<1>3. Only(t, l)
  BY Zenon DEF CopyCall, IntoMore
<1>4. x \in LocalSet /\ p \in Labels /\ current \in Nat
  BY <1>2, LocalFacts DEF Labels, TypeOK
<1>5. /\ l \in LocalSet
      /\ l.op = local[t].op /\ l.key = local[t].key /\ l.tab = local[t].tab
      /\ l.i = local[t].i /\ l.help = local[t].help /\ l.restart = local[t].restart
      /\ l.b = local[t].b /\ l.found = local[t].found
      /\ l.into = current /\ l.j = local[t].j /\ l.pc = "copyRead"
  <2> HIDE DEF x, p
  <2>1. /\ l \in LocalSet
        /\ l.op = x.op /\ l.key = x.key /\ l.tab = x.tab
        /\ l.i = x.i /\ l.help = x.help /\ l.restart = x.restart
        /\ l.b = x.b /\ l.found = x.found
        /\ l.into = current /\ l.j = x.j /\ l.pc = p
    BY <1>4, IntoOn
  <2> QED
    BY <2>1 DEF x, p
<1> HIDE DEF x, p, l
<1>6. l.j = 0
  BY <1>1, <1>2, <1>5 DEF Locals
<1>7. l.j \in Buckets(local[t].help) /\ \A m \in 0 .. l.j - 1 : FALSE
  BY <1>2, <1>6, TableFacts DEF Buckets
<1> QED
  BY <1>1, <1>2, <1>3, <1>5, <1>7, CopyStep

LEMMA CopyGotoKeeps ==
  ASSUME IInv, NEW t \in Threads, Copying(t), local[t].into # 0,
         NEW p \in {"copyCAS", "copyRecheck"}, OnlyGoto(t, p),
         p = "copyRecheck" => Target(t) # Vacant
  PROVE  IInv'
<1> DEFINE l == [local[t] EXCEPT !.pc = p]
<1>1. /\ TypeOK /\ Copier(t) /\ local[t].into = local[t].help /\ p \in Labels
      /\ Target(t) = tables[local[t].help].bucket[CopySlot(t)]
  BY CopyPlace, CopyTarget DEF Labels
<1>2. l \in LocalSet /\ Only(t, l)
  BY <1>1, GotoIs DEF OnlyGoto
<1>3. /\ local'[t] = l /\ local'[t].pc = p /\ SameCall(t) /\ SameProbe(t)
      /\ local'[t].b = local[t].b /\ local'[t].into = local[t].into
      /\ local'[t].j = local[t].j /\ local'[t].found = local[t].found
  BY <1>1, <1>2, OnlyGotoIs, OnlyIs
<1> HIDE DEF l
<1>4. /\ local[t].j \in Buckets(local[t].help)
      /\ \A m \in 0 .. local[t].j - 1 :
           tables[local[t].help].bucket[Slot(local[t].help, local[t].found.key, m)].key # EMPTY
  BY <1>1 DEF Copier
<1>5. CopySlot(t) = Slot(local[t].help, local[t].found.key, local[t].j)
  BY <1>1 DEF CopySlot
<1> QED
  BY <1>1, <1>2, <1>3, <1>4, <1>5, CopyStep DEF SameCall, SameProbe

LEMMA CopyAdvanceKeeps ==
  ASSUME IInv, NEW t \in Threads, Copying(t), local[t].into # 0, Target(t) # Vacant,
         CopyAdvance(t)
  PROVE  IInv'
<1> DEFINE x == local[t]
           p == "copyRead"
           n == local[t].j + 1
           l == PlaceMore(x, p, n)
<1>1. /\ TypeOK /\ Copier(t) /\ local[t].into = local[t].help /\ local[t].help \in Tables
      /\ Target(t) = tables[local[t].help].bucket[CopySlot(t)]
      /\ Target(t) \in Words /\ ~ Target(t).marked
  BY CopyPlace, CopyTarget
<1>2. \/ local[t].j + 1 < tables[local[t].into].cap /\ Only(t, l)
      \/ Fail("ran out")
  BY Zenon DEF CopyAdvance, PlaceMore
<1>3. x \in LocalSet /\ p \in Labels /\ n \in Nat /\ local[t].j \in Nat
  <2>1. x \in LocalSet /\ local[t].j \in Nat
    BY <1>1, LocalFacts
  <2> QED
    BY <2>1 DEF Labels
<1>4. /\ l \in LocalSet
      /\ l.op = local[t].op /\ l.key = local[t].key /\ l.tab = local[t].tab
      /\ l.i = local[t].i /\ l.help = local[t].help /\ l.restart = local[t].restart
      /\ l.b = local[t].b /\ l.found = local[t].found
      /\ l.into = local[t].into /\ l.j = local[t].j + 1 /\ l.pc = "copyRead"
  <2> HIDE DEF x, p, n
  <2>1. /\ l \in LocalSet
        /\ l.op = x.op /\ l.key = x.key /\ l.tab = x.tab
        /\ l.i = x.i /\ l.help = x.help /\ l.restart = x.restart
        /\ l.b = x.b /\ l.found = x.found
        /\ l.into = x.into /\ l.j = n /\ l.pc = p
    BY <1>3, PlaceOn
  <2> QED
    BY <2>1 DEF x, p, n
<1> HIDE DEF x, p, n, l
<1>5. /\ local[t].j \in Buckets(local[t].help)
      /\ \A m \in 0 .. local[t].j - 1 :
           tables[local[t].help].bucket[Slot(local[t].help, local[t].found.key, m)].key # EMPTY
  BY <1>1 DEF Copier
<1>6. tables[local[t].help].bucket[Slot(local[t].help, local[t].found.key, local[t].j)].key # EMPTY
  <2>1. Target(t).key # EMPTY
    BY <1>1, WholeWord DEF Vacant, Word32, Words
  <2> QED
    BY <1>1, <2>1 DEF CopySlot
<1>7. \A m \in 0 .. l.j - 1 :
        tables[local[t].help].bucket[Slot(local[t].help, local[t].found.key, m)].key # EMPTY
  <2> SUFFICES ASSUME NEW m \in 0 .. l.j - 1
               PROVE  tables[local[t].help].bucket[Slot(local[t].help, local[t].found.key, m)].key
                        # EMPTY
    OBVIOUS
  <2>1. m \in 0 .. local[t].j - 1 \/ m = local[t].j
    BY <1>3, <1>4
  <2> QED
    BY <1>5, <1>6, <2>1
<1>8. CASE local[t].j + 1 < tables[local[t].into].cap /\ Only(t, l)
  <2>1. l.j \in Buckets(local[t].help)
    <3>1. tables[local[t].help].cap \in Nat
      BY <1>1, TableFacts
    <3> QED
      BY <1>1, <1>3, <1>4, <1>8, <3>1 DEF Buckets
  <2> QED
    BY <1>1, <1>4, <1>7, <1>8, <2>1, CopyStep
<1> QED
  BY <1>2, <1>8, FailKeeps

LEMMA CopyLabels ==
  ASSUME IInv, NEW t \in Threads, local[t].pc \in {"copyRead", "copyCAS", "copyRecheck"}
  PROVE  Copying(t) /\ local[t].into # 0
BY DEF Copying, IInv, InPlace, Locals

LEMMA CopyReadKeeps == ASSUME IInv, NEW t \in Threads, CopyRead(t) PROVE IInv'
<1>1. Copying(t) /\ local[t].into # 0 /\ Target(t) # Copied(t)
  BY CopyLabels, CopyTarget DEF CopyRead
<1>2. \/ OnlyGoto(t, "copyCAS")
      \/ Target(t) # Vacant /\ CopyAdvance(t)
  BY <1>1 DEF CopyRead
<1> QED
  BY <1>1, <1>2, CopyGotoKeeps, CopyAdvanceKeeps

LEMMA CopyLostKeeps ==
  ASSUME IInv, NEW t \in Threads, local[t].pc = "copyCAS", Target(t) # Vacant,
         OnlyGoto(t, "copyRecheck")
  PROVE  IInv'
BY CopyLabels, CopyGotoKeeps

LEMMA CopyRecheckKeeps == ASSUME IInv, NEW t \in Threads, CopyRecheck(t) PROVE IInv'
<1>1. local[t].pc = "copyRecheck" /\ Copying(t) /\ local[t].into # 0
      /\ Target(t) # Copied(t) /\ Copier(t)
  BY CopyLabels, CopyTarget, CopyPlace DEF CopyRecheck
<1>2. Target(t) # Vacant
  BY <1>1 DEF Copier
<1>3. CopyAdvance(t)
  BY <1>1 DEF CopyRecheck
<1> QED
  BY <1>1, <1>2, <1>3, CopyAdvanceKeeps

-----------------------------------------------------------------------------
(* A step that makes no table and changes no key.                          *)
SameKeys ==
  /\ Len(tables') = Len(tables) /\ current' = current
  /\ \A T \in Tables : \A b \in Buckets(T) :
       tables'[T].bucket[b].key = tables[T].bucket[b].key

LEMMA SameKeysFacts ==
  ASSUME TypeOK, Chain, Evolve, SameKeys
  PROVE  /\ Tables' = Tables
         /\ \A T \in Tables : /\ Chunks(T)' = Chunks(T) /\ Buckets(T)' = Buckets(T)
                              /\ KeysIn(tables'[T]) = KeysIn(tables[T])
                              /\ tables'[T].old = tables[T].old
                              /\ \A k, n : Slot(T, k, n)' = Slot(T, k, n)
         /\ KeysUnique => KeysUnique'
         /\ KeysReachable => KeysReachable'
<1>1. Tables' = Tables
  BY DEF SameKeys, Tables
<1>2. ASSUME NEW T \in Tables
      PROVE  /\ Chunks(T)' = Chunks(T) /\ Buckets(T)' = Buckets(T)
             /\ KeysIn(tables'[T]) = KeysIn(tables[T])
             /\ tables'[T].old = tables[T].old
             /\ \A k, n : Slot(T, k, n)' = Slot(T, k, n)
  <2>1. Chunks(T)' = Chunks(T)
    BY ChunksKept
  <2>2. tables'[T].cap = tables[T].cap /\ tables'[T].old = tables[T].old
    BY DEF Evolve
  <2>3. \A b \in 0 .. tables[T].cap - 1 : tables'[T].bucket[b].key = tables[T].bucket[b].key
    BY DEF SameKeys, Buckets
  <2> QED
    BY <2>1, <2>2, <2>3 DEF Buckets, KeysIn, Slot
<1>3. KeysUnique => KeysUnique'
  BY <1>1, <1>2 DEF KeysUnique, SameKeys
<1>4. KeysReachable => KeysReachable'
  <2> SUFFICES ASSUME KeysReachable, NEW T \in Tables', NEW b \in Buckets(T)',
                      tables'[T].bucket[b].key \in Keys
               PROVE  \E n \in Buckets(T)' :
                        /\ Slot(T, tables[T].bucket[b].key, n)' = b
                        /\ \A m \in 0 .. n - 1 :
                             tables'[T].bucket[Slot(T, tables[T].bucket[b].key, m)'].key # EMPTY
    BY DEF KeysReachable
  <2> DEFINE k == tables[T].bucket[b].key
  <2>1. T \in Tables /\ b \in Buckets(T)
    BY <1>1, <1>2
  <2>2. tables'[T].bucket[b].key = k /\ k \in Keys
    BY <2>1 DEF SameKeys
  <2>3. PICK n \in Buckets(T) :
          /\ Slot(T, k, n) = b
          /\ \A m \in 0 .. n - 1 : tables[T].bucket[Slot(T, k, m)].key # EMPTY
    BY <2>1, <2>2 DEF KeysReachable
  <2> HIDE DEF k
  <2>4. \A m \in 0 .. n - 1 : tables'[T].bucket[Slot(T, k, m)].key # EMPTY
    <3> SUFFICES ASSUME NEW m \in 0 .. n - 1
                 PROVE  tables'[T].bucket[Slot(T, k, m)].key # EMPTY
      OBVIOUS
    <3>1. m \in Nat
      BY DEF Buckets
    <3>2. Slot(T, k, m) \in Buckets(T)
      BY <2>1, <2>2, <3>1, SlotInside
    <3> QED
      BY <2>1, <2>3, <3>2 DEF SameKeys
  <2>5. \A m : Slot(T, k, m)' = Slot(T, k, m)
    BY <1>2, <2>1, <2>2 DEF Slot, k
  <2> QED
    BY <1>2, <2>1, <2>2, <2>3, <2>4, <2>5
<1> QED
  BY <1>1, <1>2, <1>3, <1>4

(* The keys of the table in use stay while its migration does.             *)
LEMMA SameKeysLive ==
  ASSUME IInv, Evolve, SameKeys, Migrated(current)' <=> Migrated(current)
  PROVE  Live' = Live
<1>1. TypeOK /\ Chain /\ current \in Tables /\ current' = current
  BY FirstMigrated DEF IInv, Globals, SameKeys
<1>2. /\ KeysIn(tables'[current]) = KeysIn(tables[current])
      /\ tables'[current].old = tables[current].old
  BY <1>1, SameKeysFacts
<1>3. /\ (tables'[current].done = OldChunks(tables', current)) <=> Migrated(current)'
      /\ (tables[current].done = OldChunks(tables, current)) <=> Migrated(current)
  BY <1>1 DEF Migrated
<1>4. ~ Migrated(current) =>
        KeysIn(tables'[tables[current].old]) = KeysIn(tables[tables[current].old])
  <2>1. ~ Migrated(current) => current # 1
    BY FirstMigrated DEF IInv, Globals
  <2>2. ~ Migrated(current) => tables[current].old \in Tables
    BY <1>1, <2>1 DEF Chain, Tables, TypeOK
  <2> QED
    BY <1>1, <2>2, SameKeysFacts
<1> QED
  BY <1>1, <1>2, <1>3, <1>4 DEF Live, LiveIn

(* No word becomes a tombstone, so no erase loses its key.                 *)
LEMMA SameKeysRecords ==
  ASSUME IInv, TypeOK', Evolve, SameKeys, Live' = Live, NEW u \in Threads,
         local'[u] = local[u], seen'[u] = seen[u]
  PROVE  Records(u)'
<1>1. TypeOK /\ Chain /\ InCall(u) /\ LostErase(u) /\ SeenOK(u)
  BY DEF IInv, Globals, InPlace, Records
<1>2. LostErase(u)'
  <2>1. ASSUME local[u].pc \in {"cas", "recheck"}, local[u].op = "erase", Gone(u)'
        PROVE  \E S \in seen[u] : local[u].key \notin S
    <3> DEFINE w == Bucket(u)
               x == Bucket(u)'
    <3>1. local[u].tab \in Tables /\ local[u].key \in Keys /\ local[u].i \in Nat
      BY <1>1, <2>1, LocalFacts DEF InCall
    <3>2. Here(u) \in Buckets(local[u].tab) /\ Here(u)' = Here(u)
      BY <1>1, <3>1, SlotInside, SameKeysFacts DEF Here
    <3>3. x \in Words /\ WordStep(w, x) /\ x.key = w.key
      <4>1. tables'[local[u].tab].bucket \in [Buckets(local[u].tab) -> Words]
        <5>1. local[u].tab \in 1 .. Len(tables')
          BY <3>1 DEF SameKeys, Tables
        <5>2. tables'[local[u].tab] \in TableSet
          BY <5>1 DEF TypeOK
        <5>3. tables'[local[u].tab].cap = tables[local[u].tab].cap
          BY <3>1 DEF Evolve
        <5> QED
          BY <5>2, <5>3, FieldsOf DEF Buckets
      <4>2. Bucket(u)' = tables'[local[u].tab].bucket[Here(u)]
        BY <3>2 DEF Bucket
      <4> QED
        BY <3>1, <3>2, <4>1, <4>2 DEF Bucket, Evolve, SameKeys
    <3>4. ~ x.marked /\ x # Mine(u)
      BY <2>1 DEF Gone, Mine, Word32
    <3> HIDE DEF w, x
    <3>5. ~ w.marked /\ w # Mine(u)
      <4>1. ~ w.marked
        BY <3>3, <3>4 DEF WordStep
      <4>2. x = Word32(x.key, FALSE)
        BY <3>3, <3>4, PlainWord
      <4> QED
        BY <3>3, <3>4, <4>1, <4>2 DEF Mine, Word32
    <3> QED
      BY <1>1, <2>1, <3>5 DEF LostErase, Gone, w
  <2> QED
    BY <2>1 DEF LostErase
<1>3. SeenOK(u)'
  BY <1>1 DEF SeenOK, Finished
<1> QED
  BY <1>2, <1>3 DEF Records

-----------------------------------------------------------------------------
(* The bucket that a thread of migrate is about to mark. *)
LEMMA MarkPlace ==
  ASSUME IInv, NEW t \in Threads, local[t].pc = "mark"
  PROVE  LET T == local[t].help
             b == local[t].b
         IN /\ TypeOK /\ Chain /\ Migrating(t) /\ ~ Copying(t) /\ t \in Helpers(T)
            /\ InCall(t) /\ Locals(t) /\ Owner(t) /\ Prober(t) /\ SeenOK(t)
            /\ T \in Tables /\ T = current /\ T # 1 /\ ~ Migrated(current)
            /\ T - 1 \in Tables /\ tables[T].old = T - 1 /\ b \in Buckets(T - 1)
            /\ tables[T - 1].bucket[b] \in Words /\ ~ tables[T - 1].bucket[b].marked
            /\ OwnChunk(t) = b \div Chunk /\ OwnChunk(t) < tables[T].claimed
            /\ tables[T - 1].bucket[b].key \in Keys =>
                 tables[T - 1].bucket[b].key \notin KeysIn(tables[T])
<1> DEFINE T == local[t].help
           b == local[t].b
           w == tables[T - 1].bucket[b]
<1>1. /\ TypeOK /\ Chain /\ ChunksCounted /\ Migrating(t) /\ ~ Copying(t)
      /\ InCall(t) /\ Locals(t) /\ Owner(t) /\ Prober(t) /\ SeenOK(t)
  BY DEF IInv, Globals, InPlace, Records, Migrating, Copying
<1>2. /\ T \in Tables /\ T # 1 /\ T - 1 \in Tables /\ tables[T].old = T - 1
      /\ OwnChunk(t) < tables[T].claimed /\ b \in Buckets(T - 1)
  BY <1>1, HelperPlace
<1>3. t \in Helpers(T)
  BY <1>1 DEF Helpers
<1>4. T = current /\ ~ Migrated(current)
  <2>1. ~ Migrated(T) /\ T = current
    BY <1>1, <1>2, <1>3, BusyIsCurrent
  <2> QED
    BY <2>1, Zenon
<1>5. OwnChunk(t) = b \div Chunk
  BY <1>1, OwnChunkIs
<1>6. ~ w.marked
  <2>1. AheadOf(t, b)
    BY <1>5 DEF AheadOf
  <2>2. Ahead(T, b)
    BY <1>3, <2>1 DEF Ahead
  <2>3. T \in 2 .. current
    BY <1>2, <1>4 DEF Tables, Chain, TypeOK
  <2> QED
    BY <1>2, <2>2, <2>3 DEF IInv, Globals, MarksTellProgress
<1>7. w \in Words
  <2>1. tables[T - 1].bucket \in [Buckets(T - 1) -> Words]
    BY <1>1, <1>2, TableFacts
  <2> QED
    BY <1>2, <2>1
<1>8. w.key \in Keys => w.key \notin KeysIn(tables[T])
  <2> SUFFICES ASSUME w.key \in Keys, w.key \in KeysIn(tables[T])
               PROVE  FALSE
    OBVIOUS
  <2>1. PICK c \in Buckets(T - 1) : tables[T - 1].bucket[c] = Word32(w.key, TRUE)
    BY <1>4 DEF IInv, Globals, MovedKeysMarked
  <2>2. tables[T - 1].bucket[c].marked /\ tables[T - 1].bucket[c].key = w.key
    BY <2>1 DEF Word32
  <2>3. c = b
    BY <1>2, <2>2 DEF IInv, Globals, KeysUnique
  <2> QED
    BY <1>6, <2>2, <2>3
<1> QED
  BY <1>1, <1>2, <1>3, <1>4, <1>5, <1>6, <1>7, <1>8

(* A step that writes one word of one table. *)
LEMMA WordWrite ==
  ASSUME TypeOK, NEW T \in Tables, NEW b \in Buckets(T), NEW w \in Words,
         current' = current, tables' = WordSet(tables, T, b, w),
         WordStep(tables[T].bucket[b], w)
  PROVE  /\ tables' \in Seq(TableSet) /\ Len(tables') = Len(tables) /\ Evolve
         /\ \A U \in Tables : SameButBuckets(tables'[U], tables[U])
         /\ \A U \in Tables : U # T => tables'[U] = tables[U]
         /\ tables'[T].bucket[b] = w
         /\ \A c \in Buckets(T) : c # b => tables'[T].bucket[c] = tables[T].bucket[c]
<1>1. tables \in Seq(TableSet) /\ T \in 1 .. Len(tables) /\ b \in 0 .. tables[T].cap - 1
  BY DEF TypeOK, Tables, Buckets
<1>2. /\ tables' \in Seq(TableSet) /\ Len(tables') = Len(tables)
      /\ \A U \in 1 .. Len(tables) : U # T => tables'[U] = tables[U]
      /\ SameButBuckets(tables'[T], tables[T])
      /\ tables'[T].bucket = [tables[T].bucket EXCEPT ![b] = w]
  BY <1>1, WordPut
<1>3. tables[T].bucket \in [Buckets(T) -> Words]
  BY TableFacts
<1>4. /\ tables'[T].bucket[b] = w
      /\ \A c \in Buckets(T) : c # b => tables'[T].bucket[c] = tables[T].bucket[c]
  BY <1>2, <1>3
<1>5. ASSUME NEW U \in Tables
      PROVE  SameButBuckets(tables'[U], tables[U]) /\ (U # T => tables'[U] = tables[U])
  BY <1>2 DEF Tables, SameButBuckets
<1>6. ASSUME NEW U \in Tables, NEW c \in Buckets(U)
      PROVE  WordStep(tables[U].bucket[c], tables'[U].bucket[c])
  <2>1. CASE U = T /\ c = b
    BY <1>4, <2>1
  <2>2. CASE ~ (U = T /\ c = b)
    BY <1>4, <1>5, <2>2 DEF WordStep
  <2> QED
    BY <2>1, <2>2
<1>7. Evolve
  <2>1. ASSUME NEW U \in Tables
        PROVE  /\ tables'[U].cap = tables[U].cap /\ tables'[U].old = tables[U].old
               /\ tables[U].claimed <= tables'[U].claimed
    <3>1. tables[U].claimed \in Nat
      BY TableFacts
    <3> QED
      BY <1>5, <3>1 DEF SameButBuckets
  <2>2. Len(tables) <= Len(tables') /\ current <= current'
    BY <1>1, <1>2 DEF TypeOK
  <2> QED
    BY <1>6, <2>1, <2>2 DEF Evolve
<1> QED
  BY <1>2, <1>4, <1>5, <1>7

(* The mark leaves every key where it is. *)
LEMMA MarkWord ==
  ASSUME IInv, NEW t \in Threads, local[t].pc = "mark", current' = current,
         tables' = MarkSet(tables, local[t].help - 1, local[t].b)
  PROVE  LET T == local[t].help
             b == local[t].b
         IN /\ tables' \in Seq(TableSet) /\ SameKeys /\ Evolve
            /\ \A U \in Tables : SameButBuckets(tables'[U], tables[U])
            /\ \A U \in Tables : U # T - 1 => tables'[U] = tables[U]
            /\ tables'[T - 1].bucket[b] = Word32(tables[T - 1].bucket[b].key, TRUE)
            /\ \A c \in Buckets(T - 1) : c # b =>
                 tables'[T - 1].bucket[c] = tables[T - 1].bucket[c]
<1> DEFINE T == local[t].help
           b == local[t].b
           O == T - 1
           w == Word32(tables[O].bucket[b].key, TRUE)
<1>1. /\ TypeOK /\ O \in Tables /\ b \in Buckets(O)
      /\ tables[O].bucket[b] \in Words /\ ~ tables[O].bucket[b].marked
  BY MarkPlace
<1>2. w \in Words /\ w.key = tables[O].bucket[b].key
  BY <1>1 DEF Words, Word32
<1>3. tables \in Seq(TableSet) /\ O \in 1 .. Len(tables) /\ b \in 0 .. tables[O].cap - 1
  BY <1>1 DEF TypeOK, Tables, Buckets
<1>4. tables' = WordSet(tables, O, b, w)
  BY <1>3, MarkPut
<1>5. WordStep(tables[O].bucket[b], w)
  BY <1>1, <1>2 DEF WordStep
<1> HIDE DEF T, b, O, w
<1>6. /\ tables' \in Seq(TableSet) /\ Len(tables') = Len(tables) /\ Evolve
      /\ \A U \in Tables : SameButBuckets(tables'[U], tables[U])
      /\ \A U \in Tables : U # O => tables'[U] = tables[U]
      /\ tables'[O].bucket[b] = w
      /\ \A c \in Buckets(O) : c # b => tables'[O].bucket[c] = tables[O].bucket[c]
  BY <1>1, <1>2, <1>4, <1>5, WordWrite
<1>7. SameKeys
  <2> SUFFICES ASSUME NEW U \in Tables, NEW c \in Buckets(U)
               PROVE  tables'[U].bucket[c].key = tables[U].bucket[c].key
    BY <1>6 DEF SameKeys
  <2>1. CASE U = O /\ c = b
    BY <1>2, <1>6, <2>1
  <2>2. CASE ~ (U = O /\ c = b)
    BY <1>6, <2>2
  <2> QED
    BY <2>1, <2>2
<1> QED
  BY <1>6, <1>7 DEF T, b, O, w

-----------------------------------------------------------------------------
LEMMA GotoSame ==
  ASSUME TypeOK, NEW t \in Threads, NEW p \in Labels,
         local' = [local EXCEPT ![t] = [local[t] EXCEPT !.pc = p]]
  PROVE  /\ local' \in [Threads -> LocalSet] /\ Stay(t)
         /\ local'[t].pc = p /\ SameCall(t) /\ SameProbe(t)
         /\ local'[t].b = local[t].b /\ local'[t].found = local[t].found
         /\ local'[t].into = local[t].into /\ local'[t].j = local[t].j
<1> DEFINE m == local'[t]
           x == local[t]
<1>1. [local[t] EXCEPT !.pc = p] \in LocalSet /\ local[t] \in LocalSet
  BY GotoIs, LocalFacts
<1>2. local' \in [Threads -> LocalSet] /\ m = [x EXCEPT !.pc = p] /\ Stay(t)
  BY <1>1 DEF TypeOK, Stay
<1>3. /\ m.pc = p /\ m.op = x.op /\ m.key = x.key /\ m.tab = x.tab /\ m.i = x.i
      /\ m.help = x.help /\ m.restart = x.restart /\ m.b = x.b /\ m.found = x.found
      /\ m.into = x.into /\ m.j = x.j
  BY <1>1, <1>2 DEF LocalSet
<1> QED
  BY <1>2, <1>3 DEF SameCall, SameProbe

(* What a thread does after its mark: a key is copied, anything else left. *)
LEMMA AfterMarkIs ==
  ASSUME IInv, NEW t \in Threads, local[t].pc = "mark", UNCHANGED quiet, AfterMark(t),
         tables[local[t].help - 1].bucket[local[t].b] = local[t].found,
         tables' = MarkSet(tables, local[t].help - 1, local[t].b)
  PROVE  /\ TypeOK' /\ Stay(t) /\ Migrating(t)' /\ InPlace(t)' /\ Copier(t)'
         /\ SameCall(t) /\ local'[t].help = local[t].help /\ OwnChunk(t)' = OwnChunk(t)
         /\ ~ Finished(t)' /\ local'[t].pc \notin {"cas", "recheck"}
         /\ \A c \in Buckets(local[t].help - 1) :
              AheadOf(t, c)' <=> AheadOf(t, c) /\ c # local[t].b
         /\ local[t].found.key \in Keys => Copying(t)' /\ local'[t].b = local[t].b
<1> DEFINE T == local[t].help
           b == local[t].b
<1>1. /\ TypeOK /\ Chain /\ Migrating(t) /\ ~ Copying(t)
      /\ InCall(t) /\ Locals(t) /\ Owner(t) /\ Prober(t)
      /\ T \in Tables /\ T = current /\ T # 1 /\ T - 1 \in Tables /\ tables[T].old = T - 1
      /\ b \in Buckets(T - 1)
      /\ tables[T - 1].bucket[b].key \in Keys =>
           tables[T - 1].bucket[b].key \notin KeysIn(tables[T])
  BY MarkPlace
<1>2. current' = current /\ left' = left /\ result' = result /\ seen' = seen
  BY DEF quiet
<1>3. /\ tables' \in Seq(TableSet) /\ Evolve /\ tables'[T] = tables[T]
      /\ \A U \in Tables : SameButBuckets(tables'[U], tables[U])
      /\ tables'[T - 1].bucket[b] = Word32(tables[T - 1].bucket[b].key, TRUE)
  <2>1. T # T - 1
    BY <1>1 DEF Tables
  <2> QED
    BY <1>1, <1>2, <2>1, MarkWord
<1>4. \A c \in Buckets(T - 1) :
        AheadOf(t, c) /\ c # b <=> c \div Chunk = OwnChunk(t) /\ c > b
  <2>1. b \in Nat /\ \A c \in Buckets(T - 1) : c \in Nat
    BY <1>1, LocalFacts DEF Buckets
  <2> QED
    BY <2>1 DEF AheadOf
<1>5. CASE local[t].found.key \in Keys
  <2>1. local' = [local EXCEPT ![t] = [local[t] EXCEPT !.pc = "copy"]]
    BY <1>5, Zenon DEF AfterMark
  <2>2. /\ local' \in [Threads -> LocalSet] /\ Stay(t)
        /\ local'[t].pc = "copy" /\ SameCall(t) /\ SameProbe(t)
        /\ local'[t].b = b /\ local'[t].found = local[t].found
        /\ local'[t].into = local[t].into /\ local'[t].j = local[t].j
    BY <1>1, <2>1, GotoSame DEF Labels
  <2>3. TypeOK'
    BY <1>1, <1>2, <1>3, <2>2 DEF TypeOK
  <2>4. Migrating(t)' /\ Copying(t)' /\ ~ Finished(t)' /\ local'[t].help = T
    BY <2>2 DEF Migrating, Copying, Finished, SameCall
  <2>5. OwnChunk(t)' = OwnChunk(t)
    BY <2>2 DEF OwnChunk
  <2>6. \A c \in Buckets(T - 1) : AheadOf(t, c)' <=> AheadOf(t, c) /\ c # b
    BY <1>4, <2>2, <2>5 DEF AheadOf
  <2>7. local[t].into = 0 /\ local[t].j = 0 /\ local[t].pc # "idle"
    BY <1>1 DEF Locals
  <2>8. InCall(t)' /\ Prober(t)'
    BY <1>1, <1>3, <2>2, <2>7, InCallKept, ProberKept
  <2>9. Owner(t)'
    BY <1>1, <1>3, <2>2, <2>3, <2>4, <2>5, OwnerKept
  <2>10. Helped(t)' /\ Locals(t)'
    BY <2>2, <2>7 DEF Helped, Locals
  <2>11. Copier(t)'
    <3>1. tables'[T].old = T - 1
      BY <1>1, <1>3
    <3>2. OldOf(local[t].help)' = tables'[T - 1]
      BY <2>4, <3>1 DEF OldOf
    <3>3. OldOf(local[t].help)'.bucket[local'[t].b] = Word32(local'[t].found.key, TRUE)
      BY <1>3, <2>2, <3>2
    <3>4. local'[t].found.key \in Keys \ KeysIn(tables'[T])
      BY <1>1, <1>3, <1>5, <2>2
    <3> QED
      BY <2>2, <2>4, <2>7, <3>3, <3>4 DEF Copier, Word32
  <2> QED
    BY <2>2, <2>3, <2>4, <2>5, <2>6, <2>8, <2>9, <2>10, <2>11 DEF InPlace
<1>6. CASE local[t].found.key \notin Keys
  <2>1. local' = [local EXCEPT ![t] = NextBucket(t)]
    BY <1>6, Zenon DEF AfterMark
  <2>2. local'[t] = NextBucket(t) /\ Stay(t)
    BY <1>1, <2>1 DEF TypeOK, Stay
  <2>3. /\ NextBucket(t) \in LocalSet /\ SameCall(t)
        /\ local'[t].pc \in {"read", "moved"} /\ Migrating(t)'
        /\ OwnChunk(t)' = OwnChunk(t)
        /\ \A c \in Buckets(T - 1) :
             AheadOf(t, c)' <=> c \div Chunk = OwnChunk(t) /\ c > b
    BY <1>1, <2>2, NextBucketIs
  <2>4. TypeOK'
    BY <1>1, <1>2, <1>3, <2>1, <2>3 DEF TypeOK
  <2>5. InPlace(t)' /\ Copier(t)'
    BY <1>1, <1>3, <2>2, <2>4, NextBucketPlace
  <2> QED
    BY <1>4, <1>6, <2>2, <2>3, <2>4, <2>5 DEF Finished, SameCall
<1> QED
  BY <1>5, <1>6

LEMMA MarkOldKeeps == ASSUME IInv, NEW t \in Threads, MarkOld(t) PROVE IInv'
<1> DEFINE T == local[t].help
           b == local[t].b
           O == T - 1
<1>1. local[t].pc = "mark"
  BY DEF MarkOld
<1>2. CASE OnlyGoto(t, "read")
  BY <1>1, <1>2, MarkLostKeeps
<1>3. CASE /\ tables[tables[T].old].bucket[b] = local[t].found
           /\ tables' = [tables EXCEPT ![tables[T].old].bucket[b].marked = TRUE]
           /\ AfterMark(t) /\ UNCHANGED quiet
  <2>1. /\ TypeOK /\ Chain /\ Migrating(t) /\ ~ Copying(t) /\ t \in Helpers(T)
        /\ SeenOK(t) /\ T \in Tables /\ T = current /\ T # 1 /\ ~ Migrated(current)
        /\ O \in Tables /\ tables[T].old = O /\ b \in Buckets(O)
        /\ ~ tables[O].bucket[b].marked
        /\ OwnChunk(t) = b \div Chunk /\ OwnChunk(t) < tables[T].claimed
    BY <1>1, MarkPlace
  <2>2. tables' = MarkSet(tables, O, b) /\ tables[O].bucket[b] = local[t].found
    BY <1>3, <2>1, Zenon DEF MarkSet
  <2>3. current' = current /\ seen' = seen
    BY <1>3 DEF quiet
  <2>4. /\ TypeOK' /\ Stay(t) /\ Migrating(t)' /\ InPlace(t)' /\ Copier(t)'
        /\ local'[t].help = T /\ OwnChunk(t)' = OwnChunk(t)
        /\ ~ Finished(t)' /\ local'[t].pc \notin {"cas", "recheck"}
        /\ \A c \in Buckets(O) : AheadOf(t, c)' <=> AheadOf(t, c) /\ c # b
        /\ local[t].found.key \in Keys => Copying(t)' /\ local'[t].b = b
    BY <1>1, <1>3, <2>2, AfterMarkIs
  <2>5. /\ SameKeys /\ Evolve
        /\ \A U \in Tables : SameButBuckets(tables'[U], tables[U])
        /\ \A U \in Tables : U # O => tables'[U] = tables[U]
        /\ tables'[O].bucket[b] = Word32(tables[O].bucket[b].key, TRUE)
        /\ \A c \in Buckets(O) : c # b => tables'[O].bucket[c] = tables[O].bucket[c]
    BY <1>1, <2>2, <2>3, MarkWord
  <2>6. O \in Nat /\ O # T /\ current \in Nat
    BY <2>1 DEF Tables
  <2> HIDE DEF T, b, O
  <2>7. Tables' = Tables
        /\ \A U \in Tables : /\ Chunks(U)' = Chunks(U) /\ Buckets(U)' = Buckets(U)
                             /\ KeysIn(tables'[U]) = KeysIn(tables[U])
                             /\ tables'[U].old = tables[U].old
                             /\ (Migrated(U)' <=> Migrated(U))
                             /\ tables'[U].claimed = tables[U].claimed
                             /\ tables'[U].done = tables[U].done
    <3>1. \A U \in Tables : tables'[U].claimed = tables[U].claimed
                            /\ tables'[U].done = tables[U].done
      BY <2>5 DEF SameButBuckets
    <3> QED
      BY <2>1, <2>5, <3>1, SameKeysFacts DEF Migrated, Chunks
  <2>8. KeysUnique' /\ KeysReachable' /\ Live' = Live
    <3>1. Migrated(current)' <=> Migrated(current)
      BY <2>1, <2>3, <2>7 DEF Migrated
    <3> QED
      BY <2>1, <2>5, <3>1, SameKeysFacts, SameKeysLive DEF IInv, Globals
  <2>9. ASSUME NEW u \in Threads, u # t
        PROVE  /\ local'[u] = local[u] /\ (Migrating(u)' <=> Migrating(u))
               /\ OwnChunk(u)' = OwnChunk(u) /\ (Copying(u)' <=> Copying(u))
               /\ \A c : AheadOf(u, c)' <=> AheadOf(u, c)
    BY <2>4, <2>9, SameView DEF Stay
  <2>10. /\ \A U : Helpers(U)' = Helpers(U)
         /\ \A u \in Threads : (Migrating(u)' <=> Migrating(u)) /\ OwnChunk(u)' = OwnChunk(u)
    <3>1. \A u \in Threads : (Migrating(u)' <=> Migrating(u)) /\ OwnChunk(u)' = OwnChunk(u)
                             /\ local'[u].help = local[u].help
      BY <2>1, <2>4, <2>9 DEF T
    <3> QED
      BY <3>1 DEF Helpers
  <2>11. Chain' /\ ChunksCounted' /\ OneOwner' /\ CurrentUnmarked'
    <3>1. Chain'
      BY <2>3, <2>5, <2>7 DEF Chain, SameKeys, IInv, Globals, Tables, TypeOK
    <3>2. ChunksCounted'
      BY <2>7, <2>10 DEF ChunksCounted, Lowest, IInv, Globals
    <3>3. OneOwner'
      BY <2>10 DEF OneOwner, IInv, Globals
    <3>4. CurrentUnmarked'
      <4>1. tables'[current] = tables[current] /\ Buckets(current)' = Buckets(current)
        BY <2>1, <2>3, <2>5, <2>6 DEF Buckets
      <4> QED
        BY <2>3, <4>1 DEF CurrentUnmarked, IInv, Globals
    <3> QED
      BY <3>1, <3>2, <3>3, <3>4
  <2>12. MarksTellProgress'
    <3> SUFFICES ASSUME NEW U \in 2 .. current, NEW c \in Buckets(U - 1)'
                 PROVE  (tables[U - 1].bucket[c].marked <=> ~ Ahead(U, c))'
      BY <2>3 DEF MarksTellProgress
    <3>1. U \in Tables /\ U - 1 \in Tables /\ c \in Buckets(U - 1)
      <4>1. U \in Tables /\ U - 1 \in Tables
        BY <2>1 DEF Chain, Tables, TypeOK
      <4> QED
        BY <2>7, <4>1
    <3>2. tables[U - 1].bucket[c].marked <=> ~ Ahead(U, c)
      BY <3>1 DEF MarksTellProgress, IInv, Globals
    <3>3. CASE U = T
      <4>1. U - 1 = O
        BY <3>3 DEF O
      <4>2. Ahead(U, c)' <=> Ahead(U, c) /\ c # b
        <5>1. \A u \in Helpers(U) : u # t => (AheadOf(u, c)' <=> AheadOf(u, c))
          BY <2>9 DEF Helpers
        <5>2. AheadOf(t, c)' <=> AheadOf(t, c) /\ c # b
          BY <2>4, <3>1, <4>1
        <5>3. ~ (b \div Chunk >= tables[U].claimed)
          BY <2>1, <3>1, <3>3, OwnChunkIs, TableFacts, <1>1
        <5>4. \A u \in Helpers(U) : u # t => ~ AheadOf(u, b)
          <6> SUFFICES ASSUME NEW u \in Helpers(U), AheadOf(u, b)
                       PROVE  u = t
            OBVIOUS
          <6>1. u \in Threads /\ Migrating(u) /\ OwnChunk(u) = OwnChunk(t)
            BY <2>1 DEF Helpers, AheadOf
          <6> QED
            BY <2>1, <6>1 DEF OneOwner, IInv, Globals
        <5>5. t \in Helpers(U) /\ Helpers(U)' = Helpers(U)
          BY <2>1, <2>10, <3>3
        <5>6. tables'[U].claimed = tables[U].claimed
          BY <2>7, <3>1
        <5>7. CASE c = b
          BY <5>1, <5>2, <5>3, <5>4, <5>5, <5>6, <5>7 DEF Ahead
        <5>8. CASE c # b
          BY <5>1, <5>2, <5>5, <5>6, <5>8 DEF Ahead
        <5> QED
          BY <5>7, <5>8
      <4>3. CASE c = b
        BY <2>5, <4>1, <4>2, <4>3 DEF Word32
      <4>4. CASE c # b
        BY <2>5, <3>1, <3>2, <4>1, <4>2, <4>4
      <4> QED
        BY <4>3, <4>4
    <3>4. CASE U # T
      <4>1. U - 1 # O
        BY <2>1, <3>4 DEF O, Tables
      <4>2. Ahead(U, c)' <=> Ahead(U, c)
        <5>1. \A u \in Helpers(U) : AheadOf(u, c)' <=> AheadOf(u, c)
          BY <2>9, <3>4 DEF Helpers, T
        <5> QED
          BY <2>7, <2>10, <3>1, <5>1 DEF Ahead
      <4> QED
        BY <2>5, <3>1, <3>2, <4>1, <4>2
    <3> QED
      BY <3>3, <3>4
  <2>13. MarkedKeysMove'
    <3>1. current - 1 = O
      BY <2>1 DEF O
    <3> SUFFICES ASSUME NEW c \in Buckets(O), tables'[O].bucket[c].marked,
                        tables'[O].bucket[c].key \in Keys
                 PROVE  \/ tables'[O].bucket[c].key \in KeysIn(tables'[current])
                        \/ \E u \in Threads : Copying(u)' /\ local'[u].b = c
      BY <2>1, <2>3, <2>7, <3>1 DEF MarkedKeysMove
    <3>2. CASE c = b
      <4>1. tables'[O].bucket[c].key = local[t].found.key
        BY <2>2, <2>5, <3>2 DEF Word32
      <4> QED
        BY <2>4, <3>2, <4>1
    <3>3. CASE c # b
      <4>1. tables'[O].bucket[c] = tables[O].bucket[c]
        BY <2>5, <3>3
      <4>2. \/ tables[O].bucket[c].key \in KeysIn(tables[current])
            \/ \E u \in Threads : Copying(u) /\ local[u].b = c
        BY <2>1, <3>1, <4>1 DEF MarkedKeysMove, IInv, Globals
      <4>3. CASE tables[O].bucket[c].key \in KeysIn(tables[current])
        BY <2>1, <2>7, <4>1, <4>3
      <4>4. CASE \E u \in Threads : Copying(u) /\ local[u].b = c
        BY <2>1, <2>9, <4>4
      <4> QED
        BY <4>2, <4>3, <4>4
    <3> QED
      BY <3>2, <3>3
  <2>14. MovedKeysMarked'
    <3>1. current - 1 = O
      BY <2>1 DEF O
    <3> SUFFICES ASSUME NEW k \in KeysIn(tables[current])
                 PROVE  \E c \in Buckets(O) : tables'[O].bucket[c] = Word32(k, TRUE)
      BY <2>1, <2>3, <2>7, <3>1 DEF MovedKeysMarked, Word32
    <3>2. PICK c \in Buckets(O) : tables[O].bucket[c] = Word32(k, TRUE)
      BY <2>1, <3>1 DEF MovedKeysMarked, IInv, Globals
    <3>3. c # b
      BY <2>1, <3>2 DEF Word32
    <3> QED
      BY <2>5, <3>2, <3>3
  <2>15. Records(t)'
    <3>1. LostErase(t)'
      BY <2>4 DEF LostErase
    <3>2. ~ Finished(t)
      BY <1>1 DEF Finished
    <3> QED
      BY <2>1, <2>3, <2>4, <2>8, <3>1, <3>2 DEF Records, SeenOK
  <2>16. ASSUME NEW u \in Threads, u # t
         PROVE  InPlace(u)' /\ Copier(u)' /\ Records(u)'
    <3>1. StayMigrated
      BY <2>7 DEF StayMigrated
    <3>2. Copying(u) => local[u].found.key \notin KeysIn(tables'[local[u].help])
      BY <2>7, CopyPlace
    <3>3. local'[u] = local[u] /\ seen'[u] = seen[u]
      BY <2>3, <2>9, <2>16
    <3> QED
      BY <2>4, <2>5, <2>8, <3>1, <3>2, <3>3, OthersKept, SameKeysRecords
  <2> QED
    BY <2>4, <2>8, <2>11, <2>12, <2>13, <2>14, <2>15, <2>16 DEF IInv, Globals
<1> QED
  BY <1>2, <1>3, Zenon DEF MarkOld

-----------------------------------------------------------------------------
(* A step that writes one word of table T, as WordWrite describes it.      *)
Written(T, b, w) ==
  /\ Len(tables') = Len(tables) /\ current' = current /\ Evolve
  /\ \A U \in Tables : SameButBuckets(tables'[U], tables[U])
  /\ \A U \in Tables : U # T => tables'[U] = tables[U]
  /\ tables'[T].bucket[b] = w
  /\ \A c \in Buckets(T) : c # b => tables'[T].bucket[c] = tables[T].bucket[c]

LEMMA WrittenFacts ==
  ASSUME TypeOK, Chain, NEW T \in Tables, NEW b \in Buckets(T), NEW w, Written(T, b, w)
  PROVE  /\ Tables' = Tables
         /\ \A U \in Tables : /\ Chunks(U)' = Chunks(U) /\ Buckets(U)' = Buckets(U)
                              /\ (Migrated(U)' <=> Migrated(U))
                              /\ tables'[U].old = tables[U].old
                              /\ tables'[U].claimed = tables[U].claimed
                              /\ tables'[U].done = tables[U].done
                              /\ \A k, n : Slot(U, k, n)' = Slot(U, k, n)
         /\ \A U \in Tables : U # T => KeysIn(tables'[U]) = KeysIn(tables[U])
         /\ Chain' /\ StayMigrated
<1>1. Tables' = Tables
  BY DEF Written, Tables
<1>2. ASSUME NEW U \in Tables
      PROVE  /\ Chunks(U)' = Chunks(U) /\ Buckets(U)' = Buckets(U)
             /\ (Migrated(U)' <=> Migrated(U))
             /\ tables'[U].old = tables[U].old
             /\ tables'[U].claimed = tables[U].claimed
             /\ tables'[U].done = tables[U].done
             /\ \A k, n : Slot(U, k, n)' = Slot(U, k, n)
  <2>1. Chunks(U)' = Chunks(U)
    BY ChunksKept DEF Written
  <2>2. SameButBuckets(tables'[U], tables[U])
    BY DEF Written
  <2> QED
    BY <2>1, <2>2 DEF SameButBuckets, Migrated, Chunks, Buckets, Slot
<1>3. \A U \in Tables : U # T => KeysIn(tables'[U]) = KeysIn(tables[U])
  BY DEF Written
<1>4. Chain'
  <2>1. current = Len(tables) /\ current # 0 /\ \A U \in 1 .. current - 1 : U \in Tables
    BY DEF Chain, Tables, TypeOK
  <2>2. \A U \in 1 .. current - 1 : Migrated(U)'
    BY <1>2, <2>1 DEF Chain
  <2>3. \A U \in Tables : tables'[U].old = U - 1
    BY <1>2 DEF Chain
  <2> QED
    BY <1>1, <2>1, <2>2, <2>3 DEF Chain, Written
<1>5. StayMigrated
  BY <1>2 DEF StayMigrated
<1> QED
  BY <1>1, <1>2, <1>3, <1>4, <1>5

(* A key may be written where a probe for it would find it.                *)
LEMMA WrittenKeys ==
  ASSUME TypeOK, Chain, KeysUnique, KeysReachable, NEW T \in Tables, NEW b \in Buckets(T),
         NEW w \in Words, Written(T, b, w),
         w.key \in Keys =>
           /\ w.key \notin KeysIn(tables[T])
           /\ \E n \in Buckets(T) :
                /\ Slot(T, w.key, n) = b
                /\ \A m \in 0 .. n - 1 : tables[T].bucket[Slot(T, w.key, m)].key # EMPTY
  PROVE  /\ KeysUnique' /\ KeysReachable'
         /\ KeysIn(tables'[T]) =
              (KeysIn(tables[T]) \ {tables[T].bucket[b].key}) \cup ({w.key} \cap Keys)
<1>1. /\ Tables' = Tables
      /\ \A U \in Tables : /\ Buckets(U)' = Buckets(U)
                           /\ \A k, n : Slot(U, k, n)' = Slot(U, k, n)
  BY WrittenFacts
<1>2. /\ \A U \in Tables : U # T => tables'[U] = tables[U]
      /\ tables'[T].bucket[b] = w
      /\ \A c \in Buckets(T) : c # b => tables'[T].bucket[c] = tables[T].bucket[c]
      /\ Evolve
  BY DEF Written
<1>3. ASSUME NEW c \in Buckets(T), c # b, tables[T].bucket[c].key \in Keys
      PROVE  tables[T].bucket[c].key # w.key
  BY <1>3 DEF KeysIn, Buckets
<1>4. KeysUnique'
  <2> SUFFICES ASSUME NEW U \in Tables, NEW c \in Buckets(U), NEW d \in Buckets(U),
                      tables'[U].bucket[c].key \in Keys,
                      tables'[U].bucket[c].key = tables'[U].bucket[d].key
               PROVE  c = d
    BY <1>1 DEF KeysUnique
  <2>1. CASE U # T
    BY <1>2, <2>1 DEF KeysUnique
  <2>2. CASE U = T
    <3>1. CASE c # b /\ d # b
      BY <1>2, <2>2, <3>1 DEF KeysUnique
    <3>2. CASE c = b /\ d # b
      BY <1>2, <1>3, <2>2, <3>2
    <3>3. CASE c # b /\ d = b
      BY <1>2, <1>3, <2>2, <3>3
    <3> QED
      BY <3>1, <3>2, <3>3
  <2> QED
    BY <2>1, <2>2
<1>5. KeysReachable'
  <2> SUFFICES ASSUME NEW U \in Tables, NEW c \in Buckets(U), NEW k \in Keys,
                      tables'[U].bucket[c].key = k
               PROVE  \E n \in Buckets(U) :
                        /\ Slot(U, k, n) = c
                        /\ \A m \in 0 .. n - 1 : tables'[U].bucket[Slot(U, k, m)].key # EMPTY
    BY <1>1, ReachableNext
  <2>1. PICK n \in Buckets(U) :
          /\ Slot(U, k, n) = c
          /\ \A m \in 0 .. n - 1 : tables[U].bucket[Slot(U, k, m)].key # EMPTY
    <3>1. CASE U = T /\ c = b
      BY <1>2, <3>1
    <3>2. CASE ~ (U = T /\ c = b)
      <4>1. tables[U].bucket[c].key = k
        BY <1>2, <3>2
      <4> QED
        BY <4>1 DEF KeysReachable
    <3> QED
      BY <3>1, <3>2
  <2>2. \A m \in 0 .. n - 1 : tables'[U].bucket[Slot(U, k, m)].key # EMPTY
    <3> SUFFICES ASSUME NEW m \in 0 .. n - 1
                 PROVE  tables'[U].bucket[Slot(U, k, m)].key # EMPTY
      OBVIOUS
    <3>1. m \in Nat
      BY DEF Buckets
    <3>2. Slot(U, k, m) \in Buckets(U)
      BY <3>1, SlotInside
    <3>3. WordStep(tables[U].bucket[Slot(U, k, m)], tables'[U].bucket[Slot(U, k, m)])
      BY <1>2, <3>2 DEF Evolve
    <3> QED
      BY <2>1, <3>3, KeyFacts DEF WordStep
  <2> QED
    BY <2>1, <2>2
<1>6. KeysIn(tables'[T]) =
        (KeysIn(tables[T]) \ {tables[T].bucket[b].key}) \cup ({w.key} \cap Keys)
  <2>1. /\ KeysIn(tables'[T]) = {tables'[T].bucket[c].key : c \in Buckets(T)} \cap Keys
        /\ KeysIn(tables[T]) = {tables[T].bucket[c].key : c \in Buckets(T)} \cap Keys
    BY <1>1 DEF KeysIn, Buckets
  <2>2. ASSUME NEW k \in KeysIn(tables'[T])
        PROVE  k \in (KeysIn(tables[T]) \ {tables[T].bucket[b].key}) \cup ({w.key} \cap Keys)
    <3>1. PICK c \in Buckets(T) : tables'[T].bucket[c].key = k
      BY <2>1
    <3>2. k \in Keys
      BY <2>1
    <3>3. CASE c = b
      BY <1>2, <3>1, <3>2, <3>3
    <3>4. CASE c # b
      <4>1. tables[T].bucket[c].key = k /\ k \in KeysIn(tables[T])
        BY <1>2, <2>1, <3>1, <3>2, <3>4
      <4>2. tables[T].bucket[b].key # k
        BY <3>2, <3>4, <4>1 DEF KeysUnique
      <4> QED
        BY <4>1, <4>2
    <3> QED
      BY <3>3, <3>4
  <2>3. ASSUME NEW k \in KeysIn(tables[T]), k # tables[T].bucket[b].key
        PROVE  k \in KeysIn(tables'[T])
    <3>1. PICK c \in Buckets(T) : tables[T].bucket[c].key = k
      BY <2>1
    <3>2. c # b /\ k \in Keys
      BY <2>1, <2>3, <3>1
    <3>3. tables'[T].bucket[c].key = k
      BY <1>2, <3>1, <3>2
    <3> QED
      BY <2>1, <3>2, <3>3
  <2>4. w.key \in Keys => w.key \in KeysIn(tables'[T])
    BY <1>2, <2>1
  <2> QED
    BY <2>2, <2>3, <2>4
<1> QED
  BY <1>4, <1>5, <1>6

(* An erase whose bucket does not become a tombstone in this step.         *)
LEMMA LostEraseStays ==
  ASSUME IInv, TypeOK', Evolve, NEW u \in Threads, local'[u] = local[u],
         seen[u] \subseteq seen'[u],
         \A U \in Tables : \A c \in Buckets(U) :
           tables'[U].bucket[c] = Word32(TOMBSTONE, FALSE)
             => tables[U].bucket[c] = Word32(TOMBSTONE, FALSE)
  PROVE  LostErase(u)'
<1>1. TypeOK /\ InCall(u) /\ LostErase(u)
  BY DEF IInv, InPlace, Records
<1>2. ASSUME local[u].pc \in {"cas", "recheck"}, local[u].op = "erase", Gone(u)'
      PROVE  \E S \in seen[u] : local[u].key \notin S
  <2>1. local[u].tab \in Tables /\ local[u].key \in Keys /\ local[u].i \in Nat
    BY <1>1, <1>2, LocalFacts DEF InCall
  <2>2. Here(u) \in Buckets(local[u].tab)
    BY <1>1, <2>1, SlotInside DEF Here
  <2>3. Here(u)' = Here(u)
    <3>1. tables'[local[u].tab].cap = tables[local[u].tab].cap
      BY <2>1 DEF Evolve
    <3> QED
      BY <3>1 DEF Here, Slot
  <2>4. Bucket(u)' = tables'[local[u].tab].bucket[Here(u)]
    BY <2>3 DEF Bucket
  <2> DEFINE w == Bucket(u)
             x == Bucket(u)'
             T == local[u].tab
  <2>5. w \in Words /\ x \in Words /\ WordStep(w, x)
    <3>1. tables[T].bucket \in [Buckets(T) -> Words]
      BY <1>1, <2>1, TableFacts
    <3>2. tables'[T].bucket \in [Buckets(T) -> Words]
      <4>1. T \in 1 .. Len(tables')
        BY <1>1, <2>1 DEF Evolve, Tables, TypeOK
      <4>2. tables'[T] \in TableSet /\ tables'[T].cap = tables[T].cap
        BY <2>1, <4>1 DEF TypeOK, Evolve
      <4> QED
        BY <4>2, FieldsOf DEF Buckets
    <3> QED
      BY <2>1, <2>2, <2>4, <3>1, <3>2 DEF Bucket, Evolve
  <2>6. ~ x.marked /\ x # Mine(u)
    BY <1>2 DEF Gone, Mine, Word32
  <2>7. x = Word32(TOMBSTONE, FALSE) => w = Word32(TOMBSTONE, FALSE)
    BY <2>1, <2>2, <2>4 DEF Bucket
  <2>8. Mine(u) = Word32(local[u].key, FALSE) /\ local[u].key \notin {EMPTY, TOMBSTONE}
    BY <2>1, KeyFacts DEF Mine
  <2> HIDE DEF w, x
  <2>9. ~ w.marked /\ x = Word32(x.key, FALSE) /\ w = Word32(w.key, FALSE)
    <3>1. ~ w.marked
      BY <2>5, <2>6 DEF WordStep
    <3> QED
      BY <2>5, <2>6, <3>1, PlainWord
  <2>10. w # Mine(u)
    <3> SUFFICES ASSUME w = Mine(u) PROVE FALSE
      OBVIOUS
    <3>1. w.key = local[u].key
      BY <2>8 DEF Word32
    <3>2. x.key \in {local[u].key, TOMBSTONE}
      BY <2>5, <2>8, <3>1 DEF WordStep
    <3>3. x.key # local[u].key
      BY <2>6, <2>8, <2>9
    <3>4. w = Word32(TOMBSTONE, FALSE)
      BY <2>7, <2>9, <3>2, <3>3
    <3> QED
      BY <2>8, <3>1, <3>4 DEF Word32
  <2> QED
    BY <1>1, <1>2, <2>9, <2>10 DEF LostErase, Gone, w
<1> QED
  BY <1>2 DEF LostErase

-----------------------------------------------------------------------------
(* The key that a thread of migrate writes into the new table.             *)
LEMMA CopyWrite ==
  ASSUME IInv, NEW t \in Threads, Copying(t), local[t].into # 0, Target(t) = Vacant,
         current' = current,
         tables' = WordSet(tables, local[t].into, CopySlot(t), Copied(t))
  PROVE  LET T == local[t].help
             k == local[t].found.key
         IN /\ tables' \in Seq(TableSet) /\ Written(T, CopySlot(t), Copied(t))
            /\ CopySlot(t) \in Buckets(T) /\ KeysUnique' /\ KeysReachable'
            /\ KeysIn(tables'[T]) = KeysIn(tables[T]) \cup {k}
<1> DEFINE T == local[t].help
           k == local[t].found.key
           b == CopySlot(t)
           w == Copied(t)
<1>1. /\ TypeOK /\ Chain /\ T \in Tables /\ k \in Keys \ KeysIn(tables[T]) /\ Copier(t)
  BY CopyPlace
<1>2. /\ local[t].into = T /\ b \in Buckets(T) /\ tables[T].bucket[b] = Vacant
  BY CopyTarget
<1>3. w \in Words /\ w.key = k /\ w.marked = FALSE
  BY <1>1 DEF Copied, Word32, Words
<1>4. WordStep(tables[T].bucket[b], w)
  BY <1>2 DEF WordStep, Vacant, Word32
<1> HIDE DEF w
<1>5. tables' \in Seq(TableSet) /\ Written(T, b, w)
  BY <1>1, <1>2, <1>3, <1>4, WordWrite DEF Written, w
<1>6. \E n \in Buckets(T) :
        /\ Slot(T, w.key, n) = b
        /\ \A m \in 0 .. n - 1 : tables[T].bucket[Slot(T, w.key, m)].key # EMPTY
  <2>1. /\ local[t].j \in Buckets(T)
        /\ \A m \in 0 .. local[t].j - 1 : tables[T].bucket[Slot(T, k, m)].key # EMPTY
    BY <1>1, <1>2 DEF Copier
  <2>2. Slot(T, k, local[t].j) = b
    BY <1>2 DEF CopySlot
  <2> QED
    BY <1>3, <2>1, <2>2
<1>7. /\ KeysUnique' /\ KeysReachable'
      /\ KeysIn(tables'[T]) =
              (KeysIn(tables[T]) \ {tables[T].bucket[b].key}) \cup ({w.key} \cap Keys)
  <2>1. KeysUnique /\ KeysReachable
    BY DEF IInv, Globals
  <2> HIDE DEF T, b, k
  <2> QED
    BY <1>1, <1>2, <1>3, <1>5, <1>6, <2>1, WrittenKeys
<1>8. tables[T].bucket[b].key \notin KeysIn(tables[T])
  BY <1>2, KeyFacts DEF Vacant, Word32, KeysIn
<1> QED
  BY <1>1, <1>2, <1>3, <1>5, <1>7, <1>8 DEF w

LEMMA CopyCASKeeps == ASSUME IInv, NEW t \in Threads, CopyCAS(t) PROVE IInv'
<1> DEFINE T == local[t].help
           k == local[t].found.key
           b == CopySlot(t)
           w == Copied(t)
           O == T - 1
<1>1. local[t].pc = "copyCAS" /\ Copying(t) /\ local[t].into # 0
  BY CopyLabels DEF CopyCAS
<1>2. CASE Target(t) # Vacant /\ OnlyGoto(t, "copyRecheck")
  BY <1>1, <1>2, CopyLostKeeps
<1>3. CASE /\ Target(t) = Vacant
           /\ tables' = [tables EXCEPT ![local[t].into].bucket[CopySlot(t)] = Copied(t)]
           /\ Goto(t, "inc")
           /\ UNCHANGED quiet
  <2>1. /\ TypeOK /\ Chain /\ Migrating(t) /\ local[t].pc # "moved"
        /\ InCall(t) /\ Locals(t) /\ Owner(t) /\ Copier(t) /\ Prober(t) /\ SeenOK(t)
        /\ T \in Tables /\ T = current /\ ~ Migrated(current)
        /\ O \in Tables /\ local[t].b \in Buckets(O)
        /\ k \in Keys \ KeysIn(tables[T])
        /\ tables[O].bucket[local[t].b] = Word32(k, TRUE) /\ local[t].into = T
    BY <1>1, CopyPlace DEF IInv, InPlace, Records, Locals
  <2>2. current' = current /\ seen' = seen /\ left' = left /\ result' = result
    BY <1>3 DEF quiet
  <2>3. /\ tables' \in Seq(TableSet) /\ Written(T, b, w) /\ b \in Buckets(T)
        /\ KeysUnique' /\ KeysReachable'
        /\ KeysIn(tables'[T]) = KeysIn(tables[T]) \cup {k}
    <3>1. tables' = WordSet(tables, local[t].into, CopySlot(t), Copied(t))
      BY <1>3, Zenon DEF WordSet
    <3> QED
      BY <1>1, <1>3, <2>2, <3>1, CopyWrite
  <2>4. /\ local' \in [Threads -> LocalSet] /\ Stay(t)
        /\ local'[t].pc = "inc" /\ SameCall(t) /\ SameProbe(t)
        /\ local'[t].b = local[t].b /\ local'[t].into = T
    <3>1. local' = [local EXCEPT ![t] = [local[t] EXCEPT !.pc = "inc"]]
      BY <1>3, Zenon DEF Goto
    <3> QED
      BY <2>1, <3>1, GotoSame DEF Labels
  <2>5. T # 0 /\ O # T /\ O = current - 1
    BY <2>1 DEF Tables
  <2>6. TypeOK'
    BY <2>1, <2>2, <2>3, <2>4 DEF TypeOK
  <2>7. w = Word32(k, FALSE) /\ w.key = k /\ w.marked = FALSE
    BY DEF Copied, Word32
  <2> HIDE DEF T, k, b, w, O
  <2>8. /\ Tables' = Tables
        /\ \A U \in Tables : /\ Chunks(U)' = Chunks(U) /\ Buckets(U)' = Buckets(U)
                             /\ (Migrated(U)' <=> Migrated(U))
                             /\ tables'[U].old = tables[U].old
                             /\ tables'[U].claimed = tables[U].claimed
                             /\ tables'[U].done = tables[U].done
        /\ \A U \in Tables : U # T => KeysIn(tables'[U]) = KeysIn(tables[U])
        /\ Chain' /\ StayMigrated
    BY <2>1, <2>3, WrittenFacts
  <2>9. /\ Evolve /\ \A U \in Tables : U # T => tables'[U] = tables[U]
        /\ tables'[T].bucket[b] = w
        /\ \A c \in Buckets(T) : c # b => tables'[T].bucket[c] = tables[T].bucket[c]
    BY <2>3 DEF Written
  <2>10. /\ Migrating(t)' /\ ~ Copying(t)' /\ OwnChunk(t)' = OwnChunk(t) /\ ~ Finished(t)'
         /\ local'[t].help = T /\ \A c : AheadOf(t, c)' <=> AheadOf(t, c)
    <3>1. Migrating(t)' /\ ~ Copying(t)' /\ ~ Finished(t)' /\ local'[t].help = T
      BY <2>4, <2>5 DEF Migrating, Copying, Finished, SameCall, T
    <3>2. OwnChunk(t)' = OwnChunk(t)
      BY <2>1, <2>4 DEF OwnChunk
    <3> QED
      BY <1>1, <2>4, <3>1, <3>2 DEF AheadOf
  <2>11. ASSUME NEW u \in Threads, u # t
         PROVE  /\ local'[u] = local[u] /\ (Migrating(u)' <=> Migrating(u))
                /\ OwnChunk(u)' = OwnChunk(u) /\ (Copying(u)' <=> Copying(u))
                /\ \A c : AheadOf(u, c)' <=> AheadOf(u, c)
    BY <2>4, <2>11, SameView DEF Stay
  <2>12. /\ \A U : Helpers(U)' = Helpers(U)
         /\ \A u \in Threads : (Migrating(u)' <=> Migrating(u)) /\ OwnChunk(u)' = OwnChunk(u)
         /\ \A u \in Threads : \A c : AheadOf(u, c)' <=> AheadOf(u, c)
    <3>1. \A u \in Threads : (Migrating(u)' <=> Migrating(u)) /\ OwnChunk(u)' = OwnChunk(u)
                             /\ local'[u].help = local[u].help
      BY <2>1, <2>10, <2>11 DEF T
    <3> QED
      BY <2>10, <2>11, <3>1 DEF Helpers
  <2>13. ChunksCounted' /\ OneOwner'
    <3>1. ChunksCounted'
      BY <2>8, <2>12 DEF ChunksCounted, Lowest, IInv, Globals
    <3>2. OneOwner'
      BY <2>12 DEF OneOwner, IInv, Globals
    <3> QED
      BY <3>1, <3>2
  <2>14. CurrentUnmarked'
    <3> SUFFICES ASSUME NEW c \in Buckets(T) PROVE ~ tables'[T].bucket[c].marked
      BY <2>1, <2>2, <2>8 DEF CurrentUnmarked, Buckets
    <3> QED
      BY <2>1, <2>7, <2>9 DEF CurrentUnmarked, IInv, Globals
  <2>15. MarksTellProgress'
    <3> SUFFICES ASSUME NEW U \in 2 .. current, NEW c \in Buckets(U - 1)'
                 PROVE  (tables[U - 1].bucket[c].marked <=> ~ Ahead(U, c))'
      BY <2>2 DEF MarksTellProgress
    <3>1. U \in Tables /\ U - 1 \in Tables /\ U - 1 # T
      BY <2>1 DEF Chain, Tables, TypeOK
    <3>2. c \in Buckets(U - 1) /\ tables'[U - 1] = tables[U - 1]
      BY <2>8, <2>9, <3>1
    <3>3. Ahead(U, c)' <=> Ahead(U, c)
      <4>1. \A u \in Helpers(U) : AheadOf(u, c)' <=> AheadOf(u, c)
        BY <2>12 DEF Helpers
      <4> QED
        BY <2>8, <2>12, <3>1, <4>1 DEF Ahead
    <3> QED
      BY <3>2, <3>3 DEF MarksTellProgress, IInv, Globals
  <2>16. MarkedKeysMove'
    <3> SUFFICES ASSUME NEW c \in Buckets(O), tables[O].bucket[c].marked,
                        tables[O].bucket[c].key \in Keys
                 PROVE  \/ tables[O].bucket[c].key \in KeysIn(tables'[T])
                        \/ \E u \in Threads : Copying(u)' /\ local'[u].b = c
      BY <2>1, <2>2, <2>5, <2>8, <2>9 DEF MarkedKeysMove, Buckets
    <3>1. \/ tables[O].bucket[c].key \in KeysIn(tables[T])
          \/ \E u \in Threads : Copying(u) /\ local[u].b = c
      BY <2>1, <2>5 DEF MarkedKeysMove, IInv, Globals
    <3>2. CASE tables[O].bucket[c].key \in KeysIn(tables[T])
      BY <2>3, <3>2
    <3>3. CASE \E u \in Threads : Copying(u) /\ local[u].b = c
      <4>1. PICK u \in Threads : Copying(u) /\ local[u].b = c
        BY <3>3
      <4>2. CASE u = t
        BY <2>1, <2>3, <4>1, <4>2 DEF Word32
      <4>3. CASE u # t
        BY <2>11, <4>1, <4>3
      <4> QED
        BY <4>2, <4>3
    <3> QED
      BY <3>1, <3>2, <3>3
  <2>17. MovedKeysMarked'
    <3> SUFFICES ASSUME NEW x \in KeysIn(tables'[T])
                 PROVE  \E c \in Buckets(O) : tables[O].bucket[c] = Word32(x, TRUE)
      BY <2>1, <2>2, <2>5, <2>8, <2>9 DEF MovedKeysMarked, Buckets, Word32
    <3>1. CASE x = k
      BY <2>1, <3>1
    <3>2. CASE x # k
      BY <2>1, <2>3, <2>5, <3>2 DEF MovedKeysMarked, IInv, Globals
    <3> QED
      BY <3>1, <3>2
  <2>18. Live' = Live
    <3>1. ~ Migrated(current)'
      BY <2>1, <2>2, <2>8 DEF Migrated
    <3>2. tables'[current].old = O /\ tables[current].old = O /\ tables'[O] = tables[O]
      BY <2>1, <2>5, <2>8, <2>9 DEF Chain
    <3> QED
      BY <2>1, <2>2, <3>1, <3>2 DEF Live, LiveIn, Migrated
  <2>19. ASSUME NEW u \in Threads, u # t, Copying(u)
         PROVE  local[u].found.key # k
    <3> SUFFICES ASSUME local[u].found.key = k
                 PROVE  FALSE
      OBVIOUS
    <3>1. /\ Migrating(u) /\ local[u].pc # "moved" /\ local[u].help = current
          /\ local[u].b \in Buckets(local[u].help - 1)
          /\ tables[local[u].help - 1].bucket[local[u].b] = Word32(local[u].found.key, TRUE)
      BY <2>19, CopyPlace
    <3>2. /\ local[u].b \in Buckets(O) /\ tables[O].bucket[local[u].b] = Word32(k, TRUE)
      BY <2>5, <3>1
    <3>3. local[u].b = local[t].b
      BY <2>1, <3>2 DEF KeysUnique, IInv, Globals, Word32
    <3>4. OwnChunk(u) = OwnChunk(t)
      BY <2>1, <3>1, <3>3 DEF OwnChunk
    <3> QED
      BY <2>1, <2>19, <3>1, <3>4 DEF OneOwner, IInv, Globals
  <2>20. \A U \in Tables : \A c \in Buckets(U) :
           tables'[U].bucket[c] = Word32(TOMBSTONE, FALSE)
             => tables[U].bucket[c] = Word32(TOMBSTONE, FALSE)
    <3>1. w # Word32(TOMBSTONE, FALSE)
      BY <2>1, <2>7, KeyFacts DEF Word32
    <3> QED
      BY <2>9, <3>1
  <2>21. ASSUME NEW u \in Threads, u # t
         PROVE  InPlace(u)' /\ Copier(u)' /\ Records(u)'
    <3>1. local'[u] = local[u] /\ seen'[u] = seen[u]
      BY <2>2, <2>11, <2>21
    <3>2. Copying(u) => local[u].found.key \notin KeysIn(tables'[local[u].help])
      <4>1. ASSUME Copying(u)
            PROVE  local[u].found.key \notin KeysIn(tables[T]) /\ local[u].help = T
        BY <2>1, <4>1, CopyPlace
      <4> QED
        BY <2>3, <2>19, <2>21, <4>1
    <3>3. InPlace(u)' /\ Copier(u)'
      BY <2>6, <2>8, <2>9, <3>1, <3>2, OthersKept
    <3>4. LostErase(u)'
      BY <2>6, <2>9, <2>20, <3>1, LostEraseStays
    <3>5. SeenOK(u)'
      BY <2>18, <3>1 DEF IInv, Records, SeenOK, Finished
    <3> QED
      BY <3>3, <3>4, <3>5 DEF Records
  <2>22. InPlace(t)' /\ Copier(t)' /\ Records(t)'
    <3>1. local[t].pc # "idle"
      BY <1>1
    <3>2. InCall(t)' /\ Prober(t)'
      BY <2>1, <2>4, <2>9, <3>1, InCallKept, ProberKept
    <3>3. Owner(t)'
      BY <2>1, <2>4, <2>6, <2>9, <2>10, OwnerKept DEF T, O
    <3>4. Helped(t)' /\ Locals(t)' /\ Copier(t)'
      BY <2>4, <2>5, <2>10 DEF Helped, Locals, Copier
    <3>5. LostErase(t)'
      BY <2>4 DEF LostErase
    <3>6. SeenOK(t)'
      <4>1. ~ Finished(t)
        BY <1>1 DEF Finished
      <4> QED
        BY <2>1, <2>2, <2>10, <2>18, <4>1 DEF SeenOK
    <3> QED
      BY <3>2, <3>3, <3>4, <3>5, <3>6 DEF InPlace, Records
  <2> QED
    BY <2>3, <2>6, <2>8, <2>13, <2>14, <2>15, <2>16, <2>17, <2>21, <2>22 DEF IInv, Globals
<1> QED
  BY <1>2, <1>3, Zenon DEF CopyCAS

-----------------------------------------------------------------------------
LEMMA DivAtLeast ==
  ASSUME NEW a \in Nat, NEW n \in Nat \ {0}, NEW q \in Nat, a \div n = q
  PROVE  a >= q * n
OBVIOUS

(* A step that only counts: no bucket changes.                             *)
SameBuckets ==
  /\ Len(tables') = Len(tables) /\ current' = current /\ Evolve
  /\ \A U \in Tables : tables'[U].bucket = tables[U].bucket

LEMMA SameBucketsFacts ==
  ASSUME TypeOK, Chain, SameBuckets
  PROVE  /\ SameKeys /\ Tables' = Tables
         /\ \A U \in Tables : /\ Chunks(U)' = Chunks(U) /\ Buckets(U)' = Buckets(U)
                              /\ KeysIn(tables'[U]) = KeysIn(tables[U])
                              /\ tables'[U].old = tables[U].old
         /\ KeysUnique => KeysUnique'
         /\ KeysReachable => KeysReachable'
<1>1. SameKeys /\ Evolve
  BY DEF SameBuckets, SameKeys
<1> QED
  BY <1>1, SameKeysFacts

(* Whether and by whom a bucket is still to be marked has not changed.     *)
LEMMA CountGlobals ==
  ASSUME IInv, SameBuckets, StayMigrated, ChunksCounted', OneOwner',
         \A U \in 2 .. current : \A c \in Buckets(U - 1) : Ahead(U, c)' <=> Ahead(U, c),
         Migrated(current) => Migrated(current)',
         ~ Migrated(current)' =>
           \A u \in Threads : Copying(u) => Copying(u)' /\ local'[u].b = local[u].b
  PROVE  Globals'
<1>1. /\ TypeOK /\ Chain /\ Len(tables') = Len(tables) /\ current' = current
      /\ \A U \in Tables : tables'[U].bucket = tables[U].bucket
      /\ current \in Tables
  BY FirstMigrated DEF IInv, Globals, SameBuckets
<1>2. /\ Tables' = Tables
      /\ \A U \in Tables : /\ Chunks(U)' = Chunks(U) /\ Buckets(U)' = Buckets(U)
                           /\ KeysIn(tables'[U]) = KeysIn(tables[U])
                           /\ tables'[U].old = tables[U].old
      /\ KeysUnique' /\ KeysReachable'
  BY <1>1, SameBucketsFacts DEF IInv, Globals
<1>3. Chain'
  <2>1. current = Len(tables) /\ current # 0 /\ \A U \in 1 .. current - 1 : U \in Tables
    BY <1>1 DEF Chain, Tables, TypeOK
  <2>2. \A U \in 1 .. current - 1 : Migrated(U)'
    BY <1>1, <2>1 DEF Chain, StayMigrated
  <2>3. \A U \in Tables : tables'[U].old = U - 1
    BY <1>1, <1>2 DEF Chain
  <2> QED
    BY <1>1, <1>2, <2>1, <2>2, <2>3 DEF Chain
<1>4. MarksTellProgress'
  <2> SUFFICES ASSUME NEW U \in 2 .. current, NEW c \in Buckets(U - 1)'
               PROVE  (tables[U - 1].bucket[c].marked <=> ~ Ahead(U, c))'
    BY <1>1 DEF MarksTellProgress
  <2>1. U - 1 \in Tables
    BY <1>1 DEF Chain, Tables, TypeOK
  <2>2. c \in Buckets(U - 1)
    BY <1>2, <2>1
  <2> QED
    BY <1>1, <2>1, <2>2 DEF MarksTellProgress, IInv, Globals
<1>5. CurrentUnmarked'
  BY <1>1, <1>2 DEF CurrentUnmarked, IInv, Globals, Buckets
<1>6. MarkedKeysMove' /\ MovedKeysMarked'
  <2> SUFFICES ASSUME ~ Migrated(current)'
               PROVE  MarkedKeysMove' /\ MovedKeysMarked'
    BY DEF MarkedKeysMove, MovedKeysMarked
  <2>1. ~ Migrated(current)
    OBVIOUS
  <2>2. current - 1 \in Tables
    <3>1. current # 1
      BY <2>1, FirstMigrated DEF IInv, Globals
    <3> QED
      BY <1>1, <3>1 DEF Tables
  <2>3. /\ tables'[current - 1].bucket = tables[current - 1].bucket
        /\ Buckets(current - 1)' = Buckets(current - 1)
        /\ KeysIn(tables'[current]) = KeysIn(tables[current])
    BY <1>1, <1>2, <2>2 DEF Buckets
  <2>4. MarkedKeysMove'
    BY <1>1, <2>1, <2>3 DEF MarkedKeysMove, IInv, Globals
  <2>5. MovedKeysMarked'
    BY <1>1, <2>1, <2>3 DEF MovedKeysMarked, IInv, Globals, Word32
  <2> QED
    BY <2>4, <2>5
<1> QED
  BY <1>2, <1>3, <1>4, <1>5, <1>6 DEF Globals

ClaimSet(s, T) == [s EXCEPT ![T].claimed = @ + 1]

LEMMA Claimed ==
  ASSUME IInv, NEW T \in Tables, current' = current, tables' = ClaimSet(tables, T)
  PROVE  /\ tables' \in Seq(TableSet) /\ SameBuckets /\ StayMigrated
         /\ \A U \in Tables : U # T => tables'[U] = tables[U]
         /\ tables'[T].done = tables[T].done
         /\ tables'[T].claimed = tables[T].claimed + 1
         /\ \A U \in Tables : Migrated(U)' <=> Migrated(U)
         /\ Migrated(current)' <=> Migrated(current)
         /\ Live' = Live
<1>1. TypeOK /\ Chain /\ tables \in Seq(TableSet) /\ T \in 1 .. Len(tables)
      /\ current \in Tables
  BY FirstMigrated DEF IInv, Globals, TypeOK, Tables
<1>2. tables' = [tables EXCEPT ![T].claimed = @ + 1]
  BY Zenon DEF ClaimSet
<1>3. /\ tables' \in Seq(TableSet) /\ Len(tables') = Len(tables)
      /\ \A U \in 1 .. Len(tables) : U # T => tables'[U] = tables[U]
      /\ tables'[T].cap = tables[T].cap /\ tables'[T].old = tables[T].old
      /\ tables'[T].bucket = tables[T].bucket /\ tables'[T].done = tables[T].done
      /\ tables'[T].claimed = tables[T].claimed + 1
  BY <1>1, <1>2, ClaimPut
<1> HIDE <1>2
<1>4. ASSUME NEW U \in Tables
      PROVE  /\ tables'[U].cap = tables[U].cap /\ tables'[U].old = tables[U].old
             /\ tables'[U].bucket = tables[U].bucket /\ tables'[U].done = tables[U].done
             /\ tables[U].claimed <= tables'[U].claimed
             /\ \A c \in Buckets(U) : WordStep(tables[U].bucket[c], tables'[U].bucket[c])
  <2>1. tables[U].claimed \in Nat
    BY <1>1, TableFacts
  <2>2. U \in 1 .. Len(tables)
    BY DEF Tables
  <2> QED
    BY <1>3, <2>1, <2>2 DEF WordStep
<1>5. SameBuckets
  <2>1. Len(tables) <= Len(tables') /\ current <= current'
    BY <1>1, <1>3 DEF TypeOK
  <2> QED
    BY <1>3, <1>4, <2>1 DEF SameBuckets, Evolve
<1>6. \A U \in Tables : Migrated(U)' <=> Migrated(U)
  BY <1>1, <1>4, <1>5, SameBucketsFacts DEF Migrated, Chunks
<1>7. Migrated(current)' <=> Migrated(current)
  BY <1>1, <1>6 DEF Migrated
<1>8. Live' = Live
  <2>1. SameKeys /\ Evolve
    BY <1>1, <1>5, SameBucketsFacts DEF SameBuckets
  <2> QED
    BY <1>7, <2>1, SameKeysLive
<1> QED
  BY <1>3, <1>5, <1>6, <1>7, <1>8 DEF StayMigrated, Tables

-----------------------------------------------------------------------------
(* A thread that claims nothing goes back to the test of the loop.         *)
LEMMA ClaimLate ==
  ASSUME IInv, NEW t \in Threads, local[t].pc = "claim", UNCHANGED quiet,
         tables' = ClaimSet(tables, local[t].help), Goto(t, "expand"),
         ~ (tables[local[t].help].claimed < Chunks(local[t].help))
  PROVE  IInv'
<1> DEFINE T == local[t].help
<1>1. /\ ~ Migrating(t) /\ ~ Finished(t) /\ local[t].pc # "idle"
      /\ local[t].into = 0 /\ local[t].j = 0
      /\ TypeOK /\ Chain /\ InCall(t) /\ Prober(t) /\ SeenOK(t)
      /\ T \in Tables
      /\ current' = current /\ left' = left /\ result' = result /\ seen' = seen
  BY NotMigrating DEF InCall, quiet
<1>2. /\ tables' \in Seq(TableSet) /\ SameBuckets /\ StayMigrated
      /\ \A U \in Tables : U # T => tables'[U] = tables[U]
      /\ tables'[T].done = tables[T].done
      /\ tables'[T].claimed = tables[T].claimed + 1
      /\ Migrated(current)' <=> Migrated(current)
      /\ Live' = Live
  BY <1>1, Claimed
<1>3. /\ local' \in [Threads -> LocalSet] /\ Stay(t)
      /\ local'[t].pc = "expand" /\ SameCall(t) /\ SameProbe(t)
      /\ local'[t].into = 0 /\ local'[t].j = 0
  <2>1. local' = [local EXCEPT ![t] = [local[t] EXCEPT !.pc = "expand"]]
    BY Zenon DEF Goto
  <2> QED
    BY <1>1, <2>1, GotoSame DEF Labels
<1>4. TypeOK' /\ Evolve
  BY <1>1, <1>2, <1>3 DEF TypeOK, SameBuckets
<1>5. /\ Tables' = Tables /\ SameKeys
      /\ \A U \in Tables : /\ Chunks(U)' = Chunks(U) /\ Buckets(U)' = Buckets(U)
                           /\ KeysIn(tables'[U]) = KeysIn(tables[U])
  BY <1>1, <1>2, SameBucketsFacts
<1> HIDE DEF T
<1>6. /\ tables[T].claimed \in Nat /\ Chunks(T) \in Nat
      /\ ~ (tables[T].claimed < Chunks(T))
  BY <1>1, TableFacts, ChunksAre DEF T
<1>7. ~ Migrating(t)' /\ ~ Copying(t)' /\ ~ Finished(t)' /\ ~ Copying(t)
  BY <1>1, <1>3 DEF Migrating, Copying, Finished
<1>8. ASSUME NEW u \in Threads, u # t
      PROVE  /\ local'[u] = local[u] /\ (Migrating(u)' <=> Migrating(u))
             /\ OwnChunk(u)' = OwnChunk(u) /\ (Copying(u)' <=> Copying(u))
             /\ \A c : AheadOf(u, c)' <=> AheadOf(u, c)
  BY <1>3, <1>8, SameView DEF Stay
<1>9. \A U : Helpers(U)' = Helpers(U)
  BY <1>1, <1>7, <1>8 DEF Helpers
<1>10. OneOwner'
  BY <1>1, <1>7, <1>8 DEF OneOwner, IInv, Globals
<1>11. ChunksCounted'
  <2> SUFFICES ASSUME NEW U \in Tables
               PROVE  (tables[U].done + Cardinality(Helpers(U))
                         = Lowest(tables[U].claimed, Chunks(U)))'
    BY <1>5 DEF ChunksCounted
  <2>1. tables[U].done + Cardinality(Helpers(U)) = Lowest(tables[U].claimed, Chunks(U))
    BY DEF ChunksCounted, IInv, Globals
  <2>2. CASE U = T
    BY <1>2, <1>5, <1>6, <1>9, <2>1, <2>2 DEF Lowest
  <2>3. CASE U # T
    BY <1>2, <1>5, <1>9, <2>1, <2>3 DEF Lowest
  <2> QED
    BY <2>2, <2>3
<1>12. ASSUME NEW U \in 2 .. current, NEW c \in Buckets(U - 1)
       PROVE  Ahead(U, c)' <=> Ahead(U, c)
  <2>1. U \in Tables /\ U # 1
    BY <1>1 DEF Chain, Tables, TypeOK
  <2>2. \A u \in Helpers(U) : u # t /\ (AheadOf(u, c)' <=> AheadOf(u, c))
    BY <1>1, <1>8 DEF Helpers
  <2>3. c \div Chunk >= tables'[U].claimed <=> c \div Chunk >= tables[U].claimed
    <3>1. CASE U = T
      <4>1. c \div Chunk < Chunks(T) /\ c \div Chunk \in Nat
        <5>1. c \in Nat /\ Chunk \in Nat \ {0}
          BY ExpandAssumption DEF Buckets
        <5> QED
          BY <1>1, <2>1, <3>1, <5>1, ChunksAre, Dividing
      <4> QED
        BY <1>2, <1>6, <3>1, <4>1
    <3>2. CASE U # T
      BY <1>2, <2>1, <3>2
    <3> QED
      BY <3>1, <3>2
  <2> QED
    BY <1>9, <2>2, <2>3 DEF Ahead
<1>13. Globals'
  <2>1. \A u \in Threads : Copying(u) => Copying(u)' /\ local'[u].b = local[u].b
    BY <1>7, <1>8
  <2> QED
    BY <1>2, <1>10, <1>11, <1>12, <2>1, CountGlobals
<1>14. ASSUME NEW u \in Threads, u # t
       PROVE  InPlace(u)' /\ Copier(u)' /\ Records(u)'
  <2>1. Copying(u) => local[u].found.key \notin KeysIn(tables'[local[u].help])
    BY <1>5, CopyPlace
  <2>2. local'[u] = local[u] /\ seen'[u] = seen[u]
    BY <1>1, <1>8, <1>14
  <2> QED
    BY <1>2, <1>4, <1>5, <2>1, <2>2, OthersKept, SameKeysRecords
<1>15. InPlace(t)' /\ Copier(t)' /\ Records(t)'
  <2>1. InCall(t)' /\ Prober(t)'
    BY <1>1, <1>3, <1>4, InCallKept, ProberKept
  <2>2. Helped(t)' /\ Locals(t)' /\ Owner(t)' /\ Copier(t)'
    BY <1>3, <1>7 DEF Helped, Locals, Owner, Copier
  <2>3. Records(t)'
    BY <1>1, <1>2, <1>3, <1>7 DEF Records, LostErase, SeenOK
  <2> QED
    BY <2>1, <2>2, <2>3 DEF InPlace
<1> QED
  BY <1>4, <1>13, <1>14, <1>15 DEF IInv

ReadMore(x, p, n) == [x EXCEPT !.pc = p, !.b = n]

LEMMA ReadOn ==
  ASSUME NEW x \in LocalSet, NEW p \in Labels, NEW n \in Nat
  PROVE  LET y == ReadMore(x, p, n) IN
         /\ y \in LocalSet
         /\ y.op = x.op /\ y.key = x.key /\ y.tab = x.tab /\ y.i = x.i
         /\ y.help = x.help /\ y.restart = x.restart
         /\ y.into = x.into /\ y.j = x.j /\ y.pc = p /\ y.b = n
BY DEF LocalSet, ReadMore

LEMMA ReadSame ==
  ASSUME TypeOK, NEW t \in Threads, NEW p \in Labels, NEW n \in Nat,
         local' = [local EXCEPT ![t] = ReadMore(local[t], p, n)]
  PROVE  /\ local' \in [Threads -> LocalSet] /\ Stay(t)
         /\ SameCall(t) /\ SameProbe(t) /\ local'[t].pc = p /\ local'[t].b = n
         /\ local'[t].into = local[t].into /\ local'[t].j = local[t].j
<1> DEFINE x == local[t]
           l == ReadMore(x, p, n)
<1>1. x \in LocalSet
  BY LocalFacts
<1> HIDE DEF x
<1>2. /\ l \in LocalSet
      /\ l.op = x.op /\ l.key = x.key /\ l.tab = x.tab /\ l.i = x.i
      /\ l.help = x.help /\ l.restart = x.restart
      /\ l.into = x.into /\ l.j = x.j /\ l.pc = p /\ l.b = n
  BY <1>1, ReadOn
<1>3. local' = [local EXCEPT ![t] = l]
  BY DEF x
<1> HIDE DEF l
<1>4. local' \in [Threads -> LocalSet] /\ Stay(t) /\ local'[t] = l
  BY <1>2, <1>3 DEF TypeOK, Stay
<1> QED
  BY <1>2, <1>4 DEF x, SameCall, SameProbe

(* The chunk is claimed: all of its buckets are ahead of the thread now.   *)
LEMMA ClaimChunk ==
  ASSUME IInv, NEW t \in Threads, local[t].pc = "claim", UNCHANGED quiet,
         tables' = ClaimSet(tables, local[t].help),
         local' = [local EXCEPT ![t] =
                     ReadMore(local[t], "read", tables[local[t].help].claimed * Chunk)],
         tables[local[t].help].claimed < Chunks(local[t].help)
  PROVE  IInv'
<1> SUFFICES ASSUME NEW T, T = local[t].help, NEW q, q = tables[T].claimed
             PROVE  IInv'
  OBVIOUS
<1>1. /\ ~ Migrating(t) /\ ~ Finished(t) /\ local[t].pc # "idle"
      /\ local[t].into = 0 /\ local[t].j = 0
      /\ TypeOK /\ Chain /\ InCall(t) /\ Prober(t) /\ SeenOK(t)
      /\ T \in Tables /\ ChunksCounted /\ OneOwner
      /\ current' = current /\ left' = left /\ result' = result /\ seen' = seen
  BY NotMigrating DEF InCall, quiet, IInv, Globals
<1>2. /\ tables' \in Seq(TableSet) /\ SameBuckets /\ StayMigrated
      /\ \A U \in Tables : U # T => tables'[U] = tables[U]
      /\ tables'[T].done = tables[T].done
      /\ tables'[T].claimed = q + 1
      /\ Migrated(current)' <=> Migrated(current)
      /\ Live' = Live
  BY <1>1, Claimed
<1>3. /\ q \in Nat /\ Chunks(T) \in Nat /\ q < Chunks(T) /\ q * Chunk \in Nat
      /\ Chunk \in Nat \ {0}
  BY <1>1, TableFacts, ChunksAre, ExpandAssumption
<1>4. /\ local' \in [Threads -> LocalSet] /\ Stay(t) /\ SameCall(t) /\ SameProbe(t)
      /\ local'[t].pc = "read" /\ local'[t].b = q * Chunk
      /\ local'[t].into = 0 /\ local'[t].j = 0
  BY <1>1, <1>3, ReadSame DEF Labels
<1>5. TypeOK' /\ Evolve
  BY <1>1, <1>2, <1>4 DEF TypeOK, SameBuckets
<1>6. /\ Tables' = Tables /\ SameKeys
      /\ \A U \in Tables : /\ Chunks(U)' = Chunks(U) /\ Buckets(U)' = Buckets(U)
                           /\ KeysIn(tables'[U]) = KeysIn(tables[U])
                           /\ tables'[U].old = tables[U].old
  BY <1>1, <1>2, SameBucketsFacts
<1>7. T # 1 /\ T - 1 \in Tables /\ tables[T].old = T - 1
  <2>1. T # 1
    BY <1>1, <1>3, ChunksAre
  <2> QED
    BY <1>1, <2>1, ChunksAre DEF Chain
<1>8. T = current
  <2>1. tables[T].done \in Nat /\ Cardinality(Helpers(T)) \in Nat
    BY <1>1, TableFacts, HelpersFinite
  <2>2. tables[T].done < Chunks(T)
    BY <1>1, <1>3, <2>1 DEF ChunksCounted, Lowest
  <2>3. ~ Migrated(T)
    BY <2>1, <2>2 DEF Migrated, Chunks
  <2> QED
    BY <1>1, <2>3 DEF Chain, Tables, TypeOK
<1>9. local'[t].help = T /\ Migrating(t)' /\ ~ Copying(t)' /\ ~ Finished(t)' /\ ~ Copying(t)
  BY <1>1, <1>4 DEF Migrating, Copying, Finished, SameCall
<1>10. OwnChunk(t)' = q
  <2>1. OwnChunk(t)' = (q * Chunk) \div Chunk
    BY <1>4 DEF OwnChunk
  <2> QED
    BY <1>3, <2>1, DivOfProduct
<1>11. ASSUME NEW u \in Threads, u # t
       PROVE  /\ local'[u] = local[u] /\ (Migrating(u)' <=> Migrating(u))
              /\ OwnChunk(u)' = OwnChunk(u) /\ (Copying(u)' <=> Copying(u))
              /\ \A c : AheadOf(u, c)' <=> AheadOf(u, c)
  BY <1>4, <1>11, SameView DEF Stay
<1>12. /\ Helpers(T)' = Helpers(T) \cup {t} /\ t \notin Helpers(T)
       /\ \A U : U # T => Helpers(U)' = Helpers(U)
  BY <1>1, <1>9, <1>11 DEF Helpers
<1>13. ASSUME NEW u \in Threads, Migrating(u)
       PROVE  OwnChunk(u) \in Nat /\ OwnChunk(u) < q
  <2>1. InCall(u) /\ Locals(u) /\ Owner(u)
    BY DEF IInv, InPlace
  <2>2. /\ local[u].help \in Tables /\ OwnChunk(u) \in Nat
        /\ OwnChunk(u) < tables[local[u].help].claimed
    BY <1>1, <1>13, <2>1, HelperPlace
  <2>3. local[u].help = current
    BY <1>1, <1>13, <2>2, BusyIsCurrent DEF Helpers
  <2> QED
    BY <1>8, <2>2, <2>3
<1>14. OneOwner'
  <2> SUFFICES ASSUME NEW u \in Threads, NEW v \in Threads, Migrating(u)', Migrating(v)',
                      OwnChunk(u)' = OwnChunk(v)'
               PROVE  u = v
    BY DEF OneOwner
  <2>1. CASE u # t /\ v # t
    BY <1>1, <1>11, <2>1 DEF OneOwner
  <2>2. CASE u = t /\ v # t
    BY <1>3, <1>10, <1>11, <1>13, <2>2
  <2>3. CASE u # t /\ v = t
    BY <1>3, <1>10, <1>11, <1>13, <2>3
  <2> QED
    BY <2>1, <2>2, <2>3
<1>15. ChunksCounted'
  <2> SUFFICES ASSUME NEW U \in Tables
               PROVE  (tables[U].done + Cardinality(Helpers(U))
                         = Lowest(tables[U].claimed, Chunks(U)))'
    BY <1>6 DEF ChunksCounted
  <2>1. tables[U].done + Cardinality(Helpers(U)) = Lowest(tables[U].claimed, Chunks(U))
    BY <1>1 DEF ChunksCounted
  <2>2. CASE U = T
    <3>1. Cardinality(Helpers(T)') = Cardinality(Helpers(T)) + 1
      BY <1>12, HelpersFinite, FS_AddElement
    <3>2. tables[T].done \in Nat /\ Cardinality(Helpers(T)) \in Nat
      BY <1>1, TableFacts, HelpersFinite
    <3>3. tables[T].done + Cardinality(Helpers(T)) = q
      BY <1>3, <2>1, <2>2 DEF Lowest
    <3>4. Lowest(q + 1, Chunks(T)) = q + 1
      BY <1>3 DEF Lowest
    <3>5. Chunks(T)' = Chunks(T)
      BY <1>1, <1>6
    <3>6. tables'[T].done + Cardinality(Helpers(T)') = q + 1
      <4>1. tables'[T].done = tables[T].done
        BY <1>2
      <4>2. tables'[T].done + Cardinality(Helpers(T)')
              = tables[T].done + (Cardinality(Helpers(T)) + 1)
        BY <3>1, <4>1
      <4> QED
        BY <1>3, <3>2, <3>3, <4>2
    <3>7. tables'[T].done + Cardinality(Helpers(T)') = Lowest(tables'[T].claimed, Chunks(T)')
      BY <1>2, <3>4, <3>5, <3>6
    <3> QED
      BY <2>2, <3>7 DEF Lowest
  <2>3. CASE U # T
    BY <1>2, <1>6, <1>12, <2>1, <2>3 DEF Lowest
  <2> QED
    BY <2>2, <2>3
<1>16. ASSUME NEW U \in 2 .. current, NEW c \in Buckets(U - 1)
       PROVE  Ahead(U, c)' <=> Ahead(U, c)
  <2>1. U \in Tables /\ U # 1
    BY <1>1 DEF Chain, Tables, TypeOK
  <2>2. \A u \in Helpers(U) : u # t /\ (AheadOf(u, c)' <=> AheadOf(u, c))
    BY <1>1, <1>11 DEF Helpers
  <2>3. CASE U = T
    <3>1. c \in Nat /\ c \div Chunk \in Nat
      BY <1>3, Dividing DEF Buckets
    <3>2. AheadOf(t, c)' <=> c \div Chunk = q
      <4>1. c \div Chunk = q => c >= q * Chunk
        BY <1>3, <3>1, DivAtLeast
      <4> QED
        BY <1>3, <1>4, <1>10, <3>1, <4>1 DEF AheadOf
    <3>3. c \div Chunk >= q <=> c \div Chunk >= q + 1 \/ c \div Chunk = q
      BY <1>3, <3>1
    <3>4. tables'[U].claimed = q + 1 /\ tables[U].claimed = q
      BY <1>2, <2>3
    <3> QED
      BY <1>12, <2>2, <2>3, <3>2, <3>3, <3>4 DEF Ahead
  <2>4. CASE U # T
    BY <1>2, <1>12, <2>1, <2>2, <2>4 DEF Ahead
  <2> QED
    BY <2>3, <2>4
<1>17. Globals'
  <2>1. \A u \in Threads : Copying(u) => Copying(u)' /\ local'[u].b = local[u].b
    BY <1>9, <1>11
  <2> QED
    BY <1>2, <1>14, <1>15, <1>16, <2>1, CountGlobals
<1>18. ASSUME NEW u \in Threads, u # t
       PROVE  InPlace(u)' /\ Copier(u)' /\ Records(u)'
  <2>1. Copying(u) => local[u].found.key \notin KeysIn(tables'[local[u].help])
    BY <1>6, CopyPlace
  <2>2. local'[u] = local[u] /\ seen'[u] = seen[u]
    BY <1>1, <1>11, <1>18
  <2> QED
    BY <1>2, <1>5, <1>6, <2>1, <2>2, OthersKept, SameKeysRecords
<1>19. InPlace(t)' /\ Copier(t)' /\ Records(t)'
  <2>1. InCall(t)' /\ Prober(t)'
    BY <1>1, <1>4, <1>5, InCallKept, ProberKept
  <2>2. Helped(t)' /\ Locals(t)' /\ Copier(t)'
    BY <1>4, <1>9 DEF Helped, Locals, Copier
  <2>3. Owner(t)'
    <3>1. q * Chunk \in Buckets(T - 1)
      <4>1. Chunks(T) = (tables[T - 1].cap + Chunk - 1) \div Chunk
        BY <1>1, <1>7, ChunksAre
      <4>2. tables[T - 1].cap \in Nat
        BY <1>1, <1>7, TableFacts
      <4> HIDE DEF Chunks
      <4>3. q * Chunk < tables[T - 1].cap
        BY <1>3, <4>1, <4>2, CeilInside
      <4> QED
        BY <1>3, <4>2, <4>3 DEF Buckets
    <3>2. Buckets(T - 1)' = Buckets(T - 1) /\ tables'[T].old = T - 1
      BY <1>6, <1>7, <1>1
    <3>3. local'[t].b \in Buckets(tables[local[t].help].old)'
      BY <1>4, <1>9, <3>1, <3>2 DEF Buckets
    <3>4. OwnChunk(t)' \in 0 .. Lowest(tables'[T].claimed, Chunks(T)') - 1
      BY <1>1, <1>2, <1>3, <1>6, <1>10 DEF Lowest
    <3>5. OwnChunk(t)' \in 0 .. Lowest(tables[local[t].help].claimed, Chunks(local[t].help))' - 1
      BY <1>9, <3>4 DEF Lowest, Chunks
    <3> QED
      BY <1>4, <3>3, <3>5 DEF Owner
  <2>4. Records(t)'
    BY <1>1, <1>2, <1>4, <1>9 DEF Records, LostErase, SeenOK
  <2> QED
    BY <2>1, <2>2, <2>3, <2>4 DEF InPlace
<1> QED
  BY <1>5, <1>17, <1>18, <1>19 DEF IInv

LEMMA HelpClaimKeeps == ASSUME IInv, NEW t \in Threads, HelpClaim(t) PROVE IInv'
<1> DEFINE T == local[t].help
           c == tables[T].claimed
<1>1. local[t].pc = "claim" /\ UNCHANGED quiet
  BY DEF HelpClaim
<1>2. tables' = ClaimSet(tables, T)
  BY Zenon DEF HelpClaim, ClaimSet
<1>3. CASE c < OldChunks(tables, T)
  <2>1. local' = [local EXCEPT ![t] = ReadMore(local[t], "read", c * Chunk)]
    BY <1>3, Zenon DEF HelpClaim, ReadMore
  <2> QED
    BY <1>1, <1>2, <1>3, <2>1, ClaimChunk DEF Chunks
<1>4. CASE ~ (c < OldChunks(tables, T))
  <2>1. Goto(t, "expand")
    BY <1>4, Zenon DEF HelpClaim
  <2> QED
    BY <1>1, <1>2, <1>4, <2>1, ClaimLate DEF Chunks
<1> QED
  BY <1>3, <1>4

-----------------------------------------------------------------------------
DoneSet(s, T) == [s EXCEPT ![T].done = @ + 1]

LEMMA Counted1 ==
  ASSUME IInv, NEW T \in Tables, ~ Migrated(T), current' = current,
         tables' = DoneSet(tables, T)
  PROVE  /\ tables' \in Seq(TableSet) /\ SameBuckets /\ StayMigrated
         /\ \A U \in Tables : U # T => tables'[U] = tables[U]
         /\ tables'[T].done = tables[T].done + 1
         /\ tables'[T].claimed = tables[T].claimed
<1>1. TypeOK /\ Chain /\ tables \in Seq(TableSet) /\ T \in 1 .. Len(tables)
  BY DEF IInv, Globals, TypeOK, Tables
<1>2. tables' = [tables EXCEPT ![T].done = @ + 1]
  BY Zenon DEF DoneSet
<1>3. /\ tables' \in Seq(TableSet) /\ Len(tables') = Len(tables)
      /\ \A U \in 1 .. Len(tables) : U # T => tables'[U] = tables[U]
      /\ tables'[T].cap = tables[T].cap /\ tables'[T].old = tables[T].old
      /\ tables'[T].bucket = tables[T].bucket /\ tables'[T].claimed = tables[T].claimed
      /\ tables'[T].done = tables[T].done + 1
  BY <1>1, <1>2, DonePut
<1> HIDE <1>2
<1>4. ASSUME NEW U \in Tables
      PROVE  /\ tables'[U].cap = tables[U].cap /\ tables'[U].old = tables[U].old
             /\ tables'[U].bucket = tables[U].bucket
             /\ tables[U].claimed <= tables'[U].claimed
             /\ \A c \in Buckets(U) : WordStep(tables[U].bucket[c], tables'[U].bucket[c])
  <2>1. tables[U].claimed \in Nat
    BY <1>1, TableFacts
  <2>2. U \in 1 .. Len(tables)
    BY DEF Tables
  <2> QED
    BY <1>3, <2>1, <2>2 DEF WordStep
<1>5. SameBuckets
  <2>1. Len(tables) <= Len(tables') /\ current <= current'
    BY <1>1, <1>3 DEF TypeOK
  <2> QED
    BY <1>3, <1>4, <2>1 DEF SameBuckets, Evolve
<1>6. StayMigrated
  <2> SUFFICES ASSUME NEW U \in Tables, Migrated(U)
               PROVE  Migrated(U)'
    BY DEF StayMigrated
  <2>1. tables'[U].done = tables[U].done
    BY <1>3 DEF Tables
  <2> QED
    BY <1>1, <1>5, <2>1, SameBucketsFacts DEF Migrated, Chunks
<1> QED
  BY <1>3, <1>5, <1>6 DEF Tables

(* Nothing is ahead of a thread at the end of its chunk.                   *)
LEMMA MovedPast ==
  ASSUME IInv, NEW t \in Threads, local[t].pc = "moved",
         NEW c \in Buckets(local[t].help - 1)
  PROVE  ~ AheadOf(t, c)
<1> SUFFICES ASSUME AheadOf(t, c)
             PROVE  FALSE
  OBVIOUS
<1> DEFINE T == local[t].help
           a == local[t].b - 1
<1>1. TypeOK /\ Chain /\ InCall(t) /\ Locals(t) /\ Owner(t) /\ Migrating(t)
  BY DEF IInv, Globals, InPlace, Migrating
<1>2. /\ T - 1 \in Tables /\ OldOf(T) = tables[T - 1]
  BY <1>1, HelperPlace
<1>3. c \in Nat /\ c < tables[T - 1].cap /\ Chunk \in Nat \ {0} /\ local[t].b \in Nat
  BY <1>1, <1>2, TableFacts, LocalFacts, ExpandAssumption DEF Buckets
<1>4. c \div Chunk = a \div Chunk /\ c > local[t].b
  BY DEF AheadOf, OwnChunk
<1>5. local[t].b > 0 /\ (local[t].b % Chunk = 0 \/ local[t].b = tables[T - 1].cap)
  BY <1>1, <1>2 DEF Owner
<1>6. a \in Nat /\ a + 1 = local[t].b /\ c > a
  BY <1>3, <1>4, <1>5
<1>7. (a + 1) % Chunk = 0
  <2>1. tables[T - 1].cap \in Nat
    BY <1>1, <1>2, TableFacts
  <2> QED
    BY <1>3, <1>4, <1>5, <1>6, <2>1
<1> HIDE DEF a
<1> QED
  BY <1>3, <1>4, <1>6, <1>7, DivEnd

(* The thread that moves the last chunk leaves no bucket unmarked, and no  *)
(* key out of the new table.                                               *)
LEMMA LastChunk ==
  ASSUME IInv, NEW t \in Threads, local[t].pc = "moved",
         tables[local[t].help].done + 1 = Chunks(local[t].help)
  PROVE  KeysIn(tables[current]) = KeysIn(tables[current - 1])
<1> SUFFICES ASSUME NEW T, T = local[t].help
             PROVE  KeysIn(tables[current]) = KeysIn(tables[current - 1])
  OBVIOUS
<1>1. /\ TypeOK /\ Chain /\ ChunksCounted /\ Migrating(t) /\ ~ Copying(t)
      /\ InCall(t) /\ Locals(t) /\ Owner(t)
  BY DEF IInv, Globals, InPlace, Migrating, Copying
<1>2. T \in Tables /\ T # 1 /\ T - 1 \in Tables /\ Chunks(T) \in Nat
      /\ OwnChunk(t) \in Nat
  BY <1>1, HelperPlace
<1>3. t \in Helpers(T) /\ T = current /\ ~ Migrated(current)
  <2>1. t \in Helpers(T)
    BY <1>1 DEF Helpers
  <2>2. ~ Migrated(T) /\ T = current
    BY <1>1, <1>2, <2>1, BusyIsCurrent
  <2> QED
    BY <2>1, <2>2
<1>4. Helpers(T) = {t} /\ tables[T].claimed \in Nat /\ tables[T].claimed >= Chunks(T)
  <2>1. /\ tables[T].done \in Nat /\ tables[T].claimed \in Nat
        /\ tables[T].done + Cardinality(Helpers(T)) = Lowest(tables[T].claimed, Chunks(T))
        /\ Cardinality(Helpers(T)) \in Nat /\ IsFiniteSet(Helpers(T))
    BY <1>1, <1>2, TableFacts, HelpersFinite DEF ChunksCounted
  <2>2. Cardinality(Helpers(T)) # 0
    BY <1>3, <2>1, FS_EmptySet
  <2>3. Cardinality(Helpers(T)) = 1 /\ tables[T].claimed >= Chunks(T)
    BY <1>2, <2>1, <2>2 DEF Lowest
  <2>4. PICK x : Helpers(T) = {x}
    BY <2>1, <2>3, FS_Singleton
  <2> QED
    BY <1>3, <2>1, <2>3, <2>4
<1>5. ASSUME NEW c \in Buckets(T - 1)
      PROVE  tables[T - 1].bucket[c].marked
  <2>1. c \in Nat /\ Chunk \in Nat \ {0}
    BY ExpandAssumption DEF Buckets
  <2>2. ~ AheadOf(t, c)
    BY MovedPast
  <2>3. ~ (c \div Chunk >= tables[T].claimed)
    <3>1. c \div Chunk \in Nat
      BY <2>1, Dividing
    <3>2. c \div Chunk < Chunks(T)
      BY <1>1, <1>2, ChunksAre
    <3> QED
      BY <1>2, <1>4, <3>1, <3>2
  <2>4. ~ Ahead(T, c)
    BY <1>4, <2>2, <2>3 DEF Ahead
  <2>5. T \in 2 .. current
    BY <1>1, <1>2, <1>3 DEF Tables, Chain, TypeOK
  <2> QED
    BY <2>4, <2>5 DEF MarksTellProgress, IInv, Globals
<1>6. ASSUME NEW u \in Threads
      PROVE  ~ Copying(u)
  <2> SUFFICES ASSUME Copying(u)
               PROVE  FALSE
    OBVIOUS
  <2>1. u \in Helpers(T)
    BY <1>3, CopyPlace DEF Helpers
  <2> QED
    BY <1>1, <1>4, <2>1
<1>7. KeysIn(tables[T - 1]) \subseteq KeysIn(tables[T])
  <2> SUFFICES ASSUME NEW c \in Buckets(T - 1), tables[T - 1].bucket[c].key \in Keys
               PROVE  tables[T - 1].bucket[c].key \in KeysIn(tables[T])
    BY DEF KeysIn, Buckets
  <2> QED
    BY <1>3, <1>5, <1>6 DEF MarkedKeysMove, IInv, Globals
<1>8. KeysIn(tables[T]) \subseteq KeysIn(tables[T - 1])
  <2> SUFFICES ASSUME NEW k \in KeysIn(tables[T])
               PROVE  k \in KeysIn(tables[T - 1])
    OBVIOUS
  <2>1. PICK c \in Buckets(T - 1) : tables[T - 1].bucket[c] = Word32(k, TRUE)
    BY <1>3 DEF MovedKeysMarked, IInv, Globals
  <2> QED
    BY <2>1 DEF KeysIn, Buckets, Word32
<1> QED
  BY <1>3, <1>7, <1>8

LEMMA ChunkDoneKeeps ==
  ASSUME IInv, NEW t \in Threads, ChunkDone(t)
  PROVE  IInv' /\ Moves(t)
<1> SUFFICES ASSUME NEW T, T = local[t].help
             PROVE  IInv' /\ Moves(t)
  OBVIOUS
<1>1. /\ local[t].pc = "moved" /\ TypeOK /\ Chain /\ ChunksCounted /\ OneOwner
      /\ Migrating(t) /\ ~ Copying(t) /\ ~ Finished(t)
      /\ InCall(t) /\ Locals(t) /\ Owner(t) /\ Prober(t) /\ SeenOK(t)
      /\ local[t].into = 0 /\ local[t].j = 0
      /\ current' = current /\ left' = left /\ result' = result /\ seen' = seen
  BY DEF ChunkDone, IInv, Globals, InPlace, Records, Migrating, Copying, Finished, Locals,
         quiet
<1>2. T \in Tables /\ T # 1 /\ T - 1 \in Tables /\ Chunks(T) \in Nat
      /\ OwnChunk(t) \in Nat
  BY <1>1, HelperPlace
<1>3. t \in Helpers(T) /\ T = current /\ ~ Migrated(T) /\ ~ Migrated(current)
  <2>1. t \in Helpers(T)
    BY <1>1 DEF Helpers
  <2>2. ~ Migrated(T) /\ T = current
    BY <1>1, <1>2, <2>1, BusyIsCurrent
  <2> QED
    BY <2>1, <2>2
<1>4. /\ tables' \in Seq(TableSet) /\ SameBuckets /\ StayMigrated
      /\ \A U \in Tables : U # T => tables'[U] = tables[U]
      /\ tables'[T].done = tables[T].done + 1
      /\ tables'[T].claimed = tables[T].claimed
  <2>1. tables' = DoneSet(tables, T)
    BY Zenon DEF ChunkDone, DoneSet
  <2> QED
    BY <1>1, <1>2, <1>3, <2>1, Counted1
<1>5. /\ local' \in [Threads -> LocalSet] /\ Stay(t) /\ SameCall(t) /\ SameProbe(t)
      /\ local'[t].pc = "expand" /\ local'[t].into = 0 /\ local'[t].j = 0
  <2>1. local' = [local EXCEPT ![t] = ReadMore(local[t], "expand", 0)]
    BY Zenon DEF ChunkDone, ReadMore
  <2> QED
    BY <1>1, <2>1, ReadSame DEF Labels
<1>6. TypeOK' /\ Evolve
  BY <1>1, <1>4, <1>5 DEF TypeOK, SameBuckets
<1>7. /\ Tables' = Tables /\ SameKeys
      /\ \A U \in Tables : /\ Chunks(U)' = Chunks(U) /\ Buckets(U)' = Buckets(U)
                           /\ KeysIn(tables'[U]) = KeysIn(tables[U])
                           /\ tables'[U].old = tables[U].old
  BY <1>1, <1>4, SameBucketsFacts
<1>8. ~ Migrating(t)' /\ ~ Copying(t)' /\ ~ Finished(t)'
  BY <1>5 DEF Migrating, Copying, Finished
<1>9. ASSUME NEW u \in Threads, u # t
      PROVE  /\ local'[u] = local[u] /\ (Migrating(u)' <=> Migrating(u))
             /\ OwnChunk(u)' = OwnChunk(u) /\ (Copying(u)' <=> Copying(u))
             /\ \A c : AheadOf(u, c)' <=> AheadOf(u, c)
  BY <1>5, <1>9, SameView DEF Stay
<1>10. /\ Helpers(T)' = Helpers(T) \ {t}
       /\ \A U : U # T => Helpers(U)' = Helpers(U)
  BY <1>1, <1>8, <1>9 DEF Helpers
<1>11. OneOwner'
  BY <1>1, <1>8, <1>9 DEF OneOwner
<1>12. ChunksCounted'
  <2> SUFFICES ASSUME NEW U \in Tables
               PROVE  (tables[U].done + Cardinality(Helpers(U))
                         = Lowest(tables[U].claimed, Chunks(U)))'
    BY <1>7 DEF ChunksCounted
  <2>1. tables[U].done + Cardinality(Helpers(U)) = Lowest(tables[U].claimed, Chunks(U))
    BY <1>1 DEF ChunksCounted
  <2>2. CASE U = T
    <3>1. Cardinality(Helpers(T)') = Cardinality(Helpers(T)) - 1
      BY <1>3, <1>10, HelpersFinite, FS_RemoveElement
    <3>2. tables[T].done \in Nat /\ Cardinality(Helpers(T)) \in Nat
      BY <1>1, <1>2, TableFacts, HelpersFinite
    <3>3. Chunks(T)' = Chunks(T)
      BY <1>2, <1>7
    <3>4. tables'[T].done + Cardinality(Helpers(T)')
            = (tables[T].done + 1) + (Cardinality(Helpers(T)) - 1)
      BY <1>4, <3>1
    <3>5. tables'[T].done + Cardinality(Helpers(T)')
            = tables[T].done + Cardinality(Helpers(T))
      BY <3>2, <3>4
    <3>6. tables'[T].done + Cardinality(Helpers(T)') = Lowest(tables'[T].claimed, Chunks(T)')
      BY <1>4, <2>1, <2>2, <3>3, <3>5
    <3> QED
      BY <2>2, <3>6 DEF Lowest
  <2>3. CASE U # T
    BY <1>4, <1>7, <1>10, <2>1, <2>3 DEF Lowest
  <2> QED
    BY <2>2, <2>3
<1>13. ASSUME NEW U \in 2 .. current, NEW c \in Buckets(U - 1)
       PROVE  Ahead(U, c)' <=> Ahead(U, c)
  <2>1. U \in Tables /\ U # 1
    BY <1>1 DEF Chain, Tables, TypeOK
  <2>2. \A u \in Helpers(U) : u # t => (AheadOf(u, c)' <=> AheadOf(u, c))
    BY <1>9 DEF Helpers
  <2>3. tables'[U].claimed = tables[U].claimed
    BY <1>4, <2>1
  <2>4. CASE U = T
    <3>1. ~ AheadOf(t, c)
      BY <1>1, <2>4, MovedPast
    <3> QED
      BY <1>10, <2>2, <2>3, <2>4, <3>1 DEF Ahead
  <2>5. CASE U # T
    <3>1. t \notin Helpers(U)
      BY <2>5 DEF Helpers
    <3> QED
      BY <1>10, <2>2, <2>3, <2>5, <3>1 DEF Ahead
  <2> QED
    BY <2>4, <2>5
<1>14. Globals'
  <2>1. \A u \in Threads : Copying(u) => Copying(u)' /\ local'[u].b = local[u].b
    BY <1>1, <1>9
  <2> QED
    BY <1>3, <1>4, <1>11, <1>12, <1>13, <2>1, CountGlobals
<1>15. Live' = Live
  <2>1. tables'[current].old = T - 1 /\ tables[current].old = T - 1
    BY <1>1, <1>2, <1>3, <1>7 DEF Chain
  <2>2. KeysIn(tables'[T]) = KeysIn(tables[T]) /\ KeysIn(tables'[T - 1]) = KeysIn(tables[T - 1])
    BY <1>2, <1>7
  <2>3. Live = KeysIn(tables[T - 1])
    BY <1>3, <2>1 DEF Live, LiveIn, Migrated
  <2>4. CASE tables'[current].done = OldChunks(tables', current)
    <3>1. tables[T].done + 1 = Chunks(T)
      <4>1. OldChunks(tables', T) = Chunks(T)
        BY <1>2, <1>7 DEF Chunks
      <4> QED
        BY <1>3, <1>4, <2>4, <4>1
    <3>2. KeysIn(tables[T]) = KeysIn(tables[T - 1])
      BY <1>1, <1>3, <3>1, LastChunk
    <3> QED
      BY <1>1, <1>3, <2>2, <2>3, <2>4, <3>2 DEF Live, LiveIn
  <2>5. CASE tables'[current].done # OldChunks(tables', current)
    BY <1>1, <2>1, <2>2, <2>3, <2>5 DEF Live, LiveIn
  <2> QED
    BY <2>4, <2>5
<1>16. ASSUME NEW u \in Threads, u # t
       PROVE  InPlace(u)' /\ Copier(u)' /\ Records(u)'
  <2>1. Copying(u) => local[u].found.key \notin KeysIn(tables'[local[u].help])
    BY <1>7, CopyPlace
  <2>2. local'[u] = local[u] /\ seen'[u] = seen[u]
    BY <1>1, <1>9, <1>16
  <2> QED
    BY <1>4, <1>6, <1>7, <1>15, <2>1, <2>2, OthersKept, SameKeysRecords
<1>17. InPlace(t)' /\ Copier(t)' /\ Records(t)'
  <2>1. InCall(t)' /\ Prober(t)'
    BY <1>1, <1>5, <1>6, InCallKept, ProberKept
  <2>2. Helped(t)' /\ Locals(t)' /\ Owner(t)' /\ Copier(t)'
    BY <1>5, <1>8 DEF Helped, Locals, Owner, Copier
  <2>3. Records(t)'
    BY <1>1, <1>5, <1>8, <1>15 DEF Records, LostErase, SeenOK
  <2> QED
    BY <2>1, <2>2, <2>3 DEF InPlace
<1>18. Moves(t)
  BY <1>5, <1>6, <1>15 DEF Moves, SameCall, SameProbe
<1> QED
  BY <1>6, <1>14, <1>16, <1>17, <1>18 DEF IInv

-----------------------------------------------------------------------------
CapMore(x, p, n) == [x EXCEPT !.pc = p, !.cap = n]

LEMMA CapOn ==
  ASSUME NEW x \in LocalSet, NEW p \in Labels, NEW n \in Nat
  PROVE  LET y == CapMore(x, p, n) IN
         /\ y \in LocalSet
         /\ y.op = x.op /\ y.key = x.key /\ y.tab = x.tab /\ y.i = x.i
         /\ y.help = x.help /\ y.restart = x.restart
         /\ y.into = x.into /\ y.j = x.j /\ y.pc = p /\ y.cap = n
BY DEF LocalSet, CapMore

LEMMA CapSame ==
  ASSUME TypeOK, NEW t \in Threads, NEW p \in Labels, NEW n \in Nat,
         local' = [local EXCEPT ![t] = CapMore(local[t], p, n)]
  PROVE  /\ local' \in [Threads -> LocalSet] /\ Stay(t)
         /\ SameCall(t) /\ SameProbe(t) /\ local'[t].pc = p /\ local'[t].cap = n
         /\ local'[t].into = local[t].into /\ local'[t].j = local[t].j
<1> DEFINE x == local[t]
           l == CapMore(x, p, n)
<1>1. x \in LocalSet
  BY LocalFacts
<1> HIDE DEF x
<1>2. /\ l \in LocalSet
      /\ l.op = x.op /\ l.key = x.key /\ l.tab = x.tab /\ l.i = x.i
      /\ l.help = x.help /\ l.restart = x.restart
      /\ l.into = x.into /\ l.j = x.j /\ l.pc = p /\ l.cap = n
  BY <1>1, CapOn
<1>3. local' = [local EXCEPT ![t] = l]
  BY DEF x
<1> HIDE DEF l
<1>4. local' \in [Threads -> LocalSet] /\ Stay(t) /\ local'[t] = l
  BY <1>2, <1>3 DEF TypeOK, Stay
<1> QED
  BY <1>2, <1>4 DEF x, SameCall, SameProbe

LEMMA NewTableIs ==
  ASSUME NEW cap \in Nat \ {0}, NEW old \in Nat
  PROVE  LET tab == NewTable(cap, old) IN
         /\ tab \in TableSet /\ tab.cap = cap /\ tab.old = old
         /\ tab.claimed = 0 /\ tab.done = 0
         /\ \A b \in 0 .. cap - 1 : tab.bucket[b] = Vacant
         /\ KeysIn(tab) = {}
<1> DEFINE f == [b \in 0 .. cap - 1 |-> Vacant]
           z == Zero
           n == 0
           tab == NewTable(cap, old)
<1>1. Vacant \in Words /\ Vacant.key = EMPTY
  BY DEF Vacant, Words, Word32
<1>2. f \in [0 .. cap - 1 -> Words] /\ z \in Counters /\ n \in Nat
  BY <1>1 DEF Zero, Counters
<1>3. tab = [cap |-> cap, old |-> old, bucket |-> f, inserts |-> z, deletes |-> z,
             claimed |-> n, done |-> n]
  BY Zenon DEF NewTable
<1>4. \A b \in 0 .. cap - 1 : f[b] = Vacant
  OBVIOUS
<1> HIDE DEF f, z, n, tab
<1>5. tab \in TableSet
  BY <1>2, <1>3, MadeTable
<1>6. tab.cap = cap /\ tab.old = old /\ tab.claimed = n /\ tab.done = n /\ tab.bucket = f
  BY <1>3
<1>7. KeysIn(tab) = {}
  BY <1>1, <1>4, <1>6, KeyFacts DEF KeysIn
<1> QED
  BY <1>4, <1>5, <1>6, <1>7 DEF tab, n

(* Once the migration is complete nobody works at it any more.             *)
LEMMA NobodyMigrates ==
  ASSUME IInv, Migrated(current), NEW u \in Threads
  PROVE  ~ Migrating(u) /\ ~ Copying(u)
<1>1. TypeOK /\ Chain /\ ChunksCounted /\ InCall(u) /\ Locals(u) /\ Owner(u)
  BY DEF IInv, Globals, InPlace
<1>2. ~ Migrating(u)
  <2> SUFFICES ASSUME Migrating(u)
               PROVE  FALSE
    OBVIOUS
  <2>1. local[u].help \in Tables
    BY <1>1, HelperPlace
  <2>2. ~ Migrated(local[u].help) /\ local[u].help = current
    BY <1>1, <2>1, BusyIsCurrent DEF Helpers
  <2> QED
    BY <2>2
<1> QED
  BY <1>1, <1>2, CopyingMigrates

LEMMA PublishLost ==
  ASSUME IInv, NEW t \in Threads, local[t].pc = "swap", UNCHANGED <<tables, current>>,
         local' = [local EXCEPT ![t] = CapMore(local[t], "again", 0)],
         UNCHANGED <<left, result, seen, outcome>>
  PROVE  IInv' /\ Moves(t) /\ (current' # current => Migrated(current))
<1>1. /\ ~ Migrating(t) /\ ~ Finished(t) /\ local[t].pc # "idle"
      /\ local[t].into = 0 /\ local[t].j = 0
      /\ TypeOK /\ Chain /\ InCall(t) /\ Prober(t)
  BY NotMigrating
<1>2. /\ local' \in [Threads -> LocalSet] /\ Stay(t) /\ SameCall(t) /\ SameProbe(t)
      /\ local'[t].pc = "again" /\ local'[t].into = 0 /\ local'[t].j = 0
  BY <1>1, CapSame DEF Labels
<1>3. TypeOK' /\ Quiet
  BY <1>1, <1>2 DEF TypeOK, Quiet, SameSkeleton, SameButBuckets
<1>4. Evolve
  BY <1>1, <1>3, QuietFacts
<1>5. InCall(t)' /\ Prober(t)' /\ Helped(t)' /\ LostErase(t)'
  BY <1>1, <1>2, <1>4, InCallKept, ProberKept DEF Helped, LostErase
<1>6. Moves(t)
  BY <1>2, <1>3, <1>4, QuietLive DEF Moves, SameCall, SameProbe
<1> QED
  BY <1>1, <1>2, <1>3, <1>5, <1>6, FreeStep

(* The new table starts a migration of the one in use.                     *)
LEMMA PublishDone ==
  ASSUME IInv, NEW t \in Threads, local[t].pc = "swap", current = local[t].tab,
         tables' = Append(tables, NewTable(local[t].cap, current)),
         current' = Len(tables) + 1,
         local' = [local EXCEPT ![t] = CapMore(local[t], "again", 0)],
         UNCHANGED <<left, result, seen, outcome>>
  PROVE  IInv' /\ Moves(t) /\ (current' # current => Migrated(current))
<1> SUFFICES ASSUME NEW C, C = current, NEW N, N = C + 1, NEW cap, cap = local[t].cap
             PROVE  IInv' /\ Moves(t) /\ (current' # current => Migrated(current))
  OBVIOUS
<1>1. /\ ~ Migrating(t) /\ ~ Finished(t) /\ local[t].pc # "idle"
      /\ local[t].into = 0 /\ local[t].j = 0
      /\ TypeOK /\ Chain /\ InCall(t) /\ Prober(t) /\ SeenOK(t) /\ Migrated(current)
  <2>1. Helped(t) /\ Migrated(local[t].tab)
    BY NotMigrating DEF Helped
  <2>2. Migrated(current)
    BY <2>1 DEF Migrated
  <2> QED
    BY <2>2, NotMigrating
<1>2. /\ C \in Tables /\ C \in Nat \ {0} /\ Len(tables) = C /\ current' = N
      /\ tables \in Seq(TableSet) /\ cap \in Nat \ {0}
  <2>1. Locals(t)
    BY DEF IInv, InPlace
  <2> QED
    BY <1>1, <2>1, LocalFacts DEF Chain, Tables, TypeOK, Locals
<1> DEFINE tab == NewTable(cap, C)
<1>3. /\ tab \in TableSet /\ tab.cap = cap /\ tab.old = C /\ tab.claimed = 0 /\ tab.done = 0
      /\ \A b \in 0 .. cap - 1 : tab.bucket[b] = Vacant
      /\ KeysIn(tab) = {}
  BY <1>2, NewTableIs
<1> HIDE DEF tab
<1>4. /\ tables' \in Seq(TableSet) /\ Len(tables') = N /\ tables'[N] = tab
      /\ \A U \in Tables : tables'[U] = tables[U]
  <2>1. tables' = Append(tables, tab)
    BY DEF tab
  <2> QED
    BY <1>2, <1>3, <2>1, SeqMore DEF Tables
<1>5. /\ local' \in [Threads -> LocalSet] /\ Stay(t) /\ SameCall(t) /\ SameProbe(t)
      /\ local'[t].pc = "again" /\ local'[t].into = 0 /\ local'[t].j = 0
  BY <1>1, CapSame DEF Labels
<1>6. TypeOK'
  BY <1>1, <1>2, <1>4, <1>5 DEF TypeOK
<1>7. Tables' = Tables \cup {N} /\ N \notin Tables /\ N \in Nat /\ N # 1 /\ N - 1 = C
      /\ Tables = 1 .. C
  BY <1>2, <1>4 DEF Tables
<1>8. Evolve
  <2>1. ASSUME NEW U \in Tables
        PROVE  /\ tables'[U].cap = tables[U].cap /\ tables'[U].old = tables[U].old
               /\ tables[U].claimed <= tables'[U].claimed
               /\ \A b \in Buckets(U) : WordStep(tables[U].bucket[b], tables'[U].bucket[b])
    <3>1. tables[U].claimed \in Nat
      BY <1>1, TableFacts
    <3>2. tables'[U] = tables[U]
      BY <1>4
    <3>3. tables[U].claimed <= tables'[U].claimed
      BY <3>1, <3>2
    <3>4. \A w : WordStep(w, w)
      BY DEF WordStep
    <3> QED
      BY <3>2, <3>3, <3>4
  <2>2. Len(tables) <= Len(tables') /\ current <= current'
    BY <1>2, <1>4
  <2> QED
    BY <2>1, <2>2 DEF Evolve
<1>9. ASSUME NEW U \in Tables
      PROVE  /\ Chunks(U)' = Chunks(U) /\ Buckets(U)' = Buckets(U)
             /\ (Migrated(U)' <=> Migrated(U))
             /\ \A k, n : Slot(U, k, n)' = Slot(U, k, n)
  <2>1. Chunks(U)' = Chunks(U)
    BY <1>1, <1>8, ChunksKept
  <2> QED
    BY <1>4, <2>1 DEF Migrated, Chunks, Buckets, Slot
<1>10. StayMigrated /\ (\A U \in Tables : Migrated(U)')
  <2>1. \A U \in Tables : Migrated(U)
    <3> SUFFICES ASSUME NEW U \in Tables PROVE Migrated(U)
      OBVIOUS
    <3>1. CASE U = C
      <4>1. Migrated(C)
        BY <1>1 DEF Migrated
      <4> QED
        BY <3>1, <4>1
    <3>2. CASE U # C
      <4>1. U \in 1 .. current - 1
        <5>1. U \in 1 .. C
          BY <1>2 DEF Tables
        <5> QED
          BY <1>2, <3>2, <5>1
      <4> QED
        BY <1>1, <4>1 DEF Chain
    <3> QED
      BY <3>1, <3>2
  <2> QED
    BY <1>9, <2>1 DEF StayMigrated
<1>11. Chunks(N)' \in Nat /\ Chunks(N)' > 0
  <2>1. Chunks(N)' = (tables[C].cap + Chunk - 1) \div Chunk
    BY <1>2, <1>3, <1>4 DEF Chunks, OldChunks
  <2>2. tables[C].cap \in Nat \ {0} /\ Chunk \in Nat \ {0}
    BY <1>1, <1>2, TableFacts, ExpandAssumption
  <2> DEFINE c == tables[C].cap
             z == 0
  <2>3. c \in Nat /\ z \in 0 .. c - 1 /\ z \in Nat /\ c + Chunk - 1 \in Nat
    BY <2>2
  <2> HIDE DEF c, z
  <2>4. z \div Chunk < (c + Chunk - 1) \div Chunk /\ z \div Chunk \in Nat
        /\ (c + Chunk - 1) \div Chunk \in Nat
    BY <2>2, <2>3, DivCeil, Dividing
  <2> QED
    BY <2>1, <2>4 DEF c
<1>12. ~ Migrated(N)' /\ ~ Migrated(current)'
  <2>1. tables'[N].done = 0 /\ tables'[N].done # Chunks(N)'
    BY <1>3, <1>4, <1>11
  <2> QED
    BY <1>2, <2>1 DEF Migrated, Chunks
<1>13. ASSUME NEW u \in Threads
       PROVE  ~ Migrating(u) /\ ~ Copying(u) /\ ~ Migrating(u)' /\ ~ Copying(u)'
  <2>1. ~ Migrating(u) /\ ~ Copying(u)
    BY <1>1, NobodyMigrates
  <2>2. CASE u = t
    BY <1>5, <2>1, <2>2 DEF Migrating, Copying
  <2>3. CASE u # t
    BY <1>5, <2>1, <2>3, SameView DEF Stay
  <2> QED
    BY <2>1, <2>2, <2>3
<1>14. \A U : Helpers(U) = {} /\ Helpers(U)' = {}
  BY <1>13 DEF Helpers
<1>15. Chain'
  <2>1. \A U \in Tables' : tables'[U].old = U - 1
    BY <1>1, <1>2, <1>3, <1>4, <1>7 DEF Chain
  <2>2. \A U \in 1 .. N - 1 : Migrated(U)'
    BY <1>2, <1>7, <1>10
  <2> QED
    BY <1>2, <1>4, <1>7, <2>1, <2>2 DEF Chain
<1>16. ChunksCounted'
  <2> SUFFICES ASSUME NEW U \in Tables'
               PROVE  (tables[U].done + Cardinality(Helpers(U))
                         = Lowest(tables[U].claimed, Chunks(U)))'
    BY DEF ChunksCounted
  <2>1. CASE U = N
    <3>1. Cardinality(Helpers(N)') = 0
      BY <1>14, FS_EmptySet
    <3> QED
      BY <1>3, <1>4, <1>11, <2>1, <3>1 DEF Lowest
  <2>2. CASE U # N
    <3>1. U \in Tables
      BY <1>7, <2>2
    <3>2. tables[U].done + Cardinality(Helpers(U)) = Lowest(tables[U].claimed, Chunks(U))
      BY <3>1 DEF ChunksCounted, IInv, Globals
    <3>3. Helpers(U)' = Helpers(U)
      BY <1>14
    <3> QED
      BY <1>4, <1>9, <3>1, <3>2, <3>3 DEF Lowest
  <2> QED
    BY <2>1, <2>2
<1>17. OneOwner'
  BY <1>13 DEF OneOwner
<1>18. MarksTellProgress'
  <2> SUFFICES ASSUME NEW U \in 2 .. N, NEW c \in Buckets(U - 1)'
               PROVE  (tables[U - 1].bucket[c].marked <=> ~ Ahead(U, c))'
    BY <1>2 DEF MarksTellProgress
  <2>1. U - 1 \in Tables
    BY <1>2, <1>7
  <2>2. c \in Buckets(U - 1) /\ tables'[U - 1] = tables[U - 1]
    BY <1>4, <1>9, <2>1
  <2>3. CASE U = N
    <3>1. U - 1 = C
      BY <1>7, <2>3
    <3>2. ~ tables[C].bucket[c].marked
      BY <2>2, <3>1 DEF CurrentUnmarked, IInv, Globals
    <3>3. c \div Chunk >= tables'[U].claimed
      <4>1. c \in Nat /\ Chunk \in Nat \ {0}
        BY <2>2, ExpandAssumption DEF Buckets
      <4>2. c \div Chunk \in Nat
        BY <4>1, Dividing
      <4> QED
        BY <1>3, <1>4, <2>3, <4>2
    <3> QED
      BY <2>2, <3>1, <3>2, <3>3 DEF Ahead
  <2>4. CASE U # N
    <3>1. U \in Tables /\ U \in 2 .. current
      BY <1>2, <1>7, <2>4
    <3>2. tables[U - 1].bucket[c].marked <=> ~ Ahead(U, c)
      BY <2>2, <3>1 DEF MarksTellProgress, IInv, Globals
    <3>3. Ahead(U, c)' <=> Ahead(U, c)
      BY <1>4, <1>14, <3>1 DEF Ahead
    <3> QED
      BY <2>2, <3>2, <3>3
  <2> QED
    BY <2>3, <2>4
<1>19. Buckets(N)' = 0 .. cap - 1 /\ \A b \in Buckets(N)' : tables'[N].bucket[b] = Vacant
  BY <1>3, <1>4 DEF Buckets
<1>20. Vacant.key = EMPTY /\ Vacant.marked = FALSE /\ EMPTY \notin Keys
  BY KeyFacts DEF Vacant, Word32
<1>21. CurrentUnmarked'
  BY <1>2, <1>19, <1>20 DEF CurrentUnmarked, Buckets
<1>22. KeysUnique' /\ KeysReachable'
  <2>1. ASSUME NEW U \in Tables', NEW b \in Buckets(U)', tables'[U].bucket[b].key \in Keys
        PROVE  U \in Tables /\ b \in Buckets(U) /\ tables'[U] = tables[U]
               /\ Buckets(U)' = Buckets(U)
    <3>1. U # N
      BY <1>19, <1>20, <2>1
    <3>2. U \in Tables
      BY <1>7, <3>1
    <3> QED
      BY <1>4, <1>9, <3>2
  <2>2. KeysUnique'
    <3> SUFFICES ASSUME NEW U \in Tables', NEW b \in Buckets(U)', NEW c \in Buckets(U)',
                        tables'[U].bucket[b].key \in Keys,
                        tables'[U].bucket[b].key = tables'[U].bucket[c].key
                 PROVE  b = c
      BY DEF KeysUnique
    <3> QED
      BY <2>1 DEF KeysUnique, IInv, Globals
  <2>3. KeysReachable'
    <3> SUFFICES ASSUME NEW U \in Tables', NEW b \in Buckets(U)', NEW k \in Keys,
                        tables'[U].bucket[b].key = k
                 PROVE  \E n \in Buckets(U)' :
                          /\ Slot(U, k, n)' = b
                          /\ \A m \in 0 .. n - 1 :
                               tables'[U].bucket[Slot(U, k, m)'].key # EMPTY
      BY DEF KeysReachable, Slot
    <3>1. U \in Tables /\ b \in Buckets(U) /\ tables'[U] = tables[U]
          /\ Buckets(U)' = Buckets(U)
      BY <2>1
    <3>2. PICK n \in Buckets(U) :
            /\ Slot(U, k, n) = b
            /\ \A m \in 0 .. n - 1 : tables[U].bucket[Slot(U, k, m)].key # EMPTY
      BY <3>1 DEF KeysReachable, IInv, Globals
    <3>3. \A m : Slot(U, k, m)' = Slot(U, k, m)
      BY <1>9, <3>1
    <3> QED
      BY <3>1, <3>2, <3>3
  <2> QED
    BY <2>2, <2>3
<1>23. MarkedKeysMove'
  <2> SUFFICES ASSUME NEW b \in Buckets(C)'
               PROVE  ~ tables'[C].bucket[b].marked
    BY <1>2, <1>7 DEF MarkedKeysMove, Buckets
  <2>1. tables'[C] = tables[C] /\ b \in Buckets(C)
    BY <1>2, <1>4, <1>9
  <2> QED
    BY <2>1 DEF CurrentUnmarked, IInv, Globals
<1>24. MovedKeysMarked'
  <2>1. KeysIn(tables'[N]) = {}
    BY <1>3, <1>4
  <2> QED
    BY <1>2, <2>1 DEF MovedKeysMarked
<1>25. Live' = Live
  <2>1. Live = KeysIn(tables[C])
    BY <1>1 DEF Live, LiveIn, Migrated
  <2>2. Live' = KeysIn(tables'[C])
    BY <1>2, <1>3, <1>4, <1>12 DEF Live, LiveIn, Migrated
  <2> QED
    BY <1>2, <1>4, <2>1, <2>2
<1>26. ASSUME NEW u \in Threads, u # t
       PROVE  InPlace(u)' /\ Copier(u)' /\ Records(u)'
  <2>1. local'[u] = local[u] /\ seen'[u] = seen[u]
    BY <1>5, <1>26 DEF Stay
  <2>2. InPlace(u)' /\ Copier(u)'
    BY <1>6, <1>8, <1>10, <1>13, <2>1, OthersKept
  <2>3. LostErase(u)'
    BY <1>4, <1>6, <1>8, <2>1, LostEraseStays
  <2>4. SeenOK(u)'
    BY <1>25, <2>1 DEF IInv, Records, SeenOK, Finished
  <2> QED
    BY <2>2, <2>3, <2>4 DEF Records
<1>27. InPlace(t)' /\ Copier(t)' /\ Records(t)'
  <2>1. InCall(t)' /\ Prober(t)'
    BY <1>1, <1>5, <1>8, InCallKept, ProberKept
  <2>2. Helped(t)' /\ Locals(t)' /\ Owner(t)' /\ Copier(t)'
    BY <1>5, <1>13 DEF Helped, Locals, Owner, Copier
  <2>3. Records(t)'
    BY <1>1, <1>5, <1>25 DEF Records, LostErase, SeenOK, Finished
  <2> QED
    BY <2>1, <2>2, <2>3 DEF InPlace
<1>28. Moves(t)
  BY <1>5, <1>8, <1>25 DEF Moves, SameCall, SameProbe
<1> QED
  BY <1>1, <1>6, <1>15, <1>16, <1>17, <1>18, <1>21, <1>22, <1>23, <1>24, <1>26, <1>27, <1>28
     DEF IInv, Globals

LEMMA PublishKeeps ==
  ASSUME IInv, NEW t \in Threads, Publish(t)
  PROVE  IInv' /\ Moves(t) /\ (current' # current => Migrated(current))
<1>1. local[t].pc = "swap" /\ UNCHANGED <<left, result, seen, outcome>>
  BY DEF Publish
<1>2. local' = [local EXCEPT ![t] = CapMore(local[t], "again", 0)]
  BY Zenon DEF Publish, CapMore
<1>3. \/ /\ current = local[t].tab
         /\ tables' = Append(tables, NewTable(local[t].cap, current))
         /\ current' = Len(tables) + 1
      \/ UNCHANGED <<tables, current>>
  BY DEF Publish
<1> QED
  BY <1>1, <1>2, <1>3, PublishLost, PublishDone

-----------------------------------------------------------------------------
(* A table with an unmarked bucket, once it is filled, is the one that     *)
(* counts.                                                                 *)
LEMMA LivePlace ==
  ASSUME IInv, NEW T \in Tables, Migrated(T), NEW b \in Buckets(T),
         ~ tables[T].bucket[b].marked
  PROVE  /\ T = current \/ (T # current /\ ~ Migrated(current) /\ tables[current].old = T)
         /\ Live = KeysIn(tables[T])
<1>1. TypeOK /\ Chain /\ ChunksCounted /\ MarksTellProgress
  BY DEF IInv, Globals
<1>2. /\ current \in Nat \ {0} /\ current \in Tables /\ T \in 1 .. current
      /\ \A U \in 1 .. current - 1 : Migrated(U)
  BY <1>1 DEF Chain, Tables, TypeOK
<1>3. CASE T = current
  BY <1>3 DEF Live, LiveIn, Migrated
<1>4. CASE T # current
  <2> DEFINE N == T + 1
  <2>1. N \in 2 .. current /\ N - 1 = T /\ N \in Tables /\ N # 1
    BY <1>2, <1>4 DEF Tables
  <2> HIDE DEF N
  <2>2. Ahead(N, b)
    BY <1>1, <2>1 DEF MarksTellProgress
  <2>3. ~ Migrated(N)
    <3> SUFFICES ASSUME Migrated(N) PROVE FALSE
      OBVIOUS
    <3>1. Chunks(N) \in Nat /\ b \div Chunk < Chunks(N)
      BY <1>1, <2>1, ChunksAre
    <3>2. tables[N].claimed \in Nat /\ tables[N].done \in Nat
      BY <1>1, <2>1, TableFacts
    <3>3. tables[N].done = Chunks(N)
      BY DEF Migrated, Chunks
    <3>4. tables[N].done + Cardinality(Helpers(N)) = Lowest(tables[N].claimed, Chunks(N))
      BY <1>1, <2>1 DEF ChunksCounted
    <3>5. Cardinality(Helpers(N)) = 0 /\ tables[N].claimed >= Chunks(N)
      BY <3>1, <3>2, <3>3, <3>4, HelpersFinite DEF Lowest
    <3>6. Helpers(N) = {}
      BY <3>5, HelpersFinite, FS_EmptySet
    <3>7. b \div Chunk >= tables[N].claimed
      BY <2>2, <3>6 DEF Ahead
    <3>8. b \in Nat /\ Chunk \in Nat \ {0}
      BY ExpandAssumption DEF Buckets
    <3>9. b \div Chunk \in Nat
      BY <3>8, Dividing
    <3> QED
      BY <3>1, <3>2, <3>5, <3>7, <3>9
  <2>4. N = current
    BY <1>2, <2>1, <2>3
  <2>5. ~ Migrated(current)
    BY <2>3, <2>4, Zenon
  <2>6. tables[current].old = T
    BY <1>1, <1>2, <2>1, <2>4 DEF Chain
  <2>7. Live = KeysIn(tables[T])
    BY <2>5, <2>6 DEF Live, LiveIn, Migrated
  <2> QED
    BY <1>4, <2>5, <2>6, <2>7
<1> QED
  BY <1>3, <1>4

(* A probe that gets to a vacant bucket has looked wherever its key could  *)
(* be.                                                                     *)
LEMMA AbsentBeforeEmpty ==
  ASSUME TypeOK, KeysReachable, NEW T \in Tables, NEW k \in Keys, NEW i \in Buckets(T),
         \A m \in 0 .. i - 1 : tables[T].bucket[Slot(T, k, m)].key \notin {EMPTY, k},
         tables[T].bucket[Slot(T, k, i)].key = EMPTY
  PROVE  k \notin KeysIn(tables[T])
<1> SUFFICES ASSUME k \in KeysIn(tables[T]) PROVE FALSE
  OBVIOUS
<1>1. PICK b \in Buckets(T) : tables[T].bucket[b].key = k
  BY DEF KeysIn, Buckets
<1>2. PICK n \in Buckets(T) :
        /\ Slot(T, k, n) = b
        /\ \A m \in 0 .. n - 1 : tables[T].bucket[Slot(T, k, m)].key # EMPTY
  BY <1>1 DEF KeysReachable
<1>3. i \in Nat /\ n \in Nat
  BY DEF Buckets
<1>4. ~ (i < n)
  BY <1>2, <1>3
<1>5. n # i
  BY <1>1, <1>2, KeyFacts
<1>6. n \in 0 .. i - 1
  BY <1>3, <1>4, <1>5
<1> QED
  BY <1>1, <1>2, <1>6

-----------------------------------------------------------------------------
LEMMA AnswerIs ==
  ASSUME NEW t \in Threads, NEW r, NEW tabs, Answer(t, r, tabs)
  PROVE  /\ tables' = tabs /\ current' = current /\ left' = left
         /\ result' = [result EXCEPT ![t] = r]
         /\ seen' = [u \in Threads |-> IF u = t \/ seen[u] = {} THEN {}
                                       ELSE seen[u] \cup {Live'}]
<1>1. /\ tables' = tabs /\ current' = current
      /\ seen' = [u \in Threads |-> IF u = t \/ seen[u] = {} THEN {}
                                    ELSE seen[u] \cup {LiveIn(tabs, current)}]
  BY DEF Answer
<1>2. Live' = LiveIn(tabs, current)
  BY <1>1 DEF Live, LiveIn
<1> QED
  BY <1>1, <1>2 DEF Answer

(* The place where an insert or erase takes effect. *)
LEMMA StorePlace ==
  ASSUME IInv, NEW t \in Threads, local[t].pc = "cas"
  PROVE  LET T == local[t].tab IN
         /\ TypeOK /\ Chain /\ InCall(t) /\ Prober(t) /\ ~ Migrating(t) /\ ~ Copying(t)
         /\ ~ Finished(t) /\ local[t].pc # "idle"
         /\ local[t].into = 0 /\ local[t].j = 0
         /\ T \in Tables /\ Migrated(T) /\ Here(t) \in Buckets(T)
         /\ tables[T].bucket[Here(t)] \in Words
         /\ local[t].key \in Keys /\ local[t].i \in Buckets(T)
<1>1. /\ TypeOK /\ Chain /\ InCall(t) /\ Helped(t) /\ Prober(t) /\ ~ Migrating(t)
      /\ ~ Finished(t) /\ local[t].pc # "idle" /\ local[t].into = 0 /\ local[t].j = 0
  BY NotMigrating
<1>2. /\ local[t].tab \in Tables /\ Migrated(local[t].tab) /\ local[t].key \in Keys
      /\ local[t].i \in Buckets(local[t].tab) /\ local[t].i \in Nat
  BY <1>1, LocalFacts DEF InCall, Helped
<1>3. Here(t) \in Buckets(local[t].tab)
  BY <1>1, <1>2, SlotInside DEF Here
<1>4. tables[local[t].tab].bucket \in [Buckets(local[t].tab) -> Words]
  BY <1>1, <1>2, TableFacts
<1>5. ~ Copying(t)
  BY <1>1 DEF Copying, Migrating
<1> QED
  BY <1>1, <1>2, <1>3, <1>4, <1>5

(* A word of a filled table that is replaced by one without a mark changes *)
(* the keys that count, and no mark.                                       *)
LEMMA WordLive ==
  ASSUME IInv, NEW T \in Tables, Migrated(T), NEW b \in Buckets(T), NEW w,
         Written(T, b, w), ~ tables[T].bucket[b].marked, ~ w.marked
  PROVE  /\ Live = KeysIn(tables[T]) /\ Live' = KeysIn(tables'[T])
         /\ ~ Migrated(current) => T # current
         /\ \A U \in Tables : \A c \in Buckets(U) :
              /\ tables[U].bucket[c].marked <=> tables'[U].bucket[c].marked
              /\ tables[U].bucket[c].marked => tables'[U].bucket[c] = tables[U].bucket[c]
<1>1. TypeOK /\ Chain /\ current \in Tables
  BY FirstMigrated DEF IInv, Globals
<1>2. /\ T = current \/ (T # current /\ ~ Migrated(current) /\ tables[current].old = T)
      /\ Live = KeysIn(tables[T])
  BY LivePlace
<1>3. ~ Migrated(current) => T # current
  BY <1>2 DEF Migrated
<1>4. /\ \A U \in Tables : U # T => tables'[U] = tables[U]
      /\ tables'[T].bucket[b] = w /\ current' = current
      /\ \A c \in Buckets(T) : c # b => tables'[T].bucket[c] = tables[T].bucket[c]
  BY DEF Written
<1>5. /\ Migrated(T)' <=> Migrated(T)
      /\ \A U \in Tables : /\ (Migrated(U)' <=> Migrated(U)) /\ tables'[U].old = tables[U].old
  BY <1>1, WrittenFacts
<1>6. Live' = KeysIn(tables'[T])
  <2>1. CASE T = current
    BY <1>4, <1>5, <2>1 DEF Live, LiveIn, Migrated
  <2>2. CASE T # current
    <3>1. ~ Migrated(current) /\ tables[current].old = T
      BY <1>2, <2>2
    <3>2. tables'[current].old = T
      BY <1>1, <1>5, <3>1
    <3>3. tables'[current].done # OldChunks(tables', current)
      BY <1>1, <1>5, <3>1 DEF Migrated
    <3> QED
      BY <1>4, <3>2, <3>3 DEF Live, LiveIn
  <2> QED
    BY <2>1, <2>2
<1>7. ASSUME NEW U \in Tables, NEW c \in Buckets(U)
      PROVE  /\ tables[U].bucket[c].marked <=> tables'[U].bucket[c].marked
             /\ tables[U].bucket[c].marked => tables'[U].bucket[c] = tables[U].bucket[c]
  <2>1. CASE U = T /\ c = b
    BY <1>4, <2>1
  <2>2. CASE ~ (U = T /\ c = b)
    BY <1>4, <2>2
  <2> QED
    BY <2>1, <2>2
<1> QED
  BY <1>2, <1>3, <1>6, <1>7

(* What is known of every thread, and its migration, after such a step.    *)
LEMMA StoreGlobals ==
  ASSUME IInv, NEW T \in Tables, Migrated(T), NEW b \in Buckets(T), NEW w,
         Written(T, b, w), ~ tables[T].bucket[b].marked, ~ w.marked,
         NEW t \in Threads, Stay(t), ViewKept(t), KeysUnique', KeysReachable'
  PROVE  Globals'
<1>1. TypeOK /\ Chain /\ current \in Tables /\ current' = current
  BY FirstMigrated DEF IInv, Globals, Written
<1>2. /\ ~ Migrated(current) => T # current
      /\ \A U \in Tables : \A c \in Buckets(U) :
              /\ tables[U].bucket[c].marked <=> tables'[U].bucket[c].marked
              /\ tables[U].bucket[c].marked => tables'[U].bucket[c] = tables[U].bucket[c]
  BY WordLive
<1>3. /\ Tables' = Tables
      /\ \A U \in Tables : /\ Chunks(U)' = Chunks(U) /\ Buckets(U)' = Buckets(U)
                           /\ (Migrated(U)' <=> Migrated(U))
                           /\ tables'[U].claimed = tables[U].claimed
                           /\ tables'[U].done = tables[U].done
      /\ \A U \in Tables : U # T => KeysIn(tables'[U]) = KeysIn(tables[U])
      /\ Chain'
  BY <1>1, WrittenFacts
<1>4. /\ \A U : Helpers(U)' = Helpers(U)
      /\ \A U : \A u \in Helpers(U) : \A c \in Buckets(U - 1) :
           AheadOf(u, c)' <=> AheadOf(u, c)
      /\ \A u \in Threads : Migrating(u)' <=> Migrating(u)
      /\ \A u \in Threads : Migrating(u) => OwnChunk(u)' = OwnChunk(u)
      /\ \A u \in Threads : (Copying(u)' <=> Copying(u))
                            /\ (Copying(u) => local'[u].b = local[u].b)
  BY SameHelpers
<1>5. ChunksCounted'
  BY <1>3, <1>4 DEF ChunksCounted, Lowest, IInv, Globals
<1>6. OneOwner'
  BY <1>4 DEF OneOwner, IInv, Globals
<1>7. CurrentUnmarked'
  <2> SUFFICES ASSUME NEW c \in Buckets(current) PROVE ~ tables'[current].bucket[c].marked
    BY <1>1, <1>3 DEF CurrentUnmarked, Buckets
  <2> QED
    BY <1>1, <1>2 DEF CurrentUnmarked, IInv, Globals
<1>8. MarksTellProgress'
  <2> SUFFICES ASSUME NEW U \in 2 .. current, NEW c \in Buckets(U - 1)'
               PROVE  (tables[U - 1].bucket[c].marked <=> ~ Ahead(U, c))'
    BY <1>1 DEF MarksTellProgress
  <2>1. U \in Tables /\ U - 1 \in Tables
    BY <1>1 DEF Chain, Tables, TypeOK
  <2>2. c \in Buckets(U - 1)
    BY <1>3, <2>1
  <2>3. Ahead(U, c)' <=> Ahead(U, c)
    BY <1>3, <1>4, <2>1, <2>2 DEF Ahead
  <2>4. tables'[U - 1].bucket[c].marked <=> tables[U - 1].bucket[c].marked
    BY <1>2, <2>1, <2>2
  <2> QED
    BY <2>2, <2>3, <2>4 DEF MarksTellProgress, IInv, Globals
<1>9. ASSUME ~ Migrated(current)
      PROVE  /\ current - 1 \in Tables /\ KeysIn(tables'[current]) = KeysIn(tables[current])
             /\ Buckets(current - 1)' = Buckets(current - 1)
  <2>1. current # 1
    BY <1>9, FirstMigrated DEF IInv, Globals
  <2>2. current - 1 \in Tables
    BY <1>1, <2>1 DEF Tables, TypeOK
  <2>3. Buckets(current - 1)' = 0 .. tables'[current - 1].cap - 1
    BY <1>1 DEF Buckets
  <2>4. tables'[current - 1].cap = tables[current - 1].cap
    BY <2>2 DEF Written, Evolve
  <2>5. KeysIn(tables'[current]) = KeysIn(tables[current])
    BY <1>1, <1>2, <1>3, <1>9
  <2> QED
    BY <2>2, <2>3, <2>4, <2>5 DEF Buckets
<1>10. Migrated(current)' <=> Migrated(current)
  BY <1>1, <1>3 DEF Migrated
<1>11. MarkedKeysMove'
  <2> SUFFICES ASSUME ~ Migrated(current), NEW c \in Buckets(current - 1),
                      tables'[current - 1].bucket[c].marked,
                      tables'[current - 1].bucket[c].key \in Keys
               PROVE  \/ tables'[current - 1].bucket[c].key \in KeysIn(tables'[current])
                      \/ \E u \in Threads : Copying(u)' /\ local'[u].b = c
    BY <1>1, <1>9, <1>10 DEF MarkedKeysMove
  <2>1. /\ tables[current - 1].bucket[c].marked
        /\ tables'[current - 1].bucket[c] = tables[current - 1].bucket[c]
    BY <1>2, <1>9
  <2>2. \/ tables[current - 1].bucket[c].key \in KeysIn(tables[current])
        \/ \E u \in Threads : Copying(u) /\ local[u].b = c
    BY <2>1 DEF MarkedKeysMove, IInv, Globals
  <2> QED
    BY <1>4, <1>9, <2>1, <2>2
<1>12. MovedKeysMarked'
  <2> SUFFICES ASSUME ~ Migrated(current), NEW k \in KeysIn(tables[current])
               PROVE  \E c \in Buckets(current - 1) :
                        tables'[current - 1].bucket[c] = Word32(k, TRUE)
    BY <1>1, <1>9, <1>10 DEF MovedKeysMarked, Word32
  <2>1. PICK c \in Buckets(current - 1) : tables[current - 1].bucket[c] = Word32(k, TRUE)
    BY DEF MovedKeysMarked, IInv, Globals
  <2>2. tables[current - 1].bucket[c].marked
    BY <2>1 DEF Word32
  <2> QED
    BY <1>2, <1>9, <2>1, <2>2
<1> QED
  BY <1>3, <1>5, <1>6, <1>7, <1>8, <1>11, <1>12 DEF Globals

-----------------------------------------------------------------------------
(* An insert or erase takes effect: t is done, and the others have seen    *)
(* the new contents.                                                       *)
LEMMA StoreKeeps ==
  ASSUME IInv, NEW t \in Threads, local[t].pc = "cas", NEW w \in Words, ~ w.marked,
         ~ Bucket(t).marked, WordStep(Bucket(t), w), Store(t, w),
         w.key \in Keys =>
           /\ w.key \notin KeysIn(tables[local[t].tab])
           /\ \E n \in Buckets(local[t].tab) :
                /\ Slot(local[t].tab, w.key, n) = Here(t)
                /\ \A m \in 0 .. n - 1 :
                     tables[local[t].tab].bucket[Slot(local[t].tab, w.key, m)].key # EMPTY,
         w = Word32(TOMBSTONE, FALSE) => Bucket(t) = Mine(t)
  PROVE  /\ IInv'
         /\ Ends(t, TRUE, (Live \ {Bucket(t).key}) \cup ({w.key} \cap Keys))
<1> SUFFICES ASSUME NEW T, T = local[t].tab, NEW b, b = Here(t)
             PROVE  /\ IInv'
                    /\ Ends(t, TRUE, (Live \ {Bucket(t).key}) \cup ({w.key} \cap Keys))
  OBVIOUS
<1>1. /\ TypeOK /\ Chain /\ InCall(t) /\ Prober(t) /\ ~ Migrating(t) /\ ~ Copying(t)
      /\ ~ Finished(t) /\ local[t].pc # "idle"
      /\ local[t].into = 0 /\ local[t].j = 0
      /\ T \in Tables /\ Migrated(T) /\ b \in Buckets(T)
      /\ Bucket(t) = tables[T].bucket[b]
  BY StorePlace DEF Bucket
<1>2. /\ tables' = WordSet(tables, T, b, w) /\ current' = current /\ left' = left
      /\ result' = [result EXCEPT ![t] = TRUE] /\ outcome' = outcome
      /\ seen' = [u \in Threads |-> IF u = t \/ seen[u] = {} THEN {}
                                    ELSE seen[u] \cup {Live'}]
      /\ local' = [local EXCEPT ![t] = [local[t] EXCEPT !.pc = "inc"]]
  <2>1. Answer(t, TRUE, WordSet(tables, T, b, w)) /\ Goto(t, "inc")
    BY Zenon DEF Store, WordSet
  <2>2. local' = [local EXCEPT ![t] = [local[t] EXCEPT !.pc = "inc"]]
    BY <2>1, Zenon DEF Goto
  <2>3. outcome' = outcome
    BY <2>1 DEF Answer
  <2> QED
    BY <2>1, <2>2, <2>3, AnswerIs
<1>3. tables' \in Seq(TableSet) /\ Written(T, b, w)
  BY <1>1, <1>2, WordWrite DEF Written
<1>4. /\ local' \in [Threads -> LocalSet] /\ Stay(t) /\ local'[t].pc = "inc"
      /\ SameCall(t) /\ SameProbe(t) /\ local'[t].into = 0 /\ local'[t].j = 0
  BY <1>1, <1>2, GotoSame DEF Labels
<1>5. TypeOK'
  <2>1. Live' \in SUBSET Keys
    BY DEF Live, LiveIn, KeysIn
  <2>2. seen' \in [Threads -> SUBSET SUBSET Keys]
    BY <1>1, <1>2, <2>1 DEF TypeOK
  <2>3. result' \in [Threads -> BOOLEAN]
    BY <1>1, <1>2 DEF TypeOK
  <2> QED
    BY <1>1, <1>2, <1>3, <1>4, <2>2, <2>3 DEF TypeOK
<1>6. /\ KeysUnique' /\ KeysReachable'
      /\ KeysIn(tables'[T]) =
           (KeysIn(tables[T]) \ {tables[T].bucket[b].key}) \cup ({w.key} \cap Keys)
  BY <1>1, <1>3, WrittenKeys DEF IInv, Globals
<1>7. ~ Migrating(t)' /\ ~ Copying(t)' /\ Finished(t)' /\ ViewKept(t)
  BY <1>1, <1>4 DEF Migrating, Copying, Finished, ViewKept
<1>8. Globals'
  BY <1>1, <1>3, <1>4, <1>6, <1>7, StoreGlobals
<1>9. /\ Live = KeysIn(tables[T]) /\ Live' = KeysIn(tables'[T]) /\ Evolve
      /\ ~ Migrated(current) => T # current
  BY <1>1, <1>3, WordLive DEF Written
<1>10. StayMigrated /\ \A U \in Tables : U # T => KeysIn(tables'[U]) = KeysIn(tables[U])
  BY <1>1, <1>3, WrittenFacts
<1>11. ASSUME NEW u \in Threads, u # t
       PROVE  InPlace(u)' /\ Copier(u)' /\ Records(u)'
  <2>1. /\ local'[u] = local[u] /\ seen[u] \subseteq seen'[u]
        /\ seen'[u] = {} <=> seen[u] = {}
        /\ seen[u] # {} => Live' \in seen'[u]
    BY <1>2, <1>4, <1>11 DEF Stay
  <2>2. Copying(u) => local[u].found.key \notin KeysIn(tables'[local[u].help])
    <3>1. ASSUME Copying(u)
          PROVE  /\ local[u].help \in Tables /\ local[u].help # T
                 /\ local[u].found.key \notin KeysIn(tables[local[u].help])
      BY <1>9, <3>1, CopyPlace
    <3> QED
      BY <1>10, <3>1
  <2>3. InPlace(u)' /\ Copier(u)'
    BY <1>5, <1>9, <1>10, <2>1, <2>2, OthersKept
  <2>4. SeenOK(u)'
    BY <2>1 DEF IInv, Records, SeenOK, Finished
  <2>5. LostErase(u)'
    <3>1. CASE w # Word32(TOMBSTONE, FALSE)
      <4>1. \A U \in Tables : \A c \in Buckets(U) :
              tables'[U].bucket[c] = Word32(TOMBSTONE, FALSE)
                => tables[U].bucket[c] = Word32(TOMBSTONE, FALSE)
        BY <1>3, <3>1 DEF Written
      <4> QED
        BY <1>5, <1>9, <2>1, <4>1, LostEraseStays
    <3>2. CASE w = Word32(TOMBSTONE, FALSE)
      <4> SUFFICES ASSUME local[u].pc \in {"cas", "recheck"}, local[u].op = "erase", Gone(u)'
                   PROVE  \E S \in seen'[u] : local[u].key \notin S
        BY <2>1 DEF LostErase
      <4>1. /\ InCall(u) /\ LostErase(u) /\ local[u].tab \in Tables /\ local[u].i \in Nat
            /\ local[u].key \in Keys /\ seen[u] # {}
        BY <1>1, LocalFacts DEF IInv, InPlace, Records, InCall, SeenOK, Finished
      <4>2. Here(u) \in Buckets(local[u].tab)
        BY <1>1, <4>1, SlotInside DEF Here
      <4>3. Here(u)' = Here(u)
        BY <1>9, <2>1, <4>1 DEF Here, Slot, Evolve
      <4>4. Bucket(u)' = tables'[local[u].tab].bucket[Here(u)] /\ Mine(u)' = Mine(u)
        BY <2>1, <4>3 DEF Bucket, Mine, Word32
      <4>5. CASE local[u].tab = T /\ Here(u) = b
        <5>1. Bucket(u) = Mine(t)
          BY <1>1, <3>2, <4>5 DEF Bucket
        <5>2. CASE local[u].key = local[t].key
          <6>1. tables[T].bucket[b].key = local[u].key
            BY <1>1, <3>2, <5>2 DEF Mine, Word32
          <6>2. w.key \notin Keys
            BY <3>2, KeyFacts DEF Word32
          <6>3. local[u].key \notin Live'
            BY <1>6, <1>9, <6>1, <6>2
          <6> QED
            BY <2>1, <4>1, <6>3
        <5>3. CASE local[u].key # local[t].key
          <6>1. Gone(u)
            BY <5>1, <5>3 DEF Gone, Mine, Word32
          <6> QED
            BY <2>1, <4>1, <6>1 DEF LostErase
        <5> QED
          BY <5>2, <5>3
      <4>6. CASE ~ (local[u].tab = T /\ Here(u) = b)
        <5>1. Bucket(u)' = Bucket(u)
          BY <1>3, <4>1, <4>2, <4>4, <4>6 DEF Written, Bucket
        <5>2. Gone(u)
          BY <4>4, <5>1 DEF Gone
        <5> QED
          BY <2>1, <4>1, <5>2 DEF LostErase
      <4> QED
        BY <4>5, <4>6
    <3> QED
      BY <3>1, <3>2
  <2> QED
    BY <2>3, <2>4, <2>5 DEF Records
<1>12. InPlace(t)' /\ Copier(t)' /\ Records(t)'
  <2>1. InCall(t)' /\ Prober(t)'
    BY <1>1, <1>4, <1>9, InCallKept, ProberKept
  <2>2. Helped(t)' /\ Locals(t)' /\ Owner(t)' /\ Copier(t)'
    BY <1>4, <1>7 DEF Helped, Locals, Owner, Copier
  <2>3. Records(t)'
    BY <1>2, <1>4, <1>7 DEF Records, LostErase, SeenOK
  <2> QED
    BY <2>1, <2>2, <2>3 DEF InPlace
<1>13. Live' = (Live \ {Bucket(t).key}) \cup ({w.key} \cap Keys)
  BY <1>1, <1>6, <1>9
<1>14. Ends(t, TRUE, (Live \ {Bucket(t).key}) \cup ({w.key} \cap Keys))
  BY <1>2, <1>4, <1>9, <1>13 DEF Ends
<1> QED
  BY <1>5, <1>8, <1>11, <1>12, <1>14 DEF IInv

LEMMA InsertCASKeeps ==
  ASSUME IInv, NEW t \in Threads, InsertCAS(t)
  PROVE  /\ IInv'
         /\ Bucket(t) = Vacant => Ends(t, TRUE, Live \cup {local[t].key})
<1>1. At(t, "cas", "insert") /\ local[t].pc = "cas"
  BY DEF InsertCAS, At
<1>2. CASE Bucket(t) # Vacant /\ OnlyGoto(t, "recheck")
  BY <1>1, <1>2, InsertLost
<1>3. CASE Bucket(t) = Vacant /\ Store(t, Mine(t))
  <2> SUFFICES ASSUME NEW T, T = local[t].tab, NEW w, w = Mine(t)
               PROVE  IInv' /\ Ends(t, TRUE, Live \cup {local[t].key})
    OBVIOUS
  <2>1. /\ TypeOK /\ InCall(t) /\ Prober(t) /\ T \in Tables /\ local[t].key \in Keys
        /\ local[t].i \in Buckets(T) /\ local[t].pc # "idle"
    BY <1>1, StorePlace
  <2>2. /\ w \in Words /\ ~ w.marked /\ w.key = local[t].key
        /\ w # Word32(TOMBSTONE, FALSE)
    BY <2>1, KeyFacts DEF Mine, Word32, Words
  <2>3. /\ ~ Bucket(t).marked /\ WordStep(Bucket(t), w) /\ Bucket(t).key = EMPTY
    BY <1>3 DEF Vacant, Word32, WordStep
  <2>4. /\ \A m \in 0 .. local[t].i - 1 :
             tables[T].bucket[Slot(T, local[t].key, m)].key \notin {EMPTY, local[t].key}
        /\ Slot(T, local[t].key, local[t].i) = Here(t)
        /\ tables[T].bucket[Slot(T, local[t].key, local[t].i)].key = EMPTY
    BY <2>1, <2>3 DEF Prober, Here, Bucket
  <2>5. w.key \notin KeysIn(tables[T])
    BY <2>1, <2>2, <2>4, AbsentBeforeEmpty DEF IInv, Globals
  <2>6. \E n \in Buckets(T) :
          /\ Slot(T, w.key, n) = Here(t)
          /\ \A m \in 0 .. n - 1 : tables[T].bucket[Slot(T, w.key, m)].key # EMPTY
    BY <2>1, <2>2, <2>4
  <2>7. Store(t, w)
    BY <1>3
  <2>8. (Live \ {Bucket(t).key}) \cup ({w.key} \cap Keys) = Live \cup {local[t].key}
    BY <2>1, <2>2, <2>3, KeyFacts DEF Live, LiveIn, KeysIn
  <2> QED
    BY <1>1, <2>2, <2>3, <2>5, <2>6, <2>7, <2>8, StoreKeeps
<1> QED
  BY <1>2, <1>3 DEF InsertCAS

LEMMA EraseCASKeeps ==
  ASSUME IInv, NEW t \in Threads, EraseCAS(t)
  PROVE  /\ IInv'
         /\ Bucket(t) = Mine(t) => Ends(t, TRUE, Live \ {local[t].key})
<1>1. At(t, "cas", "erase") /\ local[t].pc = "cas"
  BY DEF EraseCAS, At
<1>2. CASE Bucket(t) # Mine(t) /\ OnlyGoto(t, "recheck")
  BY <1>1, <1>2, EraseLost
<1>3. CASE Bucket(t) = Mine(t) /\ Store(t, Word32(TOMBSTONE, FALSE))
  <2> SUFFICES ASSUME NEW w, w = Word32(TOMBSTONE, FALSE)
               PROVE  IInv' /\ Ends(t, TRUE, Live \ {local[t].key})
    OBVIOUS
  <2>1. w \in Words /\ ~ w.marked /\ w.key = TOMBSTONE /\ w.key \notin Keys
    BY KeyFacts DEF Word32, Words
  <2>2. ~ Bucket(t).marked /\ WordStep(Bucket(t), w)
    BY <1>3, <2>1 DEF Mine, Word32, WordStep
  <2>3. (Live \ {Bucket(t).key}) \cup ({w.key} \cap Keys) = Live \ {local[t].key}
    BY <1>3, <2>1 DEF Mine, Word32
  <2> QED
    BY <1>1, <1>3, <2>1, <2>2, <2>3, StoreKeeps
<1> QED
  BY <1>2, <1>3 DEF EraseCAS

-----------------------------------------------------------------------------
-----------------------------------------------------------------------------
(* A step of thread t that no caller can see. *)
Hidden(t) ==
  /\ Moves(t) /\ seen' = seen /\ result' = result
  /\ current' # current => Migrated(current)
  /\ outcome' \in {outcome, "ran out", "no keys", "bad alloc"}

LEMMA SameTables ==
  ASSUME IInv, UNCHANGED <<tables, current>>
  PROVE  Quiet /\ Evolve /\ Live' = Live
<1>1. Quiet
  BY DEF Quiet, SameSkeleton, SameButBuckets
<1>2. TypeOK /\ Chain
  BY DEF IInv, Globals
<1> QED
  BY <1>1, <1>2, QuietFacts, QuietLive

LEMMA OnlyHidden ==
  ASSUME IInv, NEW t \in Threads, NEW l, Only(t, l),
         l.op = local[t].op, l.key = local[t].key
  PROVE  Hidden(t)
<1>1. /\ tables' = tables /\ current' = current /\ seen' = seen /\ result' = result
      /\ outcome' = outcome /\ local' = [local EXCEPT ![t] = l]
  BY DEF Only, quiet
<1>2. local'[t] = l /\ Stay(t)
  BY <1>1 DEF IInv, TypeOK, Stay
<1>3. Evolve /\ Live' = Live
  BY <1>1, SameTables
<1> QED
  BY <1>1, <1>2, <1>3 DEF Hidden, Moves

LEMMA GotoHidden ==
  ASSUME IInv, NEW t \in Threads, NEW p, OnlyGoto(t, p)
  PROVE  Hidden(t)
<1>1. local[t] \in LocalSet
  BY LocalFacts DEF IInv
<1> DEFINE l == [local[t] EXCEPT !.pc = p]
<1>2. l.op = local[t].op /\ l.key = local[t].key
  BY <1>1 DEF LocalSet
<1>3. Only(t, l)
  BY DEF OnlyGoto
<1> HIDE DEF l
<1> QED
  BY <1>2, <1>3, OnlyHidden

LEMMA FailHidden ==
  ASSUME IInv, NEW t \in Threads, NEW what \in {"ran out", "no keys", "bad alloc"}, Fail(what)
  PROVE  Hidden(t)
<1>1. /\ UNCHANGED <<tables, current>> /\ local' = local /\ seen' = seen
      /\ result' = result /\ outcome' = what
  BY DEF Fail
<1>2. Evolve /\ Live' = Live
  BY <1>1, SameTables
<1> QED
  BY <1>1, <1>2 DEF Hidden, Moves, Stay

LEMMA RestartHidden ==
  ASSUME IInv, NEW t \in Threads, local[t].pc # "idle", Restart(t)
  PROVE  Hidden(t)
<1>1. TypeOK /\ local[t].op \in {"insert", "erase"} /\ local[t].key \in Keys
  BY DEF IInv, InPlace, InCall
<1> DEFINE l == Begin(local[t].op, local[t].key)
<1>2. l.op = local[t].op /\ l.key = local[t].key
  BY <1>1, BeginIs
<1>3. Only(t, l)
  BY DEF Restart
<1> HIDE DEF l
<1> QED
  BY <1>2, <1>3, OnlyHidden

LEMMA NextBucketCall ==
  ASSUME IInv, NEW t \in Threads
  PROVE  NextBucket(t).op = local[t].op /\ NextBucket(t).key = local[t].key
<1>1. local[t] \in LocalSet
  BY LocalFacts DEF IInv
<1> QED
  BY <1>1 DEF NextBucket, LocalSet

-----------------------------------------------------------------------------
LEMMA HelpTestHidden == ASSUME IInv, NEW t \in Threads, HelpTest(t) PROVE Hidden(t)
BY GotoHidden DEF HelpTest

LEMMA ReadOldHidden == ASSUME IInv, NEW t \in Threads, ReadOld(t) PROVE Hidden(t)
<1> DEFINE f == OldOf(local[t].help).bucket[local[t].b]
           l == [local[t] EXCEPT !.pc = "mark", !.found = f]
<1>1. local[t] \in LocalSet
  BY LocalFacts DEF IInv
<1>2. l.op = local[t].op /\ l.key = local[t].key
  <2> HIDE DEF f
  <2> QED
    BY <1>1 DEF LocalSet
<1>3. Only(t, l)
  BY Zenon DEF ReadOld
<1> HIDE DEF l
<1> QED
  BY <1>2, <1>3, OnlyHidden

LEMMA CopyCallHidden == ASSUME IInv, NEW t \in Threads, CopyCall(t) PROVE Hidden(t)
<1> DEFINE l == [local[t] EXCEPT !.pc = "copyRead", !.into = current]
<1>1. local[t] \in LocalSet
  BY LocalFacts DEF IInv
<1>2. l.op = local[t].op /\ l.key = local[t].key
  BY <1>1 DEF LocalSet
<1>3. Only(t, l)
  BY Zenon DEF CopyCall
<1> HIDE DEF l
<1> QED
  BY <1>2, <1>3, OnlyHidden

LEMMA CopyAdvanceHidden ==
  ASSUME IInv, NEW t \in Threads, CopyAdvance(t)
  PROVE  Hidden(t)
<1> DEFINE n == local[t].j + 1
           l == [local[t] EXCEPT !.pc = "copyRead", !.j = n]
<1>1. local[t] \in LocalSet
  BY LocalFacts DEF IInv
<1>2. l.op = local[t].op /\ l.key = local[t].key
  <2> HIDE DEF n
  <2> QED
    BY <1>1 DEF LocalSet
<1>3. Only(t, l) \/ Fail("ran out")
  BY Zenon DEF CopyAdvance
<1> HIDE DEF l
<1> QED
  BY <1>2, <1>3, OnlyHidden, FailHidden

(* migrate never finds its key in the new table. *)
LEMMA CopyReadHidden == ASSUME IInv, NEW t \in Threads, CopyRead(t) PROVE Hidden(t)
<1>1. Target(t) # Copied(t)
  BY CopyLabels, CopyTarget DEF CopyRead
<1>2. OnlyGoto(t, "copyCAS") \/ CopyAdvance(t)
  BY <1>1 DEF CopyRead
<1> QED
  BY <1>2, GotoHidden, CopyAdvanceHidden

LEMMA CopyRecheckHidden == ASSUME IInv, NEW t \in Threads, CopyRecheck(t) PROVE Hidden(t)
<1>1. Target(t) # Copied(t)
  BY CopyLabels, CopyTarget DEF CopyRecheck
<1>2. CopyAdvance(t)
  BY <1>1 DEF CopyRecheck
<1> QED
  BY <1>2, CopyAdvanceHidden

LEMMA CheckUseHidden == ASSUME IInv, NEW t \in Threads, CheckUse(t) PROVE Hidden(t)
BY GotoHidden DEF CheckUse

LEMMA CountUseHidden == ASSUME IInv, NEW t \in Threads, CountUse(t) PROVE Hidden(t)
<1> DEFINE acc == local[t].acc + Part(tables[local[t].tab].inserts, local[t].pos)
           n == local[t].pos + 1
           p == IF HalfUsed(t, acc) THEN "start" ELSE "probe"
           l == [local[t] EXCEPT !.acc = acc, !.pos = n]
           m == [local[t] EXCEPT !.acc = 0, !.pos = 0, !.pc = p]
<1>1. local[t] \in LocalSet
  BY LocalFacts DEF IInv
<1>2. l.op = local[t].op /\ l.key = local[t].key /\ m.op = local[t].op /\ m.key = local[t].key
  <2> HIDE DEF acc, n, p
  <2> QED
    BY <1>1 DEF LocalSet
<1>3. Only(t, l) \/ Only(t, m)
  BY Zenon DEF CountUse
<1> HIDE DEF l, m
<1> QED
  BY <1>2, <1>3, OnlyHidden

LEMMA StartExpansionHidden ==
  ASSUME IInv, NEW t \in Threads, StartExpansion(t)
  PROVE  Hidden(t)
BY GotoHidden DEF StartExpansion

LEMMA CountKeysHidden == ASSUME IInv, NEW t \in Threads, CountKeys(t) PROVE Hidden(t)
<1> DEFINE tab == tables[local[t].tab]
           pos == local[t].pos
           acc == local[t].acc + (IF pos <= NumThreads THEN Part(tab.inserts, pos)
                                  ELSE 0 - Part(tab.deletes, pos - NumThreads - 1))
           n == pos + 1
           c == IF acc = 0 THEN 2 * tab.cap ELSE 4 * acc
           l == [local[t] EXCEPT !.acc = acc, !.pos = n]
           m == [local[t] EXCEPT !.acc = 0, !.pos = 0, !.pc = "swap", !.cap = c]
<1>1. local[t] \in LocalSet
  BY LocalFacts DEF IInv
<1>2. l.op = local[t].op /\ l.key = local[t].key /\ m.op = local[t].op /\ m.key = local[t].key
  <2> HIDE DEF acc, n, c
  <2> QED
    BY <1>1 DEF LocalSet
<1>3. Only(t, l) \/ Only(t, m) \/ Fail("no keys") \/ Fail("bad alloc")
  BY Zenon DEF CountKeys
<1> HIDE DEF l, m
<1> QED
  BY <1>2, <1>3, OnlyHidden, FailHidden

LEMMA HelpCurrentHidden == ASSUME IInv, NEW t \in Threads, HelpCurrent(t) PROVE Hidden(t)
<1> DEFINE l == [local[t] EXCEPT !.pc = "expand", !.help = current, !.restart = TRUE]
<1>1. local[t] \in LocalSet
  BY LocalFacts DEF IInv
<1>2. l.op = local[t].op /\ l.key = local[t].key
  BY <1>1 DEF LocalSet
<1>3. Only(t, l)
  BY Zenon DEF HelpCurrent
<1> HIDE DEF l
<1> QED
  BY <1>2, <1>3, OnlyHidden

LEMMA AfterExpansionHidden ==
  ASSUME IInv, NEW t \in Threads, AfterExpansion(t)
  PROVE  Hidden(t)
BY RestartHidden DEF AfterExpansion, HelpedAll

LEMMA ProbeAgainHidden == ASSUME IInv, NEW t \in Threads, ProbeAgain(t) PROVE Hidden(t)
<1> DEFINE n == local[t].i + 1
           l == [local[t] EXCEPT !.pc = "expand", !.i = n]
<1>1. local[t] \in LocalSet
  BY LocalFacts DEF IInv
<1>2. l.op = local[t].op /\ l.key = local[t].key
  <2> HIDE DEF n
  <2> QED
    BY <1>1 DEF LocalSet
<1>3. Only(t, l)
  BY Zenon DEF ProbeAgain
<1> HIDE DEF l
<1> QED
  BY <1>2, <1>3, OnlyHidden

-----------------------------------------------------------------------------
LEMMA GotoMoves ==
  ASSUME IInv, NEW t \in Threads, NEW p \in Labels, Goto(t, p), Evolve, Live' = Live
  PROVE  Moves(t)
<1>1. local' = [local EXCEPT ![t] = [local[t] EXCEPT !.pc = p]]
  BY Zenon DEF Goto
<1>2. Stay(t) /\ SameProbe(t)
  BY <1>1, GotoSame DEF IInv
<1> QED
  BY <1>2 DEF Moves, SameProbe

LEMMA CounterMoves ==
  ASSUME IInv, NEW t \in Threads, local[t].pc \in CounterLabels, Quiet,
         Goto(t, "flush") \/ Goto(t, "clear") \/ Counted(t)
  PROVE  Moves(t)
<1>1. TypeOK /\ Chain /\ SeenOK(t) /\ Evolve /\ Live' = Live
  BY QuietFacts, QuietLive DEF IInv, Globals, Records
<1>2. CASE Goto(t, "flush") \/ Goto(t, "clear")
  <2>1. PICK p \in {"flush", "clear"} : Goto(t, p)
    BY <1>2
  <2>2. p \in Labels
    BY DEF Labels
  <2> QED
    BY <1>1, <2>1, <2>2, GotoMoves
<1>3. CASE Counted(t)
  <2>1. CASE local[t].into = 0
    <3>1. local' = [local EXCEPT ![t] = Fresh]
      BY <1>3, <2>1 DEF Counted
    <3>2. Stay(t)
      BY <1>1, <3>1 DEF TypeOK, Stay
    <3>3. seen[t] = {}
      BY <1>1, <2>1 DEF SeenOK, Finished, CounterLabels
    <3> QED
      BY <1>1, <3>2, <3>3 DEF Moves
  <2>2. CASE local[t].into # 0
    <3>1. local' = [local EXCEPT ![t] = NextBucket(t)]
      BY <1>3, <2>2 DEF Counted
    <3>2. Stay(t) /\ local'[t] = NextBucket(t)
      BY <1>1, <3>1 DEF TypeOK, Stay
    <3> QED
      BY <1>1, <3>2, NextBucketCall DEF Moves
  <2> QED
    BY <2>1, <2>2
<1> QED
  BY <1>2, <1>3

(* The steps of a counter write no bucket. *)
LEMMA CounterQuiet ==
  ASSUME IInv, NEW t \in Threads, Inc(t) \/ FlushBatch(t) \/ ClearBatch(t)
  PROVE  Quiet
<1>1. /\ TypeOK /\ InCall(t) /\ Locals(t) /\ local[t].pc \in CounterLabels
      /\ current' = current
  BY DEF Inc, FlushBatch, ClearBatch, IInv, InPlace, CounterLabels, quiet
<1>2. /\ Into(t) \in Tables /\ Which(t) \in {"inserts", "deletes"}
      /\ tables[Into(t)][Which(t)] \in Counters
      /\ CounterAt(tables, Into(t), Which(t)) \in Counters
  BY <1>1, CounterPlace, Zenon
<1> DEFINE s == tables[Into(t)][Which(t)].sub[t]
           g == tables[Into(t)][Which(t)].global
           n == s + 1
           m == g + s
<1>3. n \in Nat /\ m \in Nat /\ 0 \in Nat
  <2>1. s \in Nat /\ g \in Nat
    BY <1>2, CounterRecord
  <2> QED
    BY <2>1
<1>4. \/ tables' = SubPut(tables, Into(t), Which(t), t, n)
      \/ tables' = GlobalPut(tables, Into(t), Which(t), m)
      \/ tables' = SubPut(tables, Into(t), Which(t), t, 0)
  BY Zenon DEF Inc, FlushBatch, ClearBatch, SubPut, GlobalPut
<1> HIDE DEF n, m
<1>5. CounterAt(tables, Into(t), Which(t)) \in Counters
  BY <1>2, Zenon
<1>6. PICK x \in Counters : tables' = CounterSet(tables, Into(t), Which(t), x)
  <2>1. \A i \in Nat : \E x \in Counters : SubPut(tables, Into(t), Which(t), t, i)
                                             = CounterSet(tables, Into(t), Which(t), x)
    BY <1>5, SubWritten, Zenon
  <2>2. \E x \in Counters : GlobalPut(tables, Into(t), Which(t), m)
                            = CounterSet(tables, Into(t), Which(t), x)
    BY <1>3, <1>5, GlobalWritten, Zenon
  <2> QED
    BY <1>3, <1>4, <2>1, <2>2, Zenon
<1>7. Into(t) \in Tables /\ Which(t) \in {"inserts", "deletes"}
  BY <1>2
<1> QED
  BY <1>1, <1>6, <1>7, CounterWrite

LEMMA CounterHidden ==
  ASSUME IInv, NEW t \in Threads, Inc(t) \/ FlushBatch(t) \/ ClearBatch(t)
  PROVE  Hidden(t)
<1>1. /\ local[t].pc \in CounterLabels
      /\ Goto(t, "flush") \/ Goto(t, "clear") \/ Counted(t)
  BY DEF Inc, FlushBatch, ClearBatch, CounterLabels
<1>2. /\ current' = current /\ seen' = seen /\ result' = result /\ outcome' = outcome
  BY DEF Inc, FlushBatch, ClearBatch, quiet
<1>3. Moves(t)
  BY <1>1, CounterQuiet, CounterMoves
<1> QED
  BY <1>2, <1>3 DEF Hidden

LEMMA MarkOldHidden == ASSUME IInv, NEW t \in Threads, MarkOld(t) PROVE Hidden(t)
<1> DEFINE T == local[t].help
           O == tables[T].old
           b == local[t].b
<1>1. local[t].pc = "mark"
  BY DEF MarkOld
<1>2. CASE OnlyGoto(t, "read")
  BY <1>2, GotoHidden
<1>3. CASE /\ tables[O].bucket[b] = local[t].found
           /\ tables' = [tables EXCEPT ![O].bucket[b].marked = TRUE]
           /\ AfterMark(t) /\ UNCHANGED quiet
  <2>1. /\ TypeOK /\ Chain /\ O = T - 1 /\ current \in Tables
        /\ current' = current /\ seen' = seen /\ result' = result /\ outcome' = outcome
    BY <1>1, <1>3, MarkPlace, FirstMigrated DEF quiet, IInv, Globals
  <2>2. tables' = MarkSet(tables, T - 1, b) /\ tables[T - 1].bucket[b] = local[t].found
    BY <1>3, <2>1, Zenon DEF MarkSet
  <2>3. Stay(t) /\ SameCall(t)
    BY <1>1, <1>3, <2>2, AfterMarkIs
  <2>4. SameKeys /\ Evolve /\ \A U \in Tables : SameButBuckets(tables'[U], tables[U])
    BY <1>1, <2>1, <2>2, MarkWord
  <2>5. Migrated(current)' <=> Migrated(current)
    <3>1. Chunks(current)' = Chunks(current) /\ tables'[current].done = tables[current].done
      BY <2>1, <2>4, ChunksKept DEF SameButBuckets, Chunks
    <3> QED
      BY <2>1, <3>1 DEF Migrated, Chunks
  <2>6. Live' = Live
    BY <2>4, <2>5, SameKeysLive
  <2> QED
    BY <2>1, <2>3, <2>4, <2>6 DEF Hidden, Moves, SameCall, SameProbe
<1> QED
  BY <1>2, <1>3, Zenon DEF MarkOld

LEMMA CopyCASHidden == ASSUME IInv, NEW t \in Threads, CopyCAS(t) PROVE Hidden(t)
<1> SUFFICES ASSUME NEW T, T = local[t].help PROVE Hidden(t)
  OBVIOUS
<1>1. local[t].pc = "copyCAS" /\ Copying(t) /\ local[t].into # 0
  BY CopyLabels DEF CopyCAS
<1>2. CASE Target(t) # Vacant /\ OnlyGoto(t, "copyRecheck")
  BY <1>2, GotoHidden
<1>3. CASE /\ Target(t) = Vacant
           /\ tables' = [tables EXCEPT ![local[t].into].bucket[CopySlot(t)] = Copied(t)]
           /\ Goto(t, "inc")
           /\ UNCHANGED quiet
  <2>1. /\ TypeOK /\ Chain /\ T \in Tables /\ T = current /\ ~ Migrated(current)
        /\ T - 1 \in Tables /\ tables[T].old = T - 1 /\ T - 1 # T
    BY <1>1, CopyPlace DEF Chain, Tables
  <2>2. current' = current /\ seen' = seen /\ result' = result /\ outcome' = outcome
    BY <1>3 DEF quiet
  <2>3. Written(T, CopySlot(t), Copied(t)) /\ CopySlot(t) \in Buckets(T)
    <3>1. tables' = WordSet(tables, local[t].into, CopySlot(t), Copied(t))
      BY <1>3, Zenon DEF WordSet
    <3> QED
      BY <1>1, <1>3, <2>2, <3>1, CopyWrite
  <2>4. /\ Evolve /\ (Migrated(T)' <=> Migrated(T)) /\ tables'[T].old = tables[T].old
        /\ tables'[T - 1] = tables[T - 1]
    BY <2>1, <2>3, WrittenFacts DEF Written
  <2>5. Live' = Live
    <3>1. ~ Migrated(current)'
      BY <2>1, <2>2, <2>4 DEF Migrated
    <3> QED
      BY <2>1, <2>2, <2>4, <3>1 DEF Live, LiveIn, Migrated
  <2>6. Moves(t)
    BY <1>3, <2>4, <2>5, GotoMoves DEF Labels
  <2> QED
    BY <2>2, <2>6 DEF Hidden
<1> QED
  BY <1>2, <1>3, Zenon DEF CopyCAS

LEMMA HelpClaimHidden == ASSUME IInv, NEW t \in Threads, HelpClaim(t) PROVE Hidden(t)
<1> DEFINE T == local[t].help
           c == tables[T].claimed
<1>1. /\ local[t].pc = "claim" /\ current' = current /\ seen' = seen
      /\ result' = result /\ outcome' = outcome
  BY DEF HelpClaim, quiet
<1>2. TypeOK /\ T \in Tables
  BY <1>1, NotMigrating DEF InCall
<1>3. tables' = ClaimSet(tables, T)
  BY Zenon DEF HelpClaim, ClaimSet
<1>4. Evolve /\ Live' = Live
  BY <1>1, <1>2, <1>3, Claimed DEF SameBuckets
<1>5. CASE c < OldChunks(tables, T)
  <2> DEFINE n == c * Chunk
  <2>1. local' = [local EXCEPT ![t] = ReadMore(local[t], "read", n)]
    BY <1>5, Zenon DEF HelpClaim, ReadMore
  <2>2. c \in Nat /\ Chunk \in Nat
    BY <1>2, TableFacts, ExpandAssumption
  <2>3. n \in Nat
    BY <2>2
  <2> HIDE DEF n
  <2>4. Stay(t) /\ SameProbe(t)
    BY <1>2, <2>1, <2>3, ReadSame DEF Labels
  <2> QED
    BY <1>1, <1>4, <2>4 DEF Hidden, Moves, SameProbe
<1>6. CASE ~ (c < OldChunks(tables, T))
  <2>1. Goto(t, "expand")
    BY <1>6, Zenon DEF HelpClaim
  <2>2. Moves(t)
    BY <1>4, <2>1, GotoMoves DEF Labels
  <2> QED
    BY <1>1, <2>2 DEF Hidden
<1> QED
  BY <1>5, <1>6

LEMMA ChunkDoneHidden == ASSUME IInv, NEW t \in Threads, ChunkDone(t) PROVE Hidden(t)
BY ChunkDoneKeeps DEF ChunkDone, quiet, Hidden

LEMMA PublishHidden == ASSUME IInv, NEW t \in Threads, Publish(t) PROVE Hidden(t)
BY PublishKeeps DEF Publish, Hidden

-----------------------------------------------------------------------------
-----------------------------------------------------------------------------
(* Some moment since its call justifies that the operation of t fails. *)
Justified(t) ==
  \/ local[t].op = "insert" /\ \E S \in seen[t] : local[t].key \in S
  \/ local[t].op = "erase" /\ \E S \in seen[t] : local[t].key \notin S

Refused(t) == Return(t, FALSE) /\ Justified(t)

LEMMA ProbePlace ==
  ASSUME IInv, NEW t \in Threads, local[t].pc \in {"probe", "cas", "recheck"}
  PROVE  LET T == local[t].tab IN
         /\ TypeOK /\ Prober(t) /\ LostErase(t) /\ local[t].pc # "idle"
         /\ T \in Tables /\ Migrated(T) /\ Here(t) \in Buckets(T)
         /\ tables[T].bucket[Here(t)] \in Words
         /\ local[t].key \in Keys /\ local[t].i \in Buckets(T)
         /\ seen[t] # {} /\ Live \in seen[t]
         /\ \A m \in 0 .. local[t].i - 1 :
              tables[T].bucket[Slot(T, local[t].key, m)].key \notin {EMPTY, local[t].key}
<1>1. /\ TypeOK /\ InCall(t) /\ Helped(t) /\ Prober(t) /\ LostErase(t) /\ SeenOK(t)
      /\ ~ Finished(t) /\ local[t].pc # "idle"
  BY NotMigrating
<1>2. /\ local[t].tab \in Tables /\ Migrated(local[t].tab) /\ local[t].key \in Keys
      /\ local[t].i \in Buckets(local[t].tab) /\ local[t].i \in Nat
  BY <1>1, LocalFacts DEF InCall, Helped
<1>3. Here(t) \in Buckets(local[t].tab)
  BY <1>1, <1>2, SlotInside DEF Here
<1>4. tables[local[t].tab].bucket \in [Buckets(local[t].tab) -> Words]
  BY <1>1, <1>2, TableFacts
<1>5. seen[t] # {} /\ Live \in seen[t]
  BY <1>1 DEF SeenOK
<1>6. \A m \in 0 .. local[t].i - 1 :
        tables[local[t].tab].bucket[Slot(local[t].tab, local[t].key, m)].key
          \notin {EMPTY, local[t].key}
  BY <1>1 DEF Prober
<1> QED
  BY <1>1, <1>2, <1>3, <1>4, <1>5, <1>6

(* The bucket that a probe reads is in the table that counts, as long as   *)
(* it has no mark.                                                         *)
LEMMA ProbeIsLive ==
  ASSUME IInv, NEW t \in Threads, local[t].pc \in {"probe", "cas", "recheck"},
         ~ Bucket(t).marked
  PROVE  Live = KeysIn(tables[local[t].tab])
<1>1. /\ local[t].tab \in Tables /\ Migrated(local[t].tab)
      /\ Here(t) \in Buckets(local[t].tab)
      /\ ~ tables[local[t].tab].bucket[Here(t)].marked
  BY ProbePlace DEF Bucket
<1> QED
  BY <1>1, LivePlace

(* A probe that finds its key sees it in the set. *)
LEMMA FoundIsPresent ==
  ASSUME IInv, NEW t \in Threads, local[t].pc \in {"probe", "cas", "recheck"},
         Bucket(t) = Mine(t)
  PROVE  local[t].key \in Live
<1>1. Live = KeysIn(tables[local[t].tab])
  BY ProbeIsLive DEF Mine, Word32
<1>2. Here(t) \in Buckets(local[t].tab) /\ local[t].key \in Keys
  BY ProbePlace
<1> QED
  BY <1>1, <1>2 DEF KeysIn, Buckets, Bucket, Mine, Word32

(* A probe that gets to a vacant bucket knows its key is not in the set.   *)
LEMMA VacantMeansAbsent ==
  ASSUME IInv, NEW t \in Threads, local[t].pc \in {"probe", "cas", "recheck"},
         Bucket(t) = Vacant
  PROVE  local[t].key \notin Live
<1>1. Live = KeysIn(tables[local[t].tab])
  BY ProbeIsLive DEF Vacant, Word32
<1>2. tables[local[t].tab].bucket[Slot(local[t].tab, local[t].key, local[t].i)].key = EMPTY
  BY DEF Bucket, Here, Vacant, Word32
<1> QED
  BY <1>1, <1>2, ProbePlace, AbsentBeforeEmpty DEF IInv, Globals

(* So does one that has passed every bucket. *)
LEMMA ExhaustedMeansAbsent ==
  ASSUME IInv, NEW t \in Threads, local[t].pc \in {"probe", "cas", "recheck"},
         Other(t), ~ (local[t].i + 1 < tables[local[t].tab].cap)
  PROVE  local[t].key \notin Live
<1> SUFFICES ASSUME NEW T, T = local[t].tab, NEW k, k = local[t].key,
                    NEW i, i = local[t].i, k \in Live
             PROVE  FALSE
  OBVIOUS
<1>1. /\ TypeOK /\ T \in Tables /\ k \in Keys /\ i \in Buckets(T)
      /\ \A m \in 0 .. i - 1 : tables[T].bucket[Slot(T, k, m)].key \notin {EMPTY, k}
  BY ProbePlace
<1>2. Live = KeysIn(tables[T])
  BY ProbeIsLive DEF Other
<1>3. PICK b \in Buckets(T) : tables[T].bucket[b].key = k
  BY <1>2 DEF KeysIn, Buckets
<1>4. PICK n \in Buckets(T) : Slot(T, k, n) = b
  BY <1>1, <1>3 DEF KeysReachable, IInv, Globals
<1>5. i \in Nat /\ n \in Nat /\ ~ (i < n)
  <2>1. tables[T].cap \in Nat
    BY <1>1, TableFacts
  <2> QED
    BY <1>1, <1>4, <2>1 DEF Buckets
<1>6. n # i
  BY <1>3, <1>4 DEF Other, Bucket, Here
<1>7. n \in 0 .. i - 1
  BY <1>5, <1>6
<1> QED
  BY <1>1, <1>3, <1>4, <1>7

LEMMA NextProbeAnswers ==
  ASSUME IInv, NEW t \in Threads, local[t].pc \in {"probe", "cas", "recheck"},
         local[t].op \in {"insert", "erase"}, Other(t), NextProbe(t)
  PROVE  Hidden(t) \/ Refused(t)
<1>1. CASE local[t].i + 1 < tables[local[t].tab].cap
  BY <1>1, ProbeAgainHidden DEF NextProbe
<1>2. CASE ~ (local[t].i + 1 < tables[local[t].tab].cap)
  <2>1. AfterLoop(t)
    BY <1>2 DEF NextProbe
  <2>2. CASE local[t].op = "insert"
    BY <2>1, <2>2, FailHidden DEF AfterLoop
  <2>3. CASE local[t].op = "erase"
    <3>1. Return(t, FALSE)
      BY <2>1, <2>3 DEF AfterLoop
    <3>2. local[t].key \notin Live /\ Live \in seen[t]
      BY <1>2, ExhaustedMeansAbsent, ProbePlace
    <3> QED
      BY <2>3, <3>1, <3>2 DEF Refused, Justified
  <2> QED
    BY <2>2, <2>3
<1> QED
  BY <1>1, <1>2

LEMMA InsertReadAnswers ==
  ASSUME IInv, NEW t \in Threads, InsertRead(t)
  PROVE  Hidden(t) \/ Refused(t)
<1>1. local[t].pc = "probe" /\ local[t].op = "insert"
  BY DEF InsertRead, At
<1>2. \/ Restart(t) \/ OnlyGoto(t, "cas")
      \/ Bucket(t) = Mine(t) /\ Return(t, FALSE)
      \/ Other(t) /\ NextProbe(t)
  BY Zenon DEF InsertRead
<1>3. CASE Bucket(t) = Mine(t) /\ Return(t, FALSE)
  <2>1. local[t].key \in Live /\ Live \in seen[t]
    BY <1>1, <1>3, FoundIsPresent, ProbePlace
  <2> QED
    BY <1>1, <1>3, <2>1 DEF Refused, Justified
<1>4. CASE Other(t) /\ NextProbe(t)
  BY <1>1, <1>4, NextProbeAnswers
<1> QED
  BY <1>1, <1>2, <1>3, <1>4, RestartHidden, GotoHidden

LEMMA InsertRecheckAnswers ==
  ASSUME IInv, NEW t \in Threads, InsertRecheck(t)
  PROVE  Hidden(t) \/ Refused(t)
<1>1. local[t].pc = "recheck" /\ local[t].op = "insert"
  BY DEF InsertRecheck, At
<1>2. \/ Restart(t)
      \/ Bucket(t) = Mine(t) /\ Return(t, FALSE)
      \/ Other(t) /\ NextProbe(t)
  BY Zenon DEF InsertRecheck
<1>3. CASE Bucket(t) = Mine(t) /\ Return(t, FALSE)
  <2>1. local[t].key \in Live /\ Live \in seen[t]
    BY <1>1, <1>3, FoundIsPresent, ProbePlace
  <2> QED
    BY <1>1, <1>3, <2>1 DEF Refused, Justified
<1>4. CASE Other(t) /\ NextProbe(t)
  BY <1>1, <1>4, NextProbeAnswers
<1> QED
  BY <1>1, <1>2, <1>3, <1>4, RestartHidden

LEMMA EraseReadAnswers ==
  ASSUME IInv, NEW t \in Threads, EraseRead(t)
  PROVE  Hidden(t) \/ Refused(t)
<1>1. local[t].pc = "probe" /\ local[t].op = "erase"
  BY DEF EraseRead, At
<1>2. \/ Restart(t) \/ OnlyGoto(t, "cas")
      \/ Bucket(t) = Vacant /\ Return(t, FALSE)
      \/ Other(t) /\ NextProbe(t)
  BY Zenon DEF EraseRead
<1>3. CASE Bucket(t) = Vacant /\ Return(t, FALSE)
  <2>1. local[t].key \notin Live /\ Live \in seen[t]
    BY <1>1, <1>3, VacantMeansAbsent, ProbePlace
  <2> QED
    BY <1>1, <1>3, <2>1 DEF Refused, Justified
<1>4. CASE Other(t) /\ NextProbe(t)
  BY <1>1, <1>4, NextProbeAnswers
<1> QED
  BY <1>1, <1>2, <1>3, <1>4, RestartHidden, GotoHidden

(* The key of an erase that finds a tombstone was lost since its call. *)
LEMMA EraseRecheckAnswers ==
  ASSUME IInv, NEW t \in Threads, EraseRecheck(t)
  PROVE  Hidden(t) \/ Refused(t)
<1>1. local[t].pc = "recheck" /\ local[t].op = "erase"
  BY DEF EraseRecheck, At
<1>2. \/ Restart(t)
      \/ Bucket(t) = Word32(TOMBSTONE, FALSE) /\ Return(t, FALSE)
  BY Zenon DEF EraseRecheck
<1>3. CASE Bucket(t) = Word32(TOMBSTONE, FALSE) /\ Return(t, FALSE)
  <2>1. local[t].key \in Keys /\ LostErase(t)
    BY <1>1, ProbePlace
  <2>2. Gone(t)
    BY <1>3, <2>1, KeyFacts DEF Gone, Mine, Word32
  <2> QED
    BY <1>1, <1>3, <2>1, <2>2 DEF Refused, Justified, LostErase
<1> QED
  BY <1>1, <1>2, <1>3, RestartHidden

-----------------------------------------------------------------------------
LEMMA RefusedEnds ==
  ASSUME IInv, NEW t \in Threads, Return(t, FALSE)
  PROVE  Ends(t, FALSE, Live)
<1>1. Answer(t, FALSE, tables) /\ local' = [local EXCEPT ![t] = Fresh]
  BY Zenon DEF Return
<1>2. /\ tables' = tables /\ current' = current /\ result' = [result EXCEPT ![t] = FALSE]
      /\ seen' = [u \in Threads |-> IF u = t \/ seen[u] = {} THEN {}
                                    ELSE seen[u] \cup {Live'}]
  BY <1>1, AnswerIs
<1>3. outcome' = outcome
  BY <1>1 DEF Answer
<1>4. Evolve /\ Live' = Live
  BY <1>2, SameTables
<1>5. Stay(t)
  BY <1>1 DEF IInv, TypeOK, Stay
<1> QED
  BY <1>2, <1>3, <1>4, <1>5 DEF Ends

(* What a step of thread t does, as its caller sees it. *)
Inserted(t) ==
  /\ local[t].op = "insert" /\ local[t].key \notin Live
  /\ Ends(t, TRUE, Live \cup {local[t].key})

Erased(t) ==
  /\ local[t].op = "erase" /\ local[t].key \in Live
  /\ Ends(t, TRUE, Live \ {local[t].key})

Failed(t) == Justified(t) /\ Ends(t, FALSE, Live)

Answered(t) == seen[t] # {} /\ (Inserted(t) \/ Erased(t) \/ Failed(t))

Called(t, o, k) ==
  /\ seen[t] = {} /\ Evolve /\ Stay(t) /\ Live' = Live
  /\ current' = current /\ outcome' = outcome /\ result' = result
  /\ seen' = [seen EXCEPT ![t] = {Live}]
  /\ local'[t].op = o /\ local'[t].key = k

LEMMA RefusedAnswers ==
  ASSUME IInv, NEW t \in Threads, local[t].pc \in {"probe", "recheck"},
         Hidden(t) \/ Refused(t)
  PROVE  Hidden(t) \/ Answered(t)
<1>1. seen[t] # {}
  BY ProbePlace
<1> QED
  BY <1>1, RefusedEnds DEF Refused, Answered, Failed

LEMMA CASAnswers ==
  ASSUME IInv, NEW t \in Threads, InsertCAS(t) \/ EraseCAS(t)
  PROVE  Hidden(t) \/ Answered(t)
<1>1. local[t].pc = "cas"
  BY DEF InsertCAS, EraseCAS, At
<1>2. seen[t] # {}
  BY <1>1, ProbePlace
<1>3. CASE InsertCAS(t)
  <2>1. local[t].op = "insert"
    BY <1>3 DEF InsertCAS, At
  <2>2. CASE Bucket(t) = Vacant
    <3>1. local[t].key \notin Live
      BY <1>1, <2>2, VacantMeansAbsent
    <3> QED
      BY <1>2, <1>3, <2>1, <2>2, <3>1, InsertCASKeeps DEF Answered, Inserted
  <2>3. CASE OnlyGoto(t, "recheck")
    BY <2>3, GotoHidden
  <2> QED
    BY <1>3, <2>2, <2>3, Zenon DEF InsertCAS
<1>4. CASE EraseCAS(t)
  <2>1. local[t].op = "erase"
    BY <1>4 DEF EraseCAS, At
  <2>2. CASE Bucket(t) = Mine(t)
    <3>1. local[t].key \in Live
      BY <1>1, <2>2, FoundIsPresent
    <3> QED
      BY <1>2, <1>4, <2>1, <2>2, <3>1, EraseCASKeeps DEF Answered, Erased
  <2>3. CASE OnlyGoto(t, "recheck")
    BY <2>3, GotoHidden
  <2> QED
    BY <1>4, <2>2, <2>3, Zenon DEF EraseCAS
<1> QED
  BY <1>3, <1>4

LEMMA CallCalls ==
  ASSUME IInv, NEW t \in Threads, NEW o \in {"insert", "erase"}, NEW k \in Keys,
         Call(t, o, k)
  PROVE  Called(t, o, k)
<1> DEFINE l == Begin(o, k)
<1>1. /\ local[t].pc = "idle" /\ tables' = tables /\ current' = current
      /\ outcome' = outcome /\ result' = result
      /\ seen' = [seen EXCEPT ![t] = {Live}] /\ local' = [local EXCEPT ![t] = l]
  BY DEF Call
<1>2. l.op = o /\ l.key = k
  BY BeginIs DEF IInv
<1> HIDE DEF l
<1>3. local'[t] = l /\ Stay(t)
  BY <1>1 DEF IInv, TypeOK, Stay
<1>4. seen[t] = {}
  BY <1>1 DEF IInv, Records, SeenOK, Finished
<1>5. Evolve /\ Live' = Live
  BY <1>1, SameTables
<1> QED
  BY <1>1, <1>2, <1>3, <1>4, <1>5 DEF Called

-----------------------------------------------------------------------------
LEMMA StepKeeps == ASSUME IInv, NEW t \in Threads, Step(t) PROVE IInv'
BY HelpTestKeeps, HelpClaimKeeps, ReadOldKeeps, MarkOldKeeps, CopyCallKeeps, CopyReadKeeps,
   CopyCASKeeps, CopyRecheckKeeps, ChunkDoneKeeps, CheckUseKeeps, CountUseKeeps,
   StartExpansionKeeps, CountKeysKeeps, PublishKeeps, HelpCurrentKeeps, AfterExpansionKeeps,
   InsertReadKeeps, InsertCASKeeps, InsertRecheckKeeps, EraseReadKeeps, EraseCASKeeps,
   EraseRecheckKeeps, IncKeeps, FlushBatchKeeps, ClearBatchKeeps, Zenon
   DEF Step

LEMMA StepAnswers == ASSUME IInv, NEW t \in Threads, Step(t) PROVE Hidden(t) \/ Answered(t)
<1>1. CASE InsertRead(t) \/ InsertRecheck(t) \/ EraseRead(t) \/ EraseRecheck(t)
  <2>1. local[t].pc \in {"probe", "recheck"}
    BY <1>1 DEF InsertRead, InsertRecheck, EraseRead, EraseRecheck, At
  <2>2. Hidden(t) \/ Refused(t)
    BY <1>1, InsertReadAnswers, InsertRecheckAnswers, EraseReadAnswers, EraseRecheckAnswers
  <2> QED
    BY <2>1, <2>2, RefusedAnswers
<1>2. CASE InsertCAS(t) \/ EraseCAS(t)
  BY <1>2, CASAnswers
<1>3. CASE Inc(t) \/ FlushBatch(t) \/ ClearBatch(t)
  BY <1>3, CounterHidden
<1>4. CASE \/ HelpTest(t) \/ HelpClaim(t) \/ ReadOld(t) \/ MarkOld(t) \/ CopyCall(t)
           \/ CopyRead(t) \/ CopyCAS(t) \/ CopyRecheck(t) \/ ChunkDone(t)
           \/ CheckUse(t) \/ CountUse(t) \/ StartExpansion(t) \/ CountKeys(t)
           \/ Publish(t) \/ HelpCurrent(t) \/ AfterExpansion(t)
  BY <1>4, HelpTestHidden, HelpClaimHidden, ReadOldHidden, MarkOldHidden, CopyCallHidden,
     CopyReadHidden, CopyCASHidden, CopyRecheckHidden, ChunkDoneHidden, CheckUseHidden,
     CountUseHidden, StartExpansionHidden, CountKeysHidden, PublishHidden,
     HelpCurrentHidden, AfterExpansionHidden, Zenon
<1> QED
  BY <1>1, <1>2, <1>3, <1>4, Zenon DEF Step

LEMMA StutterKeeps == ASSUME IInv, UNCHANGED vars PROVE IInv'
<1>1. Fail(outcome)
  BY DEF vars, Fail
<1> QED
  BY <1>1, FailKeeps

(* Every step keeps the invariant. *)
LEMMA NextKeeps == IInv /\ [Next]_vars => IInv'
<1> SUFFICES ASSUME IInv, [Next]_vars PROVE IInv'
  OBVIOUS
<1>1. CASE UNCHANGED vars
  BY <1>1, StutterKeeps
<1>2. ASSUME NEW t \in Threads, Step(t) PROVE IInv'
  BY <1>2, StepKeeps
<1>3. ASSUME NEW t \in Threads, CallStep(t) PROVE IInv'
  BY <1>3, CallKeeps DEF CallStep
<1>4. CASE Ended
  BY <1>1, <1>4 DEF Ended
<1> QED
  BY <1>1, <1>2, <1>3, <1>4, Zenon DEF Next

-----------------------------------------------------------------------------
LEMMA InitTables ==
  ASSUME Init
  PROVE  /\ tables \in Seq(TableSet) /\ Len(tables) = 1 /\ Tables = {1} /\ current = 1
         /\ tables[1].old = 0 /\ tables[1].claimed = 0 /\ tables[1].done = 0
         /\ Chunks(1) = 0 /\ Migrated(1) /\ Live = {}
         /\ \A b \in Buckets(1) : tables[1].bucket[b] = Vacant
         /\ KeysIn(tables[1]) = {}
<1> DEFINE tab == NewTable(InitCap, 0)
<1>1. tab \in TableSet /\ tab.old = 0 /\ tab.claimed = 0 /\ tab.done = 0
      /\ \A b \in 0 .. tab.cap - 1 : tab.bucket[b] = Vacant
  BY NewTableIs, ExpandAssumption
<1> HIDE DEF tab
<1>2. tables = <<tab>> /\ current = 1
  BY DEF Init, tab
<1>3. tables \in Seq(TableSet) /\ Len(tables) = 1 /\ tables[1] = tab
  BY <1>1, <1>2
<1>4. Tables = {1}
  BY <1>3 DEF Tables
<1>5. Chunks(1) = 0 /\ Migrated(1)
  BY <1>1, <1>3 DEF Chunks, OldChunks, Migrated
<1>6. KeysIn(tables[1]) = {}
  BY <1>1, <1>3, KeyFacts DEF KeysIn, Vacant, Word32
<1>7. Live = {}
  BY <1>2, <1>5, <1>6 DEF Live, LiveIn, Migrated
<1> QED
  BY <1>1, <1>2, <1>3, <1>4, <1>5, <1>6, <1>7 DEF Buckets

LEMMA InitLocals ==
  ASSUME Init, NEW t \in Threads
  PROVE  /\ local[t] = Fresh /\ local[t].pc = "idle" /\ local[t].into = 0 /\ local[t].j = 0
         /\ local[t].i = 0 /\ ~ Migrating(t) /\ ~ Copying(t) /\ Finished(t)
         /\ seen[t] = {}
<1>1. local[t] = Fresh /\ seen[t] = {}
  BY DEF Init
<1>2. local[t].pc = "idle" /\ local[t].into = 0 /\ local[t].j = 0 /\ local[t].i = 0
  BY <1>1 DEF Fresh
<1> QED
  BY <1>1, <1>2 DEF Migrating, Copying, Finished

LEMMA InitTypes == ASSUME Init PROVE TypeOK
<1>1. Fresh \in LocalSet
  BY FreshIs
<1>2. local \in [Threads -> LocalSet]
  BY <1>1 DEF Init
<1>3. left \in [Threads -> Nat]
  BY ExpandAssumption DEF Init
<1>4. result \in [Threads -> BOOLEAN] /\ seen \in [Threads -> SUBSET SUBSET Keys]
  BY DEF Init
<1>5. tables \in Seq(TableSet) /\ current \in Nat
  BY InitTables
<1> QED
  BY <1>2, <1>3, <1>4, <1>5 DEF TypeOK

LEMMA InitHolds == Init => IInv
<1> SUFFICES ASSUME Init PROVE IInv
  OBVIOUS
<1>1. TypeOK
  BY InitTypes
<1>2. /\ Len(tables) = 1 /\ Tables = {1} /\ current = 1
      /\ tables[1].old = 0 /\ tables[1].claimed = 0 /\ tables[1].done = 0
      /\ Chunks(1) = 0 /\ Migrated(1) /\ Migrated(current)
      /\ \A b \in Buckets(1) : tables[1].bucket[b].key \notin Keys
                               /\ ~ tables[1].bucket[b].marked
  BY InitTables, KeyFacts DEF Vacant, Word32, Migrated
<1>3. Chain
  BY <1>2 DEF Chain
<1>4. ChunksCounted
  <2>1. Helpers(1) = {}
    BY InitLocals DEF Helpers
  <2> QED
    BY <1>2, <2>1, FS_EmptySet DEF ChunksCounted, Lowest
<1>5. OneOwner
  BY InitLocals DEF OneOwner
<1>6. MarksTellProgress /\ CurrentUnmarked
  BY <1>2 DEF MarksTellProgress, CurrentUnmarked
<1>7. KeysUnique /\ KeysReachable
  BY <1>2 DEF KeysUnique, KeysReachable
<1>8. MarkedKeysMove /\ MovedKeysMarked
  BY <1>2 DEF MarkedKeysMove, MovedKeysMarked
<1>9. ASSUME NEW t \in Threads PROVE InPlace(t) /\ Copier(t) /\ Records(t)
  <2>1. /\ local[t].pc = "idle" /\ local[t].into = 0 /\ local[t].j = 0
        /\ ~ Migrating(t) /\ ~ Copying(t) /\ Finished(t) /\ seen[t] = {}
    BY InitLocals
  <2>2. InCall(t) /\ Helped(t) /\ Locals(t) /\ Owner(t) /\ Copier(t) /\ Prober(t)
    BY <2>1 DEF InCall, Helped, Locals, Owner, Copier, Prober
  <2>3. Records(t)
    BY <2>1 DEF Records, LostErase, SeenOK
  <2> QED
    BY <2>2, <2>3 DEF InPlace
<1> QED
  BY <1>1, <1>3, <1>4, <1>5, <1>6, <1>7, <1>8, <1>9 DEF IInv, Globals

LEMMA Invariant == Spec => []IInv
BY InitHolds, NextKeeps, PTL DEF Spec

-----------------------------------------------------------------------------
-----------------------------------------------------------------------------
(* What every step may do to the tables. *)
LEMMA NextEvolves ==
  ASSUME IInv, [Next]_vars
  PROVE  /\ Evolve /\ (current' # current => Migrated(current))
         /\ outcome' = "copied twice" => outcome = "copied twice"
<1>1. CASE UNCHANGED vars
  BY <1>1, SameTables DEF vars
<1>2. ASSUME NEW t \in Threads, Hidden(t) \/ Answered(t)
      PROVE  /\ Evolve /\ (current' # current => Migrated(current))
             /\ outcome' = "copied twice" => outcome = "copied twice"
  BY <1>2 DEF Hidden, Moves, Answered, Inserted, Erased, Failed, Ends
<1>3. ASSUME NEW t \in Threads, CallStep(t)
      PROVE  Evolve /\ current' = current /\ outcome' = outcome
  BY <1>3, CallCalls DEF CallStep, Called
<1> QED
  BY <1>1, <1>2, <1>3, StepAnswers DEF Next, Ended

(* The tables, the locals of every thread and the history keep their types. *)
THEOREM TypeCorrect == Spec => []TypeOK
<1>1. IInv => TypeOK
  BY DEF IInv
<1> QED
  BY <1>1, Invariant, PTL

(* currentTable moves on only when the migration into it is complete.      *)
THEOREM OneMigration == Spec => OneMigrationAtATime
<1>1. IInv /\ [Next]_vars => [current' # current => Migrated(current)]_vars
  BY NextEvolves
<1> QED
  BY <1>1, Invariant, PTL DEF Spec, OneMigrationAtATime

(* Nobody changes a bucket that migrate has marked. *)
THEOREM MarkedStaysFrozen == Spec => MarkedIsFrozen
<1> DEFINE Frozen ==
      \A T \in 1 .. Len(tables) : \A b \in 0 .. tables[T].cap - 1 :
        tables[T].bucket[b].marked => tables'[T].bucket[b] = tables[T].bucket[b]
<1>1. IInv /\ [Next]_vars => Frozen
  BY NextEvolves DEF Evolve, WordStep, Tables, Buckets
<1> HIDE DEF Frozen
<1>2. Spec => [][Frozen]_vars
  BY <1>1, Invariant, PTL DEF Spec
<1> QED
  BY <1>2 DEF Frozen, MarkedIsFrozen

(* While keys are moved the new table holds only keys whose old bucket is  *)
(* marked, and migrate finds no key there that it is to insert.            *)
THEOREM NewTableIsMoved == Spec => []NewTableHoldsMovedKeys
<1> DEFINE Asserted == outcome # "copied twice"
<1>1. Init => Asserted
  BY DEF Init
<1>2. IInv /\ Asserted /\ [Next]_vars => Asserted'
  BY NextEvolves
<1>3. IInv /\ Asserted => NewTableHoldsMovedKeys
  <2> SUFFICES ASSUME IInv, ~ Migrated(current), NEW k \in KeysIn(tables[current])
               PROVE  Word32(k, TRUE) \in
                        {OldOf(current).bucket[b] : b \in 0 .. OldOf(current).cap - 1}
    BY DEF NewTableHoldsMovedKeys
  <2>1. OldOf(current) = tables[current - 1]
    BY DEF IInv, Globals, Chain, OldOf, Tables, TypeOK
  <2>2. \E b \in Buckets(current - 1) : tables[current - 1].bucket[b] = Word32(k, TRUE)
    BY DEF IInv, Globals, MovedKeysMarked
  <2> QED
    BY <2>1, <2>2 DEF Buckets
<1> HIDE DEF Asserted
<1> QED
  BY <1>1, <1>2, <1>3, Invariant, PTL DEF Spec

-----------------------------------------------------------------------------
-----------------------------------------------------------------------------
(* Refinement: the operations of the expanding table are those of a set. *)
LEMMA AbstractCall ==
  ASSUME IInv, NEW t \in Threads
  PROVE  /\ absCall[t] = Abstract!Idle <=> seen[t] = {}
         /\ seen[t] # {} => absCall[t].op = local[t].op /\ absCall[t].key = local[t].key
<1>1. seen[t] # {} => local[t].op \in {"insert", "erase"}
  BY DEF IInv, InPlace, Records, SeenOK, Finished, InCall
<1> QED
  BY <1>1 DEF absCall, Abstract!Idle

LEMMA EndsIsReturn ==
  ASSUME IInv, NEW t \in Threads, NEW r, NEW S, Ends(t, r, S)
  PROVE  Abstract!Return(t, r, S)
<1>1. /\ Live' = S /\ result' = [result EXCEPT ![t] = r] /\ Stay(t)
      /\ seen' = [u \in Threads |-> IF u = t \/ seen[u] = {} THEN {} ELSE seen[u] \cup {S}]
  BY DEF Ends
<1>2. /\ seen'[t] = {}
      /\ \A u \in Threads \ {t} : local'[u] = local[u] /\ (seen'[u] = {} <=> seen[u] = {})
  BY <1>1 DEF Stay
<1>3. absCall' = [absCall EXCEPT ![t] = Abstract!Idle]
  <2>1. absCall'[t] = Abstract!Idle
    BY <1>2 DEF absCall, Abstract!Idle
  <2>2. ASSUME NEW u \in Threads \ {t} PROVE absCall'[u] = absCall[u]
    <3>1. local'[u] = local[u] /\ (seen'[u] = {} <=> seen[u] = {})
      BY <1>2
    <3> QED
      BY <3>1 DEF absCall
  <2>3. absCall = [u \in Threads |-> absCall[u]] /\ absCall' = [u \in Threads |-> absCall'[u]]
    BY DEF absCall
  <2> QED
    BY <2>1, <2>2, <2>3
<1>4. seen' = [u \in Threads |-> IF u = t \/ absCall[u] = Abstract!Idle THEN {}
                                 ELSE seen[u] \cup {S}]
  BY <1>1, AbstractCall
<1> QED
  BY <1>1, <1>3, <1>4 DEF Abstract!Return

LEMMA HiddenIsStutter ==
  ASSUME IInv, NEW t \in Threads, Hidden(t)
  PROVE  UNCHANGED Abstract!setVars
<1>1. /\ Live' = Live /\ seen' = seen /\ result' = result /\ Stay(t)
      /\ seen[t] # {} => local'[t].op = local[t].op /\ local'[t].key = local[t].key
  BY DEF Hidden, Moves
<1>2. absCall' = absCall
  BY <1>1 DEF absCall, Stay
<1> QED
  BY <1>1, <1>2 DEF Abstract!setVars

LEMMA AnsweredIsStep ==
  ASSUME IInv, NEW t \in Threads, Answered(t)
  PROVE  Abstract!SetStep(t)
<1>1. absCall[t].op = local[t].op /\ absCall[t].key = local[t].key
  BY AbstractCall DEF Answered
<1>2. CASE Inserted(t)
  <2>1. Abstract!Return(t, TRUE, Live \cup {local[t].key})
    BY <1>2, EndsIsReturn DEF Inserted
  <2>2. Abstract!Insert(t)
    BY <1>1, <1>2, <2>1, Zenon DEF Inserted, Abstract!Insert
  <2> QED
    BY <2>2 DEF Abstract!SetStep
<1>3. CASE Erased(t)
  <2>1. Abstract!Return(t, TRUE, Live \ {local[t].key})
    BY <1>3, EndsIsReturn DEF Erased
  <2>2. Abstract!Erase(t)
    BY <1>1, <1>3, <2>1, Zenon DEF Erased, Abstract!Erase
  <2> QED
    BY <2>2 DEF Abstract!SetStep
<1>4. CASE Failed(t)
  <2>1. Abstract!Return(t, FALSE, Live)
    BY <1>4, EndsIsReturn DEF Failed
  <2>2. Abstract!InsertFails(t) \/ Abstract!EraseFails(t)
    BY <1>1, <1>4, <2>1, Zenon
       DEF Failed, Justified, Abstract!InsertFails, Abstract!EraseFails
  <2> QED
    BY <2>2 DEF Abstract!SetStep
<1> QED
  BY <1>2, <1>3, <1>4 DEF Answered

LEMMA CalledIsCall ==
  ASSUME IInv, NEW t \in Threads, NEW o \in {"insert", "erase"}, NEW k \in Keys,
         Called(t, o, k)
  PROVE  Abstract!SetStep(t)
<1> DEFINE new == [op |-> o, key |-> k]
<1>1. /\ seen[t] = {} /\ Stay(t) /\ Live' = Live /\ result' = result
      /\ seen' = [seen EXCEPT ![t] = {Live}]
      /\ local'[t].op = o /\ local'[t].key = k
  BY DEF Called
<1>2. seen'[t] # {} /\ \A u \in Threads \ {t} : local'[u] = local[u] /\ seen'[u] = seen[u]
  BY <1>1 DEF IInv, TypeOK, Stay
<1>3. absCall[t] = Abstract!Idle
  BY <1>1, AbstractCall
<1>4. absCall' = [absCall EXCEPT ![t] = new]
  BY <1>1, <1>2 DEF absCall
<1>5. Abstract!Call(t, o, k)
  BY <1>1, <1>3, <1>4 DEF Abstract!Call
<1> QED
  BY <1>5 DEF Abstract!SetStep

LEMMA Simulation == IInv /\ [Next]_vars => [Abstract!SetNext]_(Abstract!setVars)
<1> SUFFICES ASSUME IInv, [Next]_vars
             PROVE  Abstract!SetNext \/ UNCHANGED Abstract!setVars
  OBVIOUS
<1>1. CASE UNCHANGED vars
  <2>1. Live' = Live
    BY <1>1, SameTables DEF vars
  <2>2. absCall' = absCall
    BY <1>1 DEF vars, absCall
  <2> QED
    BY <1>1, <2>1, <2>2 DEF vars, Abstract!setVars
<1>2. ASSUME NEW t \in Threads, Step(t)
      PROVE  Abstract!SetStep(t) \/ UNCHANGED Abstract!setVars
  BY <1>2, StepAnswers, HiddenIsStutter, AnsweredIsStep
<1>3. ASSUME NEW t \in Threads, CallStep(t) PROVE Abstract!SetStep(t)
  <2>1. PICK o \in {"insert", "erase"}, k \in Keys : Call(t, o, k)
    BY <1>3 DEF CallStep
  <2>2. Called(t, o, k)
    BY <2>1, CallCalls
  <2> QED
    BY <2>2, CalledIsCall
<1> QED
  BY <1>1, <1>2, <1>3 DEF Next, Ended, Abstract!SetNext

(* Algorithm D is a linearizable set, through every expansion, as long as  *)
(* the program runs.                                                       *)
THEOREM Refinement == Spec => ImplementsSet
<1>1. Init => Abstract!SetInit
  <2> SUFFICES ASSUME Init PROVE Abstract!SetInit
    OBVIOUS
  <2>1. Live = {}
    BY InitTables
  <2>2. /\ absCall = [t \in Threads |-> Abstract!Idle]
        /\ seen = [t \in Threads |-> {}] /\ result = [t \in Threads |-> FALSE]
    BY DEF Init, absCall, Abstract!Idle
  <2> QED
    BY <2>1, <2>2 DEF Abstract!SetInit, Abstract!FilledInit
<1> QED
  BY <1>1, Invariant, Simulation, PTL DEF Spec, ImplementsSet, Abstract!SetSpec

-----------------------------------------------------------------------------
(***************************************************************************)
(* The counters.  The threads change a counter and what it lags behind by  *)
(* in different steps, and each its own part only, so that it is enough to *)
(* look at the share of the thread that takes the step.                    *)
(***************************************************************************)
Kinds == {"inserts", "deletes"}

(* The parts of a counter c, of which batches z are not cleared yet while  *)
(* the threads of S have still to count.                                   *)
PartsOf(c, z, S) ==
  FoldFunction(+, c.global, c.sub) - FoldFunction(+, 0, z) + Cardinality(S)

ShareOf(c, z, S, t) == c.global + c.sub[t] - z[t] + (IF t \in S THEN 1 ELSE 0)

LEMMA ThreadsFinite == IsFiniteSet(Threads)
BY ExpandAssumption, FS_Interval DEF Threads

LEMMA PartsAre ==
  ASSUME NEW c \in Counters, NEW z \in [Threads -> Nat], NEW S \in SUBSET Threads
  PROVE  PartsOf(c, z, S) = (c.global + SumFunctionOnSet(c.sub, Threads))
                            - SumFunctionOnSet(z, Threads) + Cardinality(S)
<1>1. /\ c.global \in Int /\ DOMAIN c.sub = Threads /\ DOMAIN z = Threads
      /\ \A t \in Threads : c.sub[t] \in Int /\ z[t] \in Int
  BY DEF Counters
<1>2. FoldFunctionOnSet(+, c.global, c.sub, Threads)
        = c.global + SumFunctionOnSet(c.sub, Threads)
  BY <1>1, ThreadsFinite, FoldFrom
<1>3. FoldFunction(+, c.global, c.sub) = FoldFunctionOnSet(+, c.global, c.sub, DOMAIN c.sub)
  BY Zenon DEF FoldFunction
<1>4. FoldFunction(+, 0, z) = SumFunctionOnSet(z, DOMAIN z)
  BY FoldIsSum
<1> QED
  BY <1>1, <1>2, <1>3, <1>4, Zenon DEF PartsOf

(* A step in which only the share of thread t changes. *)
Apart(t, c, z, S, d, y, R) ==
  \A u \in Threads \ {t} : d.sub[u] = c.sub[u] /\ y[u] = z[u] /\ (u \in R <=> u \in S)

AddsShare(t, c, z, S, d, y, R) ==
  /\ PartsOf(c, z, S) \in Int /\ ShareOf(c, z, S, t) \in Int /\ ShareOf(d, y, R, t) \in Int
  /\ PartsOf(d, y, R) = PartsOf(c, z, S) + (ShareOf(d, y, R, t) - ShareOf(c, z, S, t))

LEMMA PartsChange ==
  ASSUME NEW c \in Counters, NEW z \in [Threads -> Nat], NEW S \in SUBSET Threads,
         NEW d \in Counters, NEW y \in [Threads -> Nat], NEW R \in SUBSET Threads,
         NEW t \in Threads, Apart(t, c, z, S, d, y, R)
  PROVE  AddsShare(t, c, z, S, d, y, R)
<1>0. \A u \in Threads \ {t} : d.sub[u] = c.sub[u] /\ y[u] = z[u] /\ (u \in R <=> u \in S)
  BY Zenon DEF Apart
<1>1. /\ c.global \in Nat /\ d.global \in Nat
      /\ \A u \in Threads : /\ c.sub[u] \in Nat /\ d.sub[u] \in Nat
                            /\ z[u] \in Nat /\ y[u] \in Nat
  BY DEF Counters
<1>2. SumFunctionOnSet(d.sub, Threads) = (SumFunctionOnSet(c.sub, Threads) - c.sub[t]) + d.sub[t]
  <2> SUFFICES ASSUME NEW f, f = c.sub, NEW g, g = d.sub
               PROVE  SumFunctionOnSet(g, Threads) = (SumFunctionOnSet(f, Threads) - f[t]) + g[t]
    OBVIOUS
  <2>1. \A u \in Threads : f[u] \in Int /\ g[u] \in Int
    BY <1>1
  <2>2. \A u \in Threads \ {t} : f[u] = g[u]
    BY <1>0
  <2> QED
    BY <2>1, <2>2, ThreadsFinite, SumChange
<1>3. SumFunctionOnSet(y, Threads) = (SumFunctionOnSet(z, Threads) - z[t]) + y[t]
  <2>1. \A u \in Threads : z[u] \in Int /\ y[u] \in Int
    BY <1>1
  <2>2. \A u \in Threads \ {t} : z[u] = y[u]
    BY <1>0
  <2> QED
    BY <2>1, <2>2, ThreadsFinite, SumChange
<1>4. /\ SumFunctionOnSet(c.sub, Threads) \in Int /\ SumFunctionOnSet(z, Threads) \in Int
  <2>1. \A u \in Threads : c.sub[u] \in Int /\ z[u] \in Int
    BY <1>1
  <2>2. SumFunctionOnSet(z, Threads) \in Int
    BY <2>1, ThreadsFinite, SumType
  <2>3. \A f : (\A u \in Threads : f[u] \in Int) => SumFunctionOnSet(f, Threads) \in Int
    BY ThreadsFinite, SumType
  <2> QED
    BY <2>1, <2>2, <2>3
<1>5. /\ Cardinality(S) \in Int /\ Cardinality(R) \in Int
      /\ Cardinality(R) = Cardinality(S) - (IF t \in S THEN 1 ELSE 0)
                                         + (IF t \in R THEN 1 ELSE 0)
  <2>1. IsFiniteSet(S) /\ IsFiniteSet(R)
    BY ThreadsFinite, FS_Subset
  <2>2. Cardinality(S) \in Nat /\ Cardinality(R) \in Nat
    BY <2>1, FS_CardinalityType
  <2>3. CASE t \in S <=> t \in R
    <3>1. R = S
      BY <1>0, <2>3
    <3> QED
      BY <2>2, <3>1
  <2>4. CASE t \in S /\ t \notin R
    <3>1. R = S \ {t}
      BY <1>0, <2>4
    <3>2. Cardinality(R) = Cardinality(S) - 1
      BY <2>1, <2>4, <3>1, FS_RemoveElement
    <3> QED
      BY <2>2, <2>4, <3>2
  <2>5. CASE t \notin S /\ t \in R
    <3>1. R = S \cup {t}
      BY <1>0, <2>5
    <3>2. Cardinality(R) = Cardinality(S) + 1
      BY <2>1, <2>5, <3>1, FS_AddElement
    <3> QED
      BY <2>2, <2>5, <3>2
  <2> QED
    BY <2>3, <2>4, <2>5
<1>6. /\ PartsOf(c, z, S) = (c.global + SumFunctionOnSet(c.sub, Threads))
                            - SumFunctionOnSet(z, Threads) + Cardinality(S)
      /\ PartsOf(d, y, R) = (d.global + SumFunctionOnSet(d.sub, Threads))
                            - SumFunctionOnSet(y, Threads) + Cardinality(R)
  BY PartsAre
<1> SUFFICES ASSUME
      NEW a \in Int, a = SumFunctionOnSet(c.sub, Threads),
      NEW b \in Int, b = SumFunctionOnSet(z, Threads),
      NEW n \in Int, n = Cardinality(S), NEW m \in Int, m = Cardinality(R),
      NEW i \in Nat, i = c.sub[t], NEW j \in Nat, j = d.sub[t],
      NEW k \in Nat, k = z[t], NEW l \in Nat, l = y[t],
      NEW g \in Nat, g = c.global, NEW h \in Nat, h = d.global,
      NEW o \in Int, o = (IF t \in S THEN 1 ELSE 0),
      NEW p \in Int, p = (IF t \in R THEN 1 ELSE 0)
    PROVE  /\ (g + a) - b + n \in Int /\ g + i - k + o \in Int /\ h + j - l + p \in Int
           /\ (h + ((a - i) + j)) - ((b - k) + l) + ((n - o) + p)
                = ((g + a) - b + n) + ((h + j - l + p) - (g + i - k + o))
  BY <1>1, <1>2, <1>3, <1>4, <1>5, <1>6 DEF ShareOf, AddsShare
<1> QED
  OBVIOUS

(* The counter of a table, by its name.                                    *)
CounterOf(T, w) == CounterAt(tables, T, w)

Filling(w) == IF w = "inserts" THEN Keys \cup {TOMBSTONE} ELSE {TOMBSTONE}
Filled(T, w) == {b \in 0 .. tables[T].cap - 1 : tables[T].bucket[b].key \in Filling(w)}

Telling(T, w) == Parts(T, w) = Cardinality(Filled(T, w))
Tell == \A T \in Tables, w \in Kinds : Telling(T, w)

LEMMA TellIs == CountersTellBuckets <=> Tell
<1> DEFINE Having(T, S) == {b \in 0 .. tables[T].cap - 1 : tables[T].bucket[b].key \in S}
<1>1. \A T : /\ Filled(T, "inserts") = Having(T, Keys \cup {TOMBSTONE})
             /\ Filled(T, "deletes") = Having(T, {TOMBSTONE})
  BY DEF Filled, Filling
<1>2. Tell <=> \A T \in Tables : Telling(T, "inserts") /\ Telling(T, "deletes")
  BY Zenon DEF Tell, Kinds
<1>3. CountersTellBuckets <=>
        \A T \in 1 .. Len(tables) :
           /\ Parts(T, "inserts") = Cardinality(Having(T, Keys \cup {TOMBSTONE}))
           /\ Parts(T, "deletes") = Cardinality(Having(T, {TOMBSTONE}))
  BY Zenon DEF CountersTellBuckets
<1> HIDE DEF Having
<1> QED
  BY <1>1, <1>2, <1>3, Zenon DEF Telling, Tables

(* A counter that thread t has still to count in, or whose batch it has    *)
(* still to clear.                                                         *)
In(t, T, w, p) == local[t].pc = p /\ Into(t) = T /\ Which(t) = w

Share(t, T, w) == ShareOf(CounterOf(T, w), FlushedTwice(T, w), Counting(T, w), t)

PartsAreOf(T, w) ==
  /\ CounterOf(T, w) \in Counters
  /\ FlushedTwice(T, w) \in [Threads -> Nat]
  /\ Counting(T, w) \in SUBSET Threads
  /\ Parts(T, w) = PartsOf(CounterOf(T, w), FlushedTwice(T, w), Counting(T, w))

LEMMA CounterIs ==
  ASSUME NEW tabs \in Seq(TableSet), NEW T \in 1 .. Len(tabs), NEW w \in Kinds
  PROVE  CounterAt(tabs, T, w) \in Counters
<1>1. tabs[T].inserts \in Counters /\ tabs[T].deletes \in Counters
  BY FieldsOf
<1>2. CASE w = "inserts"
  BY <1>1, <1>2, Zenon DEF CounterAt
<1>3. CASE w = "deletes"
  BY <1>1, <1>3, Zenon DEF CounterAt
<1> QED
  BY <1>2, <1>3 DEF Kinds

LEMMA SubIs ==
  ASSUME NEW c \in Counters, NEW t \in Threads
  PROVE  c.sub[t] \in Nat /\ c.global \in Nat
BY DEF Counters

LEMMA PartsNow == ASSUME TypeOK, NEW T \in Tables, NEW w \in Kinds PROVE PartsAreOf(T, w)
<1>1. CounterOf(T, w) \in Counters
  BY CounterIs DEF CounterOf, TypeOK, Tables
<1>2. FlushedTwice(T, w) \in [Threads -> Nat]
  <2>1. \A t \in Threads : CounterOf(T, w).sub[t] \in Nat
    BY <1>1, SubIs
  <2>2. FlushedTwice(T, w) = [t \in Threads |-> IF In(t, T, w, "clear")
                                               THEN CounterOf(T, w).sub[t] ELSE 0]
    BY Zenon DEF FlushedTwice, In, CounterOf, CounterAt
  <2> QED
    BY <2>1, <2>2
<1>3. Counting(T, w) \in SUBSET Threads
  BY DEF Counting
<1>4. Parts(T, w) = PartsOf(CounterOf(T, w), FlushedTwice(T, w), Counting(T, w))
  BY Zenon DEF Parts, PartsOf, CounterOf, CounterAt
<1> QED
  BY <1>1, <1>2, <1>3, <1>4 DEF PartsAreOf

AllParts == \A T \in Tables, w \in Kinds : PartsAreOf(T, w)

LEMMA PartsLater == TypeOK' => AllParts'
<1>1. TypeOK => AllParts
  BY PartsNow DEF AllParts
<1> QED
  BY <1>1, PTL

(* The share of a thread.                                                  *)
ShareIs(t, T, w) ==
  Share(t, T, w) = CounterOf(T, w).global + CounterOf(T, w).sub[t]
                   - (IF In(t, T, w, "clear") THEN CounterOf(T, w).sub[t] ELSE 0)
                   + (IF In(t, T, w, "inc") THEN 1 ELSE 0)

AllShares == \A t \in Threads, T \in Tables, w \in Kinds : ShareIs(t, T, w)

LEMMA SharesNow == AllShares
<1> SUFFICES ASSUME NEW t \in Threads, NEW T \in Tables, NEW w \in Kinds
             PROVE  ShareIs(t, T, w)
  BY DEF AllShares
<1>1. FlushedTwice(T, w)[t] = IF In(t, T, w, "clear") THEN CounterOf(T, w).sub[t] ELSE 0
  BY DEF FlushedTwice, In, CounterOf, CounterAt
<1>2. t \in Counting(T, w) <=> In(t, T, w, "inc")
  BY DEF Counting, In
<1> QED
  BY <1>1, <1>2, Zenon DEF Share, ShareOf, ShareIs

LEMMA SharesLater == AllShares'
BY SharesNow, PTL

(* What a step of thread t does to the parts of a counter.                 *)
LEMMA PartsStep ==
  ASSUME TypeOK, TypeOK', NEW t \in Threads, Stay(t),
         NEW T \in Tables, T \in Tables', NEW w \in Kinds,
         \A u \in Threads \ {t} : CounterOf(T, w)'.sub[u] = CounterOf(T, w).sub[u]
  PROVE  /\ Parts(T, w) \in Int /\ Share(t, T, w) \in Int /\ Share(t, T, w)' \in Int
         /\ Parts(T, w)' = Parts(T, w) + (Share(t, T, w)' - Share(t, T, w))
<1>1. PartsAreOf(T, w) /\ PartsAreOf(T, w)'
  BY PartsNow, PartsLater DEF AllParts
<1>2. ASSUME NEW u \in Threads \ {t}
      PROVE  /\ FlushedTwice(T, w)'[u] = FlushedTwice(T, w)[u]
             /\ u \in Counting(T, w)' <=> u \in Counting(T, w)
  <2>1. local'[u] = local[u]
    BY DEF Stay
  <2>2. \A p : In(u, T, w, p)' <=> In(u, T, w, p)
    BY <2>1 DEF In, Into, Which
  <2>3. CounterOf(T, w)'.sub[u] = CounterOf(T, w).sub[u]
    OBVIOUS
  <2>4. /\ FlushedTwice(T, w)[u] = IF In(u, T, w, "clear") THEN CounterOf(T, w).sub[u] ELSE 0
        /\ FlushedTwice(T, w)'[u] = IF In(u, T, w, "clear")' THEN CounterOf(T, w)'.sub[u] ELSE 0
    BY DEF FlushedTwice, In, CounterOf, CounterAt
  <2>5. /\ u \in Counting(T, w) <=> In(u, T, w, "inc")
        /\ u \in Counting(T, w)' <=> In(u, T, w, "inc")'
    BY DEF Counting, In
  <2> QED
    BY <2>2, <2>3, <2>4, <2>5
<1>3. /\ CounterOf(T, w) \in Counters /\ FlushedTwice(T, w) \in [Threads -> Nat]
      /\ Counting(T, w) \in SUBSET Threads
      /\ Parts(T, w) = PartsOf(CounterOf(T, w), FlushedTwice(T, w), Counting(T, w))
  BY <1>1, Zenon DEF PartsAreOf
<1>4. /\ CounterOf(T, w)' \in Counters /\ FlushedTwice(T, w)' \in [Threads -> Nat]
      /\ Counting(T, w)' \in SUBSET Threads
      /\ Parts(T, w)' = PartsOf(CounterOf(T, w)', FlushedTwice(T, w)', Counting(T, w)')
  BY <1>1, Zenon DEF PartsAreOf
<1>5. /\ Share(t, T, w) = ShareOf(CounterOf(T, w), FlushedTwice(T, w), Counting(T, w), t)
      /\ Share(t, T, w)' = ShareOf(CounterOf(T, w)', FlushedTwice(T, w)', Counting(T, w)', t)
  BY Zenon DEF Share
<1>6. Apart(t, CounterOf(T, w), FlushedTwice(T, w), Counting(T, w),
            CounterOf(T, w)', FlushedTwice(T, w)', Counting(T, w)')
  BY <1>2 DEF Apart
<1>7. AddsShare(t, CounterOf(T, w), FlushedTwice(T, w), Counting(T, w),
                CounterOf(T, w)', FlushedTwice(T, w)', Counting(T, w)')
  BY <1>3, <1>4, <1>6, PartsChange, Zenon
<1> QED
  BY <1>3, <1>4, <1>5, <1>7, Zenon DEF AddsShare

(* It agrees with the buckets still when they change as the share does.    *)
Balanced(t, T, w) ==
  /\ \A u \in Threads \ {t} : CounterOf(T, w)'.sub[u] = CounterOf(T, w).sub[u]
  /\ Cardinality(Filled(T, w)') = Cardinality(Filled(T, w)) + (Share(t, T, w)' - Share(t, T, w))

LEMMA BalancedTells ==
  ASSUME TypeOK, TypeOK', NEW t \in Threads, Stay(t),
         NEW T \in Tables, T \in Tables', NEW w \in Kinds,
         Telling(T, w), Balanced(t, T, w)
  PROVE  Telling(T, w)'
<1>1. Cardinality(Filled(T, w)') = Cardinality(Filled(T, w)) + (Share(t, T, w)' - Share(t, T, w))
      /\ \A u \in Threads \ {t} : CounterOf(T, w)'.sub[u] = CounterOf(T, w).sub[u]
  BY Zenon DEF Balanced
<1>2. Parts(T, w)' = Parts(T, w) + (Share(t, T, w)' - Share(t, T, w))
  BY <1>1, PartsStep
<1>3. Parts(T, w) = Cardinality(Filled(T, w))
  BY Zenon DEF Telling
<1>4. Parts(T, w)' = Cardinality(Filled(T, w)')
  BY <1>1, <1>2, <1>3, Zenon
<1> QED
  BY <1>4, Zenon DEF Telling

(* Buckets, counter and share stay.                                        *)
LEMMA SameBalanced ==
  ASSUME TypeOK, NEW t \in Threads, NEW T \in Tables, T \in Tables', NEW w \in Kinds,
         CounterOf(T, w)' = CounterOf(T, w), Filled(T, w)' = Filled(T, w),
         In(t, T, w, "clear")' <=> In(t, T, w, "clear"),
         In(t, T, w, "inc")' <=> In(t, T, w, "inc")
  PROVE  Balanced(t, T, w)
<1>1. ShareIs(t, T, w) /\ ShareIs(t, T, w)'
  BY SharesNow, SharesLater DEF AllShares
<1>2. Share(t, T, w)' = Share(t, T, w)
  <2>1. Share(t, T, w) = CounterOf(T, w).global + CounterOf(T, w).sub[t]
                         - (IF In(t, T, w, "clear") THEN CounterOf(T, w).sub[t] ELSE 0)
                         + (IF In(t, T, w, "inc") THEN 1 ELSE 0)
    BY <1>1, Zenon DEF ShareIs
  <2>2. Share(t, T, w)' = CounterOf(T, w)'.global + CounterOf(T, w)'.sub[t]
                          - (IF In(t, T, w, "clear")' THEN CounterOf(T, w)'.sub[t] ELSE 0)
                          + (IF In(t, T, w, "inc")' THEN 1 ELSE 0)
    BY <1>1, Zenon DEF ShareIs
  <2> QED
    BY <2>1, <2>2
<1>3. PartsAreOf(T, w)
  BY PartsNow
<1>4. Share(t, T, w) \in Int
  <2>1. CounterOf(T, w) \in Counters
    BY <1>3 DEF PartsAreOf
  <2>2. CounterOf(T, w).sub[t] \in Nat /\ CounterOf(T, w).global \in Nat
    BY <2>1, SubIs
  <2> QED
    BY <1>1, <2>2 DEF ShareIs
<1>5. Cardinality(Filled(T, w)) \in Nat
  <2>1. IsFiniteSet(0 .. tables[T].cap - 1)
    BY TableFacts, FS_Interval
  <2>2. IsFiniteSet(Filled(T, w))
    BY <2>1, FS_Subset DEF Filled
  <2> QED
    BY <2>2, FS_CardinalityType
<1>6. Cardinality(Filled(T, w)') = Cardinality(Filled(T, w))
  OBVIOUS
<1>7. Cardinality(Filled(T, w)') = Cardinality(Filled(T, w)) + (Share(t, T, w)' - Share(t, T, w))
  BY <1>2, <1>4, <1>5, <1>6
<1> QED
  BY <1>7 DEF Balanced

Counts(p) == p \in {"inc", "clear"}

(* A step of a thread that has nothing to count, before and after.         *)
Steady(t) ==
  /\ Stay(t) /\ ~ Counts(local[t].pc) /\ ~ Counts(local'[t].pc)
  /\ \A T \in Tables : /\ T \in Tables'
                       /\ \A w \in Kinds : /\ CounterOf(T, w)' = CounterOf(T, w)
                                           /\ Filled(T, w)' = Filled(T, w)

AtRest(t) == Steady(t) /\ Tables' = Tables

LEMMA SteadyTells ==
  ASSUME TypeOK, TypeOK', Tell, NEW t \in Threads, Steady(t)
  PROVE  \A T \in Tables, w \in Kinds : Telling(T, w)'
<1> SUFFICES ASSUME NEW T \in Tables, NEW w \in Kinds PROVE Telling(T, w)'
  OBVIOUS
<1>1. /\ Stay(t) /\ T \in Tables' /\ ~ Counts(local[t].pc) /\ ~ Counts(local'[t].pc)
      /\ CounterOf(T, w)' = CounterOf(T, w) /\ Filled(T, w)' = Filled(T, w)
  BY DEF Steady
<1>2. /\ ~ In(t, T, w, "clear") /\ ~ In(t, T, w, "inc")
      /\ ~ In(t, T, w, "clear")' /\ ~ In(t, T, w, "inc")'
  BY <1>1 DEF Counts, In
<1>3. Balanced(t, T, w)
  BY <1>1, <1>2, SameBalanced
<1>4. Telling(T, w)
  BY DEF Tell
<1> QED
  BY <1>1, <1>3, <1>4, BalancedTells

LEMMA SteadyKeeps ==
  ASSUME TypeOK, TypeOK', Tell, NEW t \in Threads, AtRest(t)
  PROVE  Tell'
<1>1. \A T \in Tables, w \in Kinds : Telling(T, w)'
  BY SteadyTells DEF AtRest
<1> QED
  BY <1>1 DEF Tell, AtRest

LEMMA SameTablesSteady ==
  ASSUME NEW t \in Threads, tables' = tables, Stay(t),
         ~ Counts(local[t].pc), ~ Counts(local'[t].pc)
  PROVE  AtRest(t)
<1>1. Tables' = Tables
  BY DEF Tables
<1>2. \A T, w : CounterOf(T, w)' = CounterOf(T, w) /\ Filled(T, w)' = Filled(T, w)
  BY DEF CounterOf, CounterAt, Filled
<1> QED
  BY <1>1, <1>2 DEF Steady, AtRest

LEMMA OnlySteady ==
  ASSUME TypeOK, NEW t \in Threads, NEW l, Only(t, l), ~ Counts(local[t].pc), ~ Counts(l.pc)
  PROVE  AtRest(t)
<1>1. tables' = tables /\ local' = [local EXCEPT ![t] = l]
  BY DEF Only
<1>2. Stay(t) /\ local'[t] = l
  BY <1>1 DEF TypeOK, Stay
<1> QED
  BY <1>1, <1>2, SameTablesSteady

LEMMA GotoSteady ==
  ASSUME TypeOK, NEW t \in Threads, NEW p, OnlyGoto(t, p), ~ Counts(local[t].pc), ~ Counts(p)
  PROVE  AtRest(t)
<1> DEFINE l == [local[t] EXCEPT !.pc = p]
<1>1. local[t] \in LocalSet
  BY LocalFacts
<1>2. l.pc = p
  BY <1>1 DEF LocalSet
<1>3. Only(t, l)
  BY DEF OnlyGoto
<1> HIDE DEF l
<1> QED
  BY <1>2, <1>3, OnlySteady

LEMMA FailSteady ==
  ASSUME NEW t \in Threads, NEW what, Fail(what), ~ Counts(local[t].pc)
  PROVE  AtRest(t)
<1>1. tables' = tables /\ local' = local /\ Stay(t)
  BY DEF Fail, Stay
<1> QED
  BY <1>1, SameTablesSteady

LEMMA RestartSteady ==
  ASSUME IInv, NEW t \in Threads, local[t].pc # "idle", ~ Counts(local[t].pc), Restart(t)
  PROVE  AtRest(t)
<1>1. TypeOK /\ local[t].op \in {"insert", "erase"} /\ local[t].key \in Keys
  BY DEF IInv, InPlace, InCall
<1> DEFINE l == Begin(local[t].op, local[t].key)
<1>2. ~ Counts(l.pc)
  BY <1>1, BeginIs DEF Counts
<1>3. Only(t, l)
  BY DEF Restart
<1> HIDE DEF l
<1> QED
  BY <1>1, <1>2, <1>3, OnlySteady

LEMMA ReturnSteady ==
  ASSUME TypeOK, NEW t \in Threads, NEW r, ~ Counts(local[t].pc), Return(t, r)
  PROVE  AtRest(t)
<1>1. Answer(t, r, tables) /\ local' = [local EXCEPT ![t] = Fresh]
  BY Zenon DEF Return
<1>2. tables' = tables
  BY <1>1, AnswerIs
<1>3. Stay(t) /\ local'[t] = Fresh
  BY <1>1 DEF TypeOK, Stay
<1>4. ~ Counts(local'[t].pc)
  BY <1>3, FreshIs DEF Counts
<1> QED
  BY <1>2, <1>3, <1>4, SameTablesSteady

LEMMA HelpTestSteady == ASSUME IInv, NEW t \in Threads, HelpTest(t) PROVE AtRest(t)
BY GotoSteady DEF HelpTest, Counts, IInv

LEMMA ReadOldSteady == ASSUME IInv, NEW t \in Threads, ReadOld(t) PROVE AtRest(t)
<1> DEFINE f == OldOf(local[t].help).bucket[local[t].b]
           l == [local[t] EXCEPT !.pc = "mark", !.found = f]
<1>1. TypeOK /\ local[t] \in LocalSet
  BY LocalFacts DEF IInv
<1>2. l.pc = "mark"
  <2> HIDE DEF f
  <2> QED
    BY <1>1 DEF LocalSet
<1>3. Only(t, l) /\ local[t].pc = "read"
  BY Zenon DEF ReadOld
<1> HIDE DEF l
<1> QED
  BY <1>1, <1>2, <1>3, OnlySteady DEF Counts

LEMMA CopyCallSteady == ASSUME IInv, NEW t \in Threads, CopyCall(t) PROVE AtRest(t)
<1> DEFINE l == [local[t] EXCEPT !.pc = "copyRead", !.into = current]
<1>1. TypeOK /\ local[t] \in LocalSet
  BY LocalFacts DEF IInv
<1>2. l.pc = "copyRead"
  BY <1>1 DEF LocalSet
<1>3. Only(t, l) /\ local[t].pc = "copy"
  BY Zenon DEF CopyCall
<1> HIDE DEF l
<1> QED
  BY <1>1, <1>2, <1>3, OnlySteady DEF Counts

LEMMA CopyAdvanceSteady ==
  ASSUME IInv, NEW t \in Threads, CopyAdvance(t), ~ Counts(local[t].pc)
  PROVE  AtRest(t)
<1> DEFINE n == local[t].j + 1
           l == [local[t] EXCEPT !.pc = "copyRead", !.j = n]
<1>1. TypeOK /\ local[t] \in LocalSet
  BY LocalFacts DEF IInv
<1>2. l.pc = "copyRead"
  <2> HIDE DEF n
  <2> QED
    BY <1>1 DEF LocalSet
<1>3. Only(t, l) \/ Fail("ran out")
  BY Zenon DEF CopyAdvance
<1> HIDE DEF l
<1> QED
  BY <1>1, <1>2, <1>3, OnlySteady, FailSteady DEF Counts

LEMMA CopyReadSteady == ASSUME IInv, NEW t \in Threads, CopyRead(t) PROVE AtRest(t)
<1>1. Target(t) # Copied(t)
  BY CopyLabels, CopyTarget DEF CopyRead
<1>2. /\ OnlyGoto(t, "copyCAS") \/ CopyAdvance(t)
      /\ ~ Counts(local[t].pc) /\ ~ Counts("copyCAS") /\ TypeOK
  BY <1>1 DEF CopyRead, Counts, IInv
<1> QED
  BY <1>2, GotoSteady, CopyAdvanceSteady

LEMMA CopyRecheckSteady == ASSUME IInv, NEW t \in Threads, CopyRecheck(t) PROVE AtRest(t)
<1>1. Target(t) # Copied(t)
  BY CopyLabels, CopyTarget DEF CopyRecheck
<1>2. CopyAdvance(t) /\ ~ Counts(local[t].pc)
  BY <1>1 DEF CopyRecheck, Counts
<1> QED
  BY <1>2, CopyAdvanceSteady

LEMMA CheckUseSteady == ASSUME IInv, NEW t \in Threads, CheckUse(t) PROVE AtRest(t)
<1>1. /\ TypeOK /\ ~ Counts(local[t].pc)
      /\ \E p \in {"start", "count", "probe"} : OnlyGoto(t, p)
  BY DEF CheckUse, HelpedAll, Counts, IInv
<1> QED
  BY <1>1, GotoSteady DEF Counts

LEMMA StartExpansionSteady ==
  ASSUME IInv, NEW t \in Threads, StartExpansion(t)
  PROVE  AtRest(t)
<1>1. /\ TypeOK /\ ~ Counts(local[t].pc)
      /\ \E p \in {"size", "again"} : OnlyGoto(t, p)
  BY DEF StartExpansion, Counts, IInv
<1> QED
  BY <1>1, GotoSteady DEF Counts

LEMMA CountUseSteady == ASSUME IInv, NEW t \in Threads, CountUse(t) PROVE AtRest(t)
<1> DEFINE acc == local[t].acc + Part(tables[local[t].tab].inserts, local[t].pos)
           n == local[t].pos + 1
           p == IF HalfUsed(t, acc) THEN "start" ELSE "probe"
           l == [local[t] EXCEPT !.acc = acc, !.pos = n]
           m == [local[t] EXCEPT !.acc = 0, !.pos = 0, !.pc = p]
<1>1. TypeOK /\ local[t] \in LocalSet
  BY LocalFacts DEF IInv
<1>2. l.pc = local[t].pc /\ m.pc = p
  <2> HIDE DEF acc, n, p
  <2> QED
    BY <1>1 DEF LocalSet
<1>3. (Only(t, l) \/ Only(t, m)) /\ local[t].pc = "count"
  BY Zenon DEF CountUse
<1>4. ~ Counts(p) /\ ~ Counts("count")
  BY DEF Counts
<1> HIDE DEF l, m, p
<1> QED
  BY <1>1, <1>2, <1>3, <1>4, OnlySteady

LEMMA CountKeysSteady == ASSUME IInv, NEW t \in Threads, CountKeys(t) PROVE AtRest(t)
<1> DEFINE tab == tables[local[t].tab]
           pos == local[t].pos
           acc == local[t].acc + (IF pos <= NumThreads THEN Part(tab.inserts, pos)
                                  ELSE 0 - Part(tab.deletes, pos - NumThreads - 1))
           n == pos + 1
           c == IF acc = 0 THEN 2 * tab.cap ELSE 4 * acc
           l == [local[t] EXCEPT !.acc = acc, !.pos = n]
           m == [local[t] EXCEPT !.acc = 0, !.pos = 0, !.pc = "swap", !.cap = c]
<1>1. TypeOK /\ local[t] \in LocalSet
  BY LocalFacts DEF IInv
<1>2. l.pc = local[t].pc /\ m.pc = "swap"
  <2> HIDE DEF acc, n, c
  <2> QED
    BY <1>1 DEF LocalSet
<1>3. /\ Only(t, l) \/ Only(t, m) \/ Fail("no keys") \/ Fail("bad alloc")
      /\ local[t].pc = "size"
  BY Zenon DEF CountKeys
<1>4. ~ Counts("swap") /\ ~ Counts("size")
  BY DEF Counts
<1> HIDE DEF l, m
<1> QED
  BY <1>1, <1>2, <1>3, <1>4, OnlySteady, FailSteady

LEMMA HelpCurrentSteady == ASSUME IInv, NEW t \in Threads, HelpCurrent(t) PROVE AtRest(t)
<1> DEFINE l == [local[t] EXCEPT !.pc = "expand", !.help = current, !.restart = TRUE]
<1>1. TypeOK /\ local[t] \in LocalSet
  BY LocalFacts DEF IInv
<1>2. l.pc = "expand"
  BY <1>1 DEF LocalSet
<1>3. Only(t, l) /\ local[t].pc = "again"
  BY Zenon DEF HelpCurrent
<1> HIDE DEF l
<1> QED
  BY <1>1, <1>2, <1>3, OnlySteady DEF Counts

LEMMA AfterExpansionSteady ==
  ASSUME IInv, NEW t \in Threads, AfterExpansion(t)
  PROVE  AtRest(t)
BY RestartSteady DEF AfterExpansion, HelpedAll, Counts

LEMMA NextProbeSteady ==
  ASSUME IInv, NEW t \in Threads, NextProbe(t), ~ Counts(local[t].pc)
  PROVE  AtRest(t)
<1>1. ProbeAgain(t) \/ Fail("ran out") \/ Return(t, FALSE)
  BY Zenon DEF NextProbe, AfterLoop
<1> DEFINE n == local[t].i + 1
           l == [local[t] EXCEPT !.pc = "expand", !.i = n]
<1>2. TypeOK /\ local[t] \in LocalSet
  BY LocalFacts DEF IInv
<1>3. l.pc = "expand"
  <2> HIDE DEF n
  <2> QED
    BY <1>2 DEF LocalSet
<1>4. ProbeAgain(t) => Only(t, l)
  BY Zenon DEF ProbeAgain
<1>5. ~ Counts("expand")
  BY DEF Counts
<1> HIDE DEF l
<1> QED
  BY <1>1, <1>2, <1>3, <1>4, <1>5, OnlySteady, FailSteady, ReturnSteady

LEMMA ProbeSteady ==
  ASSUME IInv, NEW t \in Threads,
         InsertRead(t) \/ InsertRecheck(t) \/ EraseRead(t) \/ EraseRecheck(t)
  PROVE  AtRest(t)
<1>1. TypeOK /\ ~ Counts(local[t].pc) /\ local[t].pc # "idle" /\ ~ Counts("cas")
  BY DEF InsertRead, InsertRecheck, EraseRead, EraseRecheck, At, Counts, IInv
<1>2. Restart(t) \/ Return(t, FALSE) \/ OnlyGoto(t, "cas") \/ NextProbe(t)
  BY DEF InsertRead, InsertRecheck, EraseRead, EraseRecheck
<1> QED
  BY <1>1, <1>2, RestartSteady, ReturnSteady, GotoSteady, NextProbeSteady

LEMMA CallSteady ==
  ASSUME IInv, NEW t \in Threads, NEW o \in {"insert", "erase"}, NEW k \in Keys, Call(t, o, k)
  PROVE  AtRest(t)
<1> DEFINE l == Begin(o, k)
<1>1. TypeOK /\ local[t].pc = "idle" /\ tables' = tables /\ local' = [local EXCEPT ![t] = l]
  BY DEF Call, IInv
<1>2. l.pc = "expand"
  BY <1>1, BeginIs
<1> HIDE DEF l
<1>3. local'[t] = l /\ Stay(t)
  BY <1>1 DEF TypeOK, Stay
<1> QED
  BY <1>1, <1>2, <1>3, SameTablesSteady DEF Counts

-----------------------------------------------------------------------------
(* What a write to a field of a table does to its counters.                *)
Fields == {"bucket", "claimed", "done", "inserts", "deletes"}

Put(tab, f, x) == [tab EXCEPT ![f] = x]

LEMMA FieldKept ==
  ASSUME NEW tab \in TableSet, NEW f \in Fields, NEW x, NEW new, new = Put(tab, f, x)
  PROVE  /\ new.inserts = IF f = "inserts" THEN x ELSE tab.inserts
         /\ new.deletes = IF f = "deletes" THEN x ELSE tab.deletes
<1>1. CASE f = "bucket"
  <2>1. [tab EXCEPT !["bucket"] = x] = [tab EXCEPT !.bucket = x]
    BY Zenon
  <2>2. new = [tab EXCEPT !.bucket = x]
    BY <1>1, <2>1, Zenon DEF Put
  <2> QED
    BY <1>1, <2>2, FieldPut
<1>2. CASE f = "claimed"
  <2>1. [tab EXCEPT !["claimed"] = x] = [tab EXCEPT !.claimed = x]
    BY Zenon
  <2>2. new = [tab EXCEPT !.claimed = x]
    BY <1>2, <2>1, Zenon DEF Put
  <2> QED
    BY <1>2, <2>2, FieldPut
<1>3. CASE f = "done"
  <2>1. [tab EXCEPT !["done"] = x] = [tab EXCEPT !.done = x]
    BY Zenon
  <2>2. new = [tab EXCEPT !.done = x]
    BY <1>3, <2>1, Zenon DEF Put
  <2> QED
    BY <1>3, <2>2, FieldPut
<1>4. CASE f = "inserts"
  <2>1. [tab EXCEPT !["inserts"] = x] = [tab EXCEPT !.inserts = x]
    BY Zenon
  <2>2. new = [tab EXCEPT !.inserts = x]
    BY <1>4, <2>1, Zenon DEF Put
  <2> QED
    BY <1>4, <2>2, FieldPut
<1>5. CASE f = "deletes"
  <2>1. [tab EXCEPT !["deletes"] = x] = [tab EXCEPT !.deletes = x]
    BY Zenon
  <2>2. new = [tab EXCEPT !.deletes = x]
    BY <1>5, <2>1, Zenon DEF Put
  <2> QED
    BY <1>5, <2>2, FieldPut
<1> QED
  BY <1>1, <1>2, <1>3, <1>4, <1>5 DEF Fields

LEMMA FieldStays ==
  ASSUME NEW s \in Seq(TableSet), NEW T \in 1 .. Len(s), NEW f \in Fields, NEW x,
         NEW r, r = CounterSet(s, T, f, x), NEW U \in 1 .. Len(s), NEW w \in Kinds
  PROVE  CounterAt(r, U, w) = IF U = T /\ w = f THEN x ELSE CounterAt(s, U, w)
<1> SUFFICES ASSUME NEW tab \in TableSet, tab = s[T], NEW new, new = Put(tab, f, x)
             PROVE  CounterAt(r, U, w) = IF U = T /\ w = f THEN x ELSE CounterAt(s, U, w)
  OBVIOUS
<1>1. r = [s EXCEPT ![T] = new]
  BY Zenon DEF CounterSet, Put
<1>2. r[U] = IF U = T THEN new ELSE s[U]
  BY <1>1
<1>3. /\ new.inserts = IF f = "inserts" THEN x ELSE tab.inserts
      /\ new.deletes = IF f = "deletes" THEN x ELSE tab.deletes
  BY FieldKept
<1>4. CASE U # T
  BY <1>2, <1>4, Zenon DEF CounterAt
<1>5. CASE U = T /\ w = "inserts"
  <2>1. r[U]["inserts"] = IF f = "inserts" THEN x ELSE s[U]["inserts"]
    BY <1>2, <1>3, <1>5, Zenon
  <2> QED
    BY <1>5, <2>1, Zenon DEF CounterAt
<1>6. CASE U = T /\ w = "deletes"
  <2>1. r[U]["deletes"] = IF f = "deletes" THEN x ELSE s[U]["deletes"]
    BY <1>2, <1>3, <1>6, Zenon
  <2> QED
    BY <1>6, <2>1, Zenon DEF CounterAt
<1> QED
  BY <1>4, <1>5, <1>6 DEF Kinds

(* Neither the words of a table nor its chunks are counters.               *)
LEMMA CountersStay ==
  ASSUME TypeOK, NEW T \in Tables, NEW f \in {"bucket", "claimed", "done"}, NEW x,
         tables' = CounterSet(tables, T, f, x)
  PROVE  \A U \in Tables, w \in Kinds : CounterOf(U, w)' = CounterOf(U, w)
<1>1. f \in Fields /\ f \notin Kinds
  BY DEF Fields, Kinds
<1>2. tables \in Seq(TableSet) /\ Tables = 1 .. Len(tables)
  BY DEF TypeOK, Tables
<1>3. ASSUME NEW U \in Tables, NEW w \in Kinds
      PROVE  CounterAt(tables', U, w) = CounterAt(tables, U, w)
  BY <1>1, <1>2, FieldStays
<1> QED
  BY <1>3, Zenon DEF CounterOf, CounterAt

LEMMA WordCounters ==
  ASSUME TypeOK, NEW T \in Tables, NEW b, NEW w, tables' = WordSet(tables, T, b, w)
  PROVE  \A U \in Tables, v \in Kinds : CounterOf(U, v)' = CounterOf(U, v)
<1> DEFINE f == "bucket"
           x == [tables[T].bucket EXCEPT ![b] = w]
<1>1. tables' = CounterSet(tables, T, f, x)
  BY Zenon DEF WordSet, CounterSet
<1>2. f \in {"bucket", "claimed", "done"}
  OBVIOUS
<1> HIDE DEF f, x
<1> QED
  BY <1>1, <1>2, CountersStay

LEMMA SameKeysFilled ==
  ASSUME Evolve, SameKeys
  PROVE  /\ Tables' = Tables
         /\ \A T \in Tables, w \in Kinds : Filled(T, w)' = Filled(T, w)
<1>1. Tables' = Tables
  BY DEF SameKeys, Tables
<1>2. ASSUME NEW T \in Tables, NEW w \in Kinds PROVE Filled(T, w)' = Filled(T, w)
  <2>1. tables'[T].cap = tables[T].cap
    BY DEF Evolve
  <2>2. \A b \in 0 .. tables[T].cap - 1 : tables'[T].bucket[b].key = tables[T].bucket[b].key
    BY DEF SameKeys, Buckets
  <2> QED
    BY <2>1, <2>2 DEF Filled
<1> QED
  BY <1>1, <1>2

LEMMA WriteSteady ==
  ASSUME Evolve, SameKeys, NEW t \in Threads, Stay(t),
         ~ Counts(local[t].pc), ~ Counts(local'[t].pc),
         \A T \in Tables, w \in Kinds : CounterOf(T, w)' = CounterOf(T, w)
  PROVE  AtRest(t)
BY SameKeysFilled DEF AtRest, Steady

LEMMA MarkOldSteady == ASSUME IInv, NEW t \in Threads, MarkOld(t) PROVE AtRest(t)
<1> DEFINE T == local[t].help
           O == tables[T].old
           b == local[t].b
<1>1. local[t].pc = "mark" /\ ~ Counts(local[t].pc) /\ ~ Counts("read") /\ TypeOK
  BY DEF MarkOld, Counts, IInv
<1>2. CASE OnlyGoto(t, "read")
  BY <1>1, <1>2, GotoSteady
<1>3. CASE /\ tables[O].bucket[b] = local[t].found
           /\ tables' = [tables EXCEPT ![O].bucket[b].marked = TRUE]
           /\ AfterMark(t) /\ UNCHANGED quiet
  <2>1. /\ O = T - 1 /\ O \in Tables /\ b \in Buckets(O) /\ current' = current
    BY <1>1, <1>3, MarkPlace DEF quiet
  <2>2. tables' = MarkSet(tables, T - 1, b) /\ tables[T - 1].bucket[b] = local[t].found
    BY <1>3, <2>1, Zenon DEF MarkSet
  <2>3. Stay(t) /\ Migrating(t)' /\ Copier(t)' /\ InPlace(t)'
    BY <1>1, <1>3, <2>2, AfterMarkIs
  <2>4. SameKeys /\ Evolve
    BY <1>1, <2>1, <2>2, MarkWord
  <2>5. \A U \in Tables, w \in Kinds : CounterOf(U, w)' = CounterOf(U, w)
    <3> DEFINE x == Word32(tables[O].bucket[b].key, TRUE)
    <3>1. tables' = WordSet(tables, O, b, x)
      BY <1>1, <2>1, <2>2, MarkPut DEF TypeOK, Tables, Buckets
    <3> HIDE DEF x
    <3> QED
      BY <1>1, <2>1, <3>1, WordCounters
  <2>6. ~ Counts(local'[t].pc)
    <3>1. local'[t] = IF local[t].found.key \in Keys THEN [local[t] EXCEPT !.pc = "copy"]
                      ELSE NextBucket(t)
      BY <1>1, <1>3 DEF AfterMark, TypeOK
    <3>2. [local[t] EXCEPT !.pc = "copy"].pc = "copy"
      BY <1>1, LocalFacts DEF LocalSet
    <3>3. NextBucket(t).pc \in {"moved", "read"}
      BY <1>1, LocalFacts DEF NextBucket, LocalSet
    <3> QED
      BY <3>1, <3>2, <3>3 DEF Counts
  <2> QED
    BY <1>1, <2>3, <2>4, <2>5, <2>6, WriteSteady
<1> QED
  BY <1>2, <1>3, Zenon DEF MarkOld

LEMMA SameBucketsKeys ==
  ASSUME SameBuckets
  PROVE  Evolve /\ SameKeys
BY DEF SameBuckets, SameKeys

LEMMA HelpClaimSteady == ASSUME IInv, NEW t \in Threads, HelpClaim(t) PROVE AtRest(t)
<1> DEFINE T == local[t].help
           c == tables[T].claimed
<1>1. /\ local[t].pc = "claim" /\ ~ Counts(local[t].pc) /\ current' = current
      /\ ~ Counts("read") /\ ~ Counts("expand")
  BY DEF HelpClaim, quiet, Counts
<1>2. TypeOK /\ T \in Tables
  BY <1>1, NotMigrating DEF InCall
<1>3. tables' = ClaimSet(tables, T)
  BY Zenon DEF HelpClaim, ClaimSet
<1>4. Evolve /\ SameKeys
  BY <1>1, <1>2, <1>3, Claimed, SameBucketsKeys
<1>5. \A U \in Tables, w \in Kinds : CounterOf(U, w)' = CounterOf(U, w)
  <2> DEFINE f == "claimed"
             x == tables[T].claimed + 1
  <2>1. tables' = CounterSet(tables, T, f, x)
    BY <1>3, Zenon DEF ClaimSet, CounterSet
  <2>2. f \in {"bucket", "claimed", "done"}
    OBVIOUS
  <2> HIDE DEF f, x
  <2> QED
    BY <1>2, <2>1, <2>2, CountersStay
<1>6. Stay(t) /\ local'[t].pc \in {"read", "expand"}
  <2>1. CASE c < OldChunks(tables, T)
    <3> DEFINE n == c * Chunk
    <3>1. local' = [local EXCEPT ![t] = ReadMore(local[t], "read", n)]
      BY <2>1, Zenon DEF HelpClaim, ReadMore
    <3>2. c \in Nat /\ Chunk \in Nat
      BY <1>2, TableFacts, ExpandAssumption
    <3>3. n \in Nat
      BY <3>2
    <3> HIDE DEF n
    <3> QED
      BY <1>2, <3>1, <3>3, ReadSame DEF Labels
  <2>2. CASE ~ (c < OldChunks(tables, T))
    <3>1. Goto(t, "expand") /\ "expand" \in Labels
      BY <2>2, Zenon DEF HelpClaim, Labels
    <3> QED
      BY <1>2, <3>1, GotoIs, GotoSame
  <2> QED
    BY <2>1, <2>2
<1> QED
  BY <1>1, <1>4, <1>5, <1>6, WriteSteady

LEMMA ChunkDoneSteady == ASSUME IInv, NEW t \in Threads, ChunkDone(t) PROVE AtRest(t)
<1> DEFINE T == local[t].help
<1>1. /\ TypeOK /\ Chain /\ local[t].pc = "moved" /\ ~ Counts(local[t].pc) /\ current' = current
      /\ Migrating(t) /\ InCall(t) /\ Locals(t) /\ Owner(t)
      /\ ~ Counts("expand")
  BY DEF ChunkDone, quiet, Counts, IInv, Globals, InPlace, Migrating
<1>2. T \in Tables /\ ~ Migrated(T)
  <2>1. T \in Tables /\ t \in Helpers(T)
    BY <1>1, HelperPlace DEF Helpers
  <2> QED
    BY <1>1, <2>1, BusyIsCurrent DEF IInv, Globals
<1>3. tables' = DoneSet(tables, T)
  BY Zenon DEF ChunkDone, DoneSet
<1>4. Evolve /\ SameKeys
  BY <1>1, <1>2, <1>3, Counted1, SameBucketsKeys
<1>5. \A U \in Tables, w \in Kinds : CounterOf(U, w)' = CounterOf(U, w)
  <2> DEFINE f == "done"
             x == tables[T].done + 1
  <2>1. tables' = CounterSet(tables, T, f, x)
    BY <1>3, Zenon DEF DoneSet, CounterSet
  <2>2. f \in {"bucket", "claimed", "done"}
    OBVIOUS
  <2> HIDE DEF f, x
  <2> QED
    BY <1>1, <1>2, <2>1, <2>2, CountersStay
<1>6. Stay(t) /\ local'[t].pc = "expand"
  <2>1. local' = [local EXCEPT ![t] = ReadMore(local[t], "expand", 0)]
    BY Zenon DEF ChunkDone, ReadMore
  <2> QED
    BY <1>1, <2>1, ReadSame DEF Labels
<1> QED
  BY <1>1, <1>4, <1>5, <1>6, WriteSteady

-----------------------------------------------------------------------------
(* A thread that fills a bucket has it to count.                           *)
LEMMA WordFilled ==
  ASSUME TypeOK, NEW T \in Tables, NEW b \in Buckets(T), NEW x, Written(T, b, x)
  PROVE  /\ Tables' = Tables
         /\ \A U \in Tables, w \in Kinds : U # T => Filled(U, w)' = Filled(U, w)
         /\ \A w \in Kinds : Filled(T, w)' = IF x.key \in Filling(w) THEN Filled(T, w) \cup {b}
                                             ELSE Filled(T, w) \ {b}
<1>1. Tables' = Tables
  BY DEF Written, Tables
<1>2. ASSUME NEW U \in Tables, NEW w \in Kinds, U # T PROVE Filled(U, w)' = Filled(U, w)
  <2>1. tables'[U] = tables[U]
    BY <1>2 DEF Written
  <2> QED
    BY <2>1 DEF Filled
<1>3. ASSUME NEW w \in Kinds
      PROVE  Filled(T, w)' = IF x.key \in Filling(w) THEN Filled(T, w) \cup {b}
                             ELSE Filled(T, w) \ {b}
  <2>1. /\ tables'[T].cap = tables[T].cap /\ tables'[T].bucket[b] = x
        /\ \A c \in Buckets(T) : c # b => tables'[T].bucket[c] = tables[T].bucket[c]
    BY DEF Written, SameButBuckets
  <2>2. /\ Filled(T, w) = {c \in Buckets(T) : tables[T].bucket[c].key \in Filling(w)}
        /\ Filled(T, w)' = {c \in Buckets(T) : tables'[T].bucket[c].key \in Filling(w)}
    BY <2>1 DEF Filled, Buckets, Filling
  <2> QED
    BY <2>1, <2>2
<1> QED
  BY <1>1, <1>2, <1>3

LEMMA FilledFinite ==
  ASSUME TypeOK, NEW T \in Tables, NEW w \in Kinds
  PROVE  IsFiniteSet(Filled(T, w)) /\ Cardinality(Filled(T, w)) \in Nat
<1>1. IsFiniteSet(0 .. tables[T].cap - 1)
  BY TableFacts, FS_Interval
<1>2. IsFiniteSet(Filled(T, w))
  BY <1>1, FS_Subset DEF Filled
<1> QED
  BY <1>2, FS_CardinalityType

LEMMA ShareFacts ==
  ASSUME TypeOK, NEW t \in Threads, NEW T \in Tables, NEW w \in Kinds
  PROVE  /\ CounterOf(T, w) \in Counters
         /\ CounterOf(T, w).sub[t] \in Nat /\ CounterOf(T, w).global \in Nat
         /\ Share(t, T, w) = CounterOf(T, w).global + CounterOf(T, w).sub[t]
                             - (IF In(t, T, w, "clear") THEN CounterOf(T, w).sub[t] ELSE 0)
                             + (IF In(t, T, w, "inc") THEN 1 ELSE 0)
<1>1. CounterOf(T, w) \in Counters
  BY PartsNow, Zenon DEF PartsAreOf
<1>2. ShareIs(t, T, w)
  BY SharesNow DEF AllShares
<1> QED
  BY <1>1, <1>2, SubIs, Zenon DEF ShareIs

LEMMA ShareAfter ==
  ASSUME NEW t \in Threads, NEW T, T \in Tables', NEW w \in Kinds
  PROVE  Share(t, T, w)' = CounterOf(T, w)'.global + CounterOf(T, w)'.sub[t]
                           - (IF In(t, T, w, "clear")' THEN CounterOf(T, w)'.sub[t] ELSE 0)
                           + (IF In(t, T, w, "inc")' THEN 1 ELSE 0)
<1>1. ShareIs(t, T, w)'
  BY SharesLater DEF AllShares
<1> QED
  BY <1>1, Zenon DEF ShareIs

(* The write adds a bucket to what counter v tells, and to no other.       *)
Fills(T, b, x, v) ==
  \A w \in Kinds : /\ tables[T].bucket[b].key \in Filling(w) => x.key \in Filling(w)
                   /\ w = v <=> /\ x.key \in Filling(w)
                                /\ tables[T].bucket[b].key \notin Filling(w)

LEMMA FilledTells ==
  ASSUME TypeOK, TypeOK', Tell, NEW t \in Threads, NEW T \in Tables, NEW b \in Buckets(T),
         NEW x, Written(T, b, x), NEW v \in Kinds, Fills(T, b, x, v),
         Stay(t), ~ Counts(local[t].pc), In(t, T, v, "inc")',
         \A U \in Tables, w \in Kinds : CounterOf(U, w)' = CounterOf(U, w)
  PROVE  Tell'
<1>1. Tables' = Tables
  BY WordFilled
<1>2. ASSUME NEW U \in Tables, NEW w \in Kinds PROVE Balanced(t, U, w)
  <2>1. /\ CounterOf(U, w)' = CounterOf(U, w) /\ U \in Tables'
        /\ ~ In(t, U, w, "inc") /\ ~ In(t, U, w, "clear")
    BY <1>1 DEF Counts, In
  <2>2. ~ In(t, U, w, "clear")' /\ (In(t, U, w, "inc")' <=> U = T /\ w = v)
    BY DEF In
  <2>3. CASE U = T /\ w = v
    <3>1. Filled(U, w)' = Filled(U, w) \cup {b} /\ b \notin Filled(U, w)
      BY <2>3, WordFilled DEF Fills, Filled
    <3>2. Cardinality(Filled(U, w)') = Cardinality(Filled(U, w)) + 1
      BY <3>1, FilledFinite, FS_AddElement
    <3>3. Share(t, U, w) = CounterOf(U, w).global + CounterOf(U, w).sub[t]
      BY <2>1, ShareFacts
    <3>4. Share(t, U, w)' = CounterOf(U, w).global + CounterOf(U, w).sub[t] + 1
      <4>1. CounterOf(U, w).sub[t] \in Nat /\ CounterOf(U, w).global \in Nat
        BY ShareFacts
      <4>2. Share(t, U, w)' = CounterOf(U, w)'.global + CounterOf(U, w)'.sub[t] - 0 + 1
        BY <2>1, <2>2, <2>3, ShareAfter
      <4> QED
        BY <2>1, <4>1, <4>2
    <3>5. CounterOf(U, w).sub[t] \in Nat /\ CounterOf(U, w).global \in Nat
          /\ Cardinality(Filled(U, w)) \in Nat
      BY ShareFacts, FilledFinite
    <3> QED
      BY <2>1, <3>2, <3>3, <3>4, <3>5 DEF Balanced
  <2>4. CASE ~ (U = T /\ w = v)
    <3>1. Filled(U, w)' = Filled(U, w)
      <4>1. CASE U = T
        <5>1. /\ Filled(T, w)' = IF x.key \in Filling(w) THEN Filled(T, w) \cup {b}
                                 ELSE Filled(T, w) \ {b}
              /\ x.key \in Filling(w) <=> tables[T].bucket[b].key \in Filling(w)
          BY <2>4, <4>1, WordFilled DEF Fills
        <5>2. b \in Filled(T, w) <=> tables[T].bucket[b].key \in Filling(w)
          BY DEF Filled, Buckets
        <5> QED
          BY <4>1, <5>1, <5>2
      <4>2. CASE U # T
        BY <4>2, WordFilled
      <4> QED
        BY <4>1, <4>2
    <3> QED
      BY <2>1, <2>2, <2>4, <3>1, SameBalanced
  <2> QED
    BY <2>3, <2>4
<1>3. ASSUME NEW U \in Tables, NEW w \in Kinds PROVE Telling(U, w)'
  BY <1>1, <1>2, BalancedTells DEF Tell
<1> QED
  BY <1>1, <1>3 DEF Tell

(* What a write fills, by the key it replaces and the key it stores.       *)
LEMMA FillsKey ==
  ASSUME NEW T, NEW b, NEW x, tables[T].bucket[b] = Vacant, x.key \in Keys
  PROVE  Fills(T, b, x, "inserts")
<1>1. tables[T].bucket[b].key = EMPTY /\ TOMBSTONE # EMPTY
  BY DEF Vacant, Word32, EMPTY, TOMBSTONE
<1> QED
  BY <1>1, KeyFacts DEF Fills, Filling, Kinds

LEMMA FillsTombstone ==
  ASSUME NEW T, NEW b, NEW x, tables[T].bucket[b].key \in Keys, x.key = TOMBSTONE
  PROVE  Fills(T, b, x, "deletes")
BY KeyFacts DEF Fills, Filling, Kinds

LEMMA StoreTells ==
  ASSUME IInv, IInv', Tell, NEW t \in Threads, local[t].pc = "cas", NEW x \in Words,
         WordStep(Bucket(t), x), Store(t, x),
         Fills(local[t].tab, Here(t), x, Which(t))
  PROVE  Tell'
<1> SUFFICES ASSUME NEW T, T = local[t].tab, NEW b, b = Here(t), NEW v, v = Which(t)
             PROVE  Tell'
  OBVIOUS
<1>1. /\ TypeOK /\ TypeOK' /\ local[t].into = 0 /\ T \in Tables /\ b \in Buckets(T)
      /\ Bucket(t) = tables[T].bucket[b] /\ v \in Kinds
  BY StorePlace DEF Bucket, Which, Kinds, IInv
<1>2. Answer(t, TRUE, WordSet(tables, T, b, x)) /\ Goto(t, "inc")
  BY Zenon DEF Store, WordSet
<1>3. tables' = WordSet(tables, T, b, x) /\ current' = current
  BY <1>2, AnswerIs
<1>4. Written(T, b, x)
  BY <1>1, <1>3, WordWrite DEF Written
<1>5. local' = [local EXCEPT ![t] = [local[t] EXCEPT !.pc = "inc"]] /\ "inc" \in Labels
  BY <1>2, Zenon DEF Goto, Labels
<1>6. Stay(t) /\ local'[t].pc = "inc" /\ SameProbe(t) /\ local'[t].into = 0
  BY <1>1, <1>5, GotoSame
<1>7. In(t, T, v, "inc")' /\ ~ Counts(local[t].pc)
  BY <1>1, <1>6 DEF In, Into, Which, SameProbe, Counts
<1>8. \A U \in Tables, w \in Kinds : CounterOf(U, w)' = CounterOf(U, w)
  BY <1>1, <1>3, WordCounters
<1> QED
  BY <1>1, <1>4, <1>6, <1>7, <1>8, FilledTells

LEMMA InsertCASTells ==
  ASSUME IInv, IInv', Tell, NEW t \in Threads, InsertCAS(t)
  PROVE  Tell'
<1>1. /\ local[t].pc = "cas" /\ local[t].op = "insert" /\ TypeOK /\ TypeOK'
      /\ ~ Counts("cas") /\ ~ Counts("recheck")
  BY DEF InsertCAS, At, IInv, Counts
<1>2. CASE OnlyGoto(t, "recheck")
  BY <1>1, <1>2, GotoSteady, SteadyKeeps
<1>3. CASE Bucket(t) = Vacant /\ Store(t, Mine(t))
  <2>1. /\ local[t].key \in Keys /\ local[t].into = 0
    BY <1>1, StorePlace
  <2>2. /\ Mine(t) \in Words /\ Mine(t).key \in Keys /\ ~ Mine(t).marked
    BY <2>1 DEF Mine, Word32, Words
  <2>3. WordStep(Bucket(t), Mine(t))
    BY <1>3, <2>2 DEF WordStep, Vacant, Word32
  <2>4. Fills(local[t].tab, Here(t), Mine(t), Which(t))
    BY <1>1, <1>3, <2>2, FillsKey DEF Bucket, Which
  <2> QED
    BY <1>1, <1>3, <2>2, <2>3, <2>4, StoreTells
<1> QED
  BY <1>2, <1>3, Zenon DEF InsertCAS

LEMMA EraseCASTells ==
  ASSUME IInv, IInv', Tell, NEW t \in Threads, EraseCAS(t)
  PROVE  Tell'
<1>1. /\ local[t].pc = "cas" /\ local[t].op = "erase" /\ TypeOK /\ TypeOK'
      /\ ~ Counts("cas") /\ ~ Counts("recheck")
  BY DEF EraseCAS, At, IInv, Counts
<1>2. CASE OnlyGoto(t, "recheck")
  BY <1>1, <1>2, GotoSteady, SteadyKeeps
<1>3. CASE Bucket(t) = Mine(t) /\ Store(t, Word32(TOMBSTONE, FALSE))
  <2> SUFFICES ASSUME NEW x, x = Word32(TOMBSTONE, FALSE) PROVE Tell'
    OBVIOUS
  <2>1. /\ local[t].key \in Keys /\ local[t].into = 0
    BY <1>1, StorePlace
  <2>2. x \in Words /\ x.key = TOMBSTONE
    BY DEF Word32, Words
  <2>3. Bucket(t).key \in Keys /\ WordStep(Bucket(t), x)
    BY <1>3, <2>1, <2>2 DEF WordStep, Mine, Word32
  <2>4. Fills(local[t].tab, Here(t), x, Which(t))
    BY <1>1, <2>1, <2>2, <2>3, FillsTombstone DEF Bucket, Which
  <2> QED
    BY <1>1, <1>3, <2>2, <2>3, <2>4, StoreTells
<1> QED
  BY <1>2, <1>3, Zenon DEF EraseCAS

LEMMA CopyCASTells ==
  ASSUME IInv, IInv', Tell, NEW t \in Threads, CopyCAS(t)
  PROVE  Tell'
<1> SUFFICES ASSUME NEW T, T = local[t].help, NEW b, b = CopySlot(t), NEW x, x = Copied(t)
             PROVE  Tell'
  OBVIOUS
<1>1. /\ local[t].pc = "copyCAS" /\ Copying(t) /\ local[t].into # 0
      /\ ~ Counts("copyCAS") /\ ~ Counts("copyRecheck") /\ TypeOK /\ TypeOK'
  BY CopyLabels DEF CopyCAS, Counts, IInv
<1>2. CASE OnlyGoto(t, "copyRecheck")
  BY <1>1, <1>2, GotoSteady, SteadyKeeps
<1>3. CASE /\ Target(t) = Vacant
           /\ tables' = [tables EXCEPT ![local[t].into].bucket[CopySlot(t)] = Copied(t)]
           /\ Goto(t, "inc")
           /\ UNCHANGED quiet
  <2>1. /\ T \in Tables /\ local[t].found.key \in Keys /\ local[t].into = T
        /\ b \in Buckets(T) /\ tables[T].bucket[b] = Vacant
    BY <1>1, <1>3, CopyPlace, CopyTarget
  <2>2. current' = current
    BY <1>3 DEF quiet
  <2>3. tables' = WordSet(tables, local[t].into, CopySlot(t), Copied(t))
    BY <1>3, Zenon DEF WordSet
  <2>4. Written(T, b, x)
    BY <1>1, <1>3, <2>2, <2>3, CopyWrite
  <2>5. local' = [local EXCEPT ![t] = [local[t] EXCEPT !.pc = "inc"]] /\ "inc" \in Labels
    BY <1>3, Zenon DEF Goto, Labels
  <2>6. Stay(t) /\ local'[t].pc = "inc" /\ local'[t].into = local[t].into
    BY <1>1, <2>5, GotoSame
  <2>7. In(t, T, "inserts", "inc")' /\ ~ Counts(local[t].pc)
    BY <1>1, <2>1, <2>6 DEF In, Into, Which
  <2>8. \A U \in Tables, w \in Kinds : CounterOf(U, w)' = CounterOf(U, w)
    BY <1>1, <2>1, <2>3, WordCounters
  <2>9. Fills(T, b, x, "inserts")
    BY <2>1, FillsKey DEF Copied, Word32
  <2> QED
    BY <1>1, <2>1, <2>4, <2>6, <2>7, <2>8, <2>9, FilledTells DEF Kinds
<1> QED
  BY <1>2, <1>3, Zenon DEF CopyCAS

-----------------------------------------------------------------------------
(* The steps of a counter move the share of the thread from one of its     *)
(* parts to another.                                                       *)
Shared(c, t, p) ==
  c.global + c.sub[t] - (IF p = "clear" THEN c.sub[t] ELSE 0) + (IF p = "inc" THEN 1 ELSE 0)

LEMMA SharedIs ==
  ASSUME TypeOK, NEW t \in Threads, Into(t) \in Tables, Which(t) \in Kinds
  PROVE  Share(t, Into(t), Which(t)) = Shared(CounterOf(Into(t), Which(t)), t, local[t].pc)
<1> SUFFICES ASSUME NEW T \in Tables, T = Into(t), NEW v \in Kinds, v = Which(t)
             PROVE  Share(t, T, v) = Shared(CounterOf(T, v), t, local[t].pc)
  OBVIOUS
<1>1. \A p : In(t, T, v, p) <=> local[t].pc = p
  BY DEF In
<1> QED
  BY <1>1, ShareFacts DEF Shared

CounterWritten(t, d, p) ==
  /\ d \in Counters /\ tables' = CounterSet(tables, Into(t), Which(t), d)
  /\ \A u \in Threads \ {t} : d.sub[u] = CounterOf(Into(t), Which(t)).sub[u]
  /\ Shared(d, t, p) = Shared(CounterOf(Into(t), Which(t)), t, local[t].pc)

LEMMA CounterTells ==
  ASSUME IInv, IInv', Tell, NEW t \in Threads, local[t].pc \in CounterLabels, Quiet, Stay(t),
         NEW d, CounterWritten(t, d, local'[t].pc), local'[t].pc # "inc",
         local'[t].pc = "clear" => Into(t)' = Into(t) /\ Which(t)' = Which(t)
  PROVE  Tell'
<1> SUFFICES ASSUME NEW T, T = Into(t), NEW v, v = Which(t)
             PROVE  Tell'
  OBVIOUS
<1>1. /\ TypeOK /\ TypeOK' /\ Tables' = Tables /\ tables \in Seq(TableSet)
      /\ T \in Tables /\ v \in Kinds /\ InCall(t) /\ Locals(t) /\ Chain
  <2>1. TypeOK /\ TypeOK' /\ Chain /\ InCall(t) /\ Locals(t) /\ tables \in Seq(TableSet)
    BY DEF IInv, InPlace, Globals, TypeOK
  <2>2. T \in Tables /\ v \in {"inserts", "deletes"}
    BY <2>1, CounterPlace
  <2> QED
    BY <2>1, <2>2, QuietFacts DEF Kinds
<1>2. /\ d \in Counters /\ tables' = CounterSet(tables, T, v, d)
      /\ \A u \in Threads \ {t} : d.sub[u] = CounterOf(T, v).sub[u]
      /\ Shared(d, t, local'[t].pc) = Shared(CounterOf(T, v), t, local[t].pc)
  BY DEF CounterWritten
<1>3. ASSUME NEW U \in Tables, NEW w \in Kinds
      PROVE  CounterOf(U, w)' = IF U = T /\ w = v THEN d ELSE CounterOf(U, w)
  <2>1. CounterAt(tables', U, w) = IF U = T /\ w = v THEN d ELSE CounterAt(tables, U, w)
    BY <1>1, <1>2, FieldStays DEF Tables, Kinds, Fields
  <2> QED
    BY <2>1, Zenon DEF CounterOf, CounterAt
<1>4. ASSUME NEW U \in Tables, NEW w \in Kinds PROVE Filled(U, w)' = Filled(U, w)
  <2>1. /\ tables'[U].bucket = tables[U].bucket /\ tables'[U].cap = tables[U].cap
    BY DEF Quiet, SameSkeleton, SameButBuckets
  <2> QED
    BY <2>1 DEF Filled
<1>5. ASSUME NEW U \in Tables, NEW w \in Kinds PROVE Balanced(t, U, w)
  <2>1. CASE U = T /\ w = v
    <3>1. /\ CounterOf(U, w)' = d /\ Filled(U, w)' = Filled(U, w)
      BY <1>3, <1>4, <2>1
    <3>2. Share(t, U, w) = Shared(CounterOf(T, v), t, local[t].pc)
      BY <1>1, <2>1, SharedIs
    <3>3. Share(t, U, w)' = Shared(d, t, local'[t].pc)
      <4>1. /\ ~ In(t, U, w, "inc")'
            /\ In(t, U, w, "clear")' <=> local'[t].pc = "clear"
        BY <2>1 DEF In
      <4>2. Share(t, U, w)' = d.global + d.sub[t]
                              - (IF local'[t].pc = "clear" THEN d.sub[t] ELSE 0) + 0
        BY <1>1, <3>1, <4>1, ShareAfter
      <4> QED
        BY <4>2 DEF Shared
    <3>4. Share(t, U, w) \in Int /\ Cardinality(Filled(U, w)) \in Nat
      <4>1. CounterOf(T, v).sub[t] \in Nat /\ CounterOf(T, v).global \in Nat
        BY <1>1, ShareFacts
      <4> QED
        BY <1>1, <3>2, <4>1, FilledFinite DEF Shared
    <3>5. \A u \in Threads \ {t} : CounterOf(U, w)'.sub[u] = CounterOf(U, w).sub[u]
      BY <1>2, <2>1, <3>1
    <3>6. Share(t, U, w)' = Share(t, U, w)
      BY <1>2, <3>2, <3>3
    <3> QED
      BY <3>1, <3>4, <3>5, <3>6 DEF Balanced
  <2>2. CASE ~ (U = T /\ w = v)
    <3>1. /\ ~ In(t, U, w, "inc") /\ ~ In(t, U, w, "clear")
          /\ ~ In(t, U, w, "inc")' /\ ~ In(t, U, w, "clear")'
      BY <2>2 DEF In
    <3> QED
      BY <1>1, <1>3, <1>4, <2>2, <3>1, SameBalanced
  <2> QED
    BY <2>1, <2>2
<1>6. ASSUME NEW U \in Tables, NEW w \in Kinds PROVE Telling(U, w)'
  BY <1>1, <1>5, BalancedTells DEF Tell
<1> QED
  BY <1>1, <1>6 DEF Tell

LEMMA CountedIs ==
  ASSUME TypeOK, NEW t \in Threads, Counted(t)
  PROVE  Stay(t) /\ local'[t].pc \in {"idle", "read", "moved"}
<1>1. local'[t] = (IF local[t].into # 0 THEN NextBucket(t) ELSE Fresh) /\ Stay(t)
  BY DEF Counted, TypeOK, Stay
<1>2. NextBucket(t).pc \in {"moved", "read"}
  BY LocalFacts DEF NextBucket, LocalSet
<1> QED
  BY <1>1, <1>2, FreshIs

LEMMA GotoInto ==
  ASSUME TypeOK, NEW t \in Threads, NEW p \in Labels, Goto(t, p)
  PROVE  Stay(t) /\ local'[t].pc = p /\ Into(t)' = Into(t) /\ Which(t)' = Which(t)
<1>1. local' = [local EXCEPT ![t] = [local[t] EXCEPT !.pc = p]]
  BY GotoIs
<1> QED
  BY <1>1, GotoSame DEF Into, Which, SameProbe

(* The counter that thread t is working on.                                *)
LEMMA MyCounter ==
  ASSUME IInv, NEW t \in Threads, local[t].pc \in CounterLabels
  PROVE  LET c == CounterOf(Into(t), Which(t)) IN
         /\ TypeOK /\ c \in Counters /\ c.sub[t] \in Nat /\ c.global \in Nat
         /\ c = tables[Into(t)][Which(t)] /\ c = CounterAt(tables, Into(t), Which(t))
<1>1. /\ TypeOK /\ InCall(t) /\ Locals(t)
  BY DEF IInv, InPlace
<1>2. CounterAt(tables, Into(t), Which(t)) \in Counters
  BY <1>1, CounterPlace
<1>3. CounterOf(Into(t), Which(t)) = CounterAt(tables, Into(t), Which(t))
  BY Zenon DEF CounterOf
<1>4. CounterOf(Into(t), Which(t)) = tables[Into(t)][Which(t)]
  BY Zenon DEF CounterOf, CounterAt
<1> QED
  BY <1>1, <1>2, <1>3, <1>4, SubIs

SubOf(c, t, n) == [c EXCEPT !.sub = [c.sub EXCEPT ![t] = n]]
GlobalOf(c, n) == [c EXCEPT !.global = n]

LEMMA CounterParts ==
  ASSUME NEW c \in Counters, NEW t \in Threads, NEW n \in Nat
  PROVE  /\ SubOf(c, t, n) \in Counters
         /\ SubOf(c, t, n).sub[t] = n /\ SubOf(c, t, n).global = c.global
         /\ \A u \in Threads \ {t} : SubOf(c, t, n).sub[u] = c.sub[u]
         /\ GlobalOf(c, n) \in Counters
         /\ GlobalOf(c, n).sub = c.sub /\ GlobalOf(c, n).global = n
BY DEF Counters, SubOf, GlobalOf

LEMMA SubSet ==
  ASSUME NEW s, NEW T, NEW w, NEW n, NEW t
  PROVE  SubPut(s, T, w, t, n) = CounterSet(s, T, w, SubOf(CounterAt(s, T, w), t, n))
BY Zenon DEF SubPut, CounterSet, CounterAt, SubOf

LEMMA GlobalSet ==
  ASSUME NEW s, NEW T, NEW w, NEW n
  PROVE  GlobalPut(s, T, w, n) = CounterSet(s, T, w, GlobalOf(CounterAt(s, T, w), n))
BY Zenon DEF GlobalPut, CounterSet, CounterAt, GlobalOf

LEMMA IncTells ==
  ASSUME IInv, IInv', Tell, NEW t \in Threads, Inc(t)
  PROVE  Tell'
<1> SUFFICES ASSUME NEW c, c = CounterOf(Into(t), Which(t)),
                    NEW n, n = tables[Into(t)][Which(t)].sub[t] + 1,
                    NEW d, d = SubOf(c, t, n), NEW p, p = local'[t].pc
             PROVE  Tell'
  OBVIOUS
<1>1. local[t].pc = "inc" /\ local[t].pc \in CounterLabels /\ Quiet
  BY CounterQuiet DEF Inc, CounterLabels
<1>2. /\ TypeOK /\ c \in Counters /\ c.sub[t] \in Nat /\ c.global \in Nat
      /\ c = CounterAt(tables, Into(t), Which(t)) /\ n = c.sub[t] + 1
  BY <1>1, MyCounter
<1>3. tables' = CounterSet(tables, Into(t), Which(t), d)
  <2>1. tables' = SubPut(tables, Into(t), Which(t), t, n)
    BY Zenon DEF Inc, SubPut
  <2> QED
    BY <1>2, <2>1, SubSet
<1>4. /\ d \in Counters /\ d.sub[t] = c.sub[t] + 1 /\ d.global = c.global
      /\ \A u \in Threads \ {t} : d.sub[u] = c.sub[u]
  <2>1. n \in Nat
    BY <1>2
  <2>2. /\ d \in Counters /\ d.sub[t] = n /\ d.global = c.global
        /\ \A u \in Threads \ {t} : d.sub[u] = c.sub[u]
    BY <1>2, <2>1, CounterParts, Zenon
  <2> QED
    BY <1>2, <2>2
<1>5. Stay(t) /\ p \notin {"inc", "clear"}
  <2>1. Goto(t, "flush") \/ Counted(t)
    BY DEF Inc
  <2> QED
    BY <1>2, <2>1, GotoInto, CountedIs DEF Labels
<1>6. Shared(d, t, p) = Shared(c, t, local[t].pc)
  BY <1>1, <1>2, <1>4, <1>5 DEF Shared
<1>7. CounterWritten(t, d, local'[t].pc)
  BY <1>3, <1>4, <1>6 DEF CounterWritten
<1> QED
  BY <1>1, <1>5, <1>7, CounterTells

LEMMA FlushBatchTells ==
  ASSUME IInv, IInv', Tell, NEW t \in Threads, FlushBatch(t)
  PROVE  Tell'
<1> SUFFICES ASSUME NEW c, c = CounterOf(Into(t), Which(t)),
                    NEW n, n = tables[Into(t)][Which(t)].global
                               + tables[Into(t)][Which(t)].sub[t],
                    NEW d, d = GlobalOf(c, n)
             PROVE  Tell'
  OBVIOUS
<1>1. local[t].pc = "flush" /\ local[t].pc \in CounterLabels /\ Quiet
  BY CounterQuiet DEF FlushBatch, CounterLabels
<1>2. /\ TypeOK /\ c \in Counters /\ c.sub[t] \in Nat /\ c.global \in Nat
      /\ c = CounterAt(tables, Into(t), Which(t)) /\ n = c.global + c.sub[t]
  BY <1>1, MyCounter
<1>3. tables' = CounterSet(tables, Into(t), Which(t), d)
  <2>1. tables' = GlobalPut(tables, Into(t), Which(t), n)
    BY Zenon DEF FlushBatch, GlobalPut
  <2> QED
    BY <1>2, <2>1, GlobalSet
<1>4. d \in Counters /\ d.sub = c.sub /\ d.global = c.global + c.sub[t]
  <2>1. n \in Nat
    BY <1>2
  <2>2. d \in Counters /\ d.sub = c.sub /\ d.global = n
    BY <1>2, <2>1, CounterParts, Zenon
  <2> QED
    BY <1>2, <2>2
<1>5. /\ Stay(t) /\ local'[t].pc = "clear"
      /\ Into(t)' = Into(t) /\ Which(t)' = Which(t)
  <2>1. Goto(t, "clear") /\ "clear" \in Labels
    BY DEF FlushBatch, Labels
  <2> QED
    BY <1>2, <2>1, GotoInto
<1>6. Shared(d, t, "clear") = Shared(c, t, local[t].pc)
  BY <1>1, <1>2, <1>4 DEF Shared
<1>7. CounterWritten(t, d, local'[t].pc)
  BY <1>3, <1>4, <1>5, <1>6 DEF CounterWritten
<1> QED
  BY <1>1, <1>5, <1>7, CounterTells

LEMMA ClearBatchTells ==
  ASSUME IInv, IInv', Tell, NEW t \in Threads, ClearBatch(t)
  PROVE  Tell'
<1> SUFFICES ASSUME NEW c, c = CounterOf(Into(t), Which(t)),
                    NEW d, d = SubOf(c, t, 0), NEW p, p = local'[t].pc
             PROVE  Tell'
  OBVIOUS
<1>1. local[t].pc = "clear" /\ local[t].pc \in CounterLabels /\ Quiet
  BY CounterQuiet DEF ClearBatch, CounterLabels
<1>2. /\ TypeOK /\ c \in Counters /\ c.sub[t] \in Nat /\ c.global \in Nat
      /\ c = CounterAt(tables, Into(t), Which(t))
  BY <1>1, MyCounter
<1>3. tables' = CounterSet(tables, Into(t), Which(t), d)
  <2>1. tables' = SubPut(tables, Into(t), Which(t), t, 0)
    BY Zenon DEF ClearBatch, SubPut
  <2> QED
    BY <1>2, <2>1, SubSet
<1>4. /\ d \in Counters /\ d.sub[t] = 0 /\ d.global = c.global
      /\ \A u \in Threads \ {t} : d.sub[u] = c.sub[u]
  <2>1. 0 \in Nat
    OBVIOUS
  <2> QED
    BY <1>2, <2>1, CounterParts, Zenon
<1>5. Stay(t) /\ p \notin {"inc", "clear"}
  BY <1>2, CountedIs DEF ClearBatch
<1>6. Shared(d, t, p) = Shared(c, t, local[t].pc)
  BY <1>1, <1>2, <1>4, <1>5 DEF Shared
<1>7. CounterWritten(t, d, local'[t].pc)
  BY <1>3, <1>4, <1>6 DEF CounterWritten
<1> QED
  BY <1>1, <1>5, <1>7, CounterTells

-----------------------------------------------------------------------------
(* A table without a filled bucket, in which nobody counts yet.            *)
LEMMA UntouchedTells ==
  ASSUME TypeOK, NEW T \in Tables, NEW w \in Kinds, CounterOf(T, w) = Zero, Filled(T, w) = {},
         \A u \in Threads : ~ In(u, T, w, "inc") /\ ~ In(u, T, w, "clear")
  PROVE  Telling(T, w)
<1>1. /\ CounterOf(T, w) \in Counters /\ FlushedTwice(T, w) \in [Threads -> Nat]
      /\ Counting(T, w) \in SUBSET Threads
      /\ Parts(T, w) = PartsOf(CounterOf(T, w), FlushedTwice(T, w), Counting(T, w))
  BY PartsNow, Zenon DEF PartsAreOf
<1>2. Counting(T, w) = {}
  BY DEF Counting, In
<1>3. \A u \in Threads : FlushedTwice(T, w)[u] = 0
  BY DEF FlushedTwice, In
<1>4. CounterOf(T, w).global = 0 /\ \A u \in Threads : CounterOf(T, w).sub[u] = 0
  BY DEF Zero
<1>5. Parts(T, w) = (CounterOf(T, w).global + SumFunctionOnSet(CounterOf(T, w).sub, Threads))
                    - SumFunctionOnSet(FlushedTwice(T, w), Threads)
                    + Cardinality(Counting(T, w))
  BY <1>1, PartsAre
<1>6. SumFunctionOnSet(CounterOf(T, w).sub, Threads) = 0
  BY <1>4, ThreadsFinite, SumZero
<1>7. SumFunctionOnSet(FlushedTwice(T, w), Threads) = 0
  BY <1>3, ThreadsFinite, SumZero
<1>8. Parts(T, w) = 0 /\ Cardinality(Filled(T, w)) = 0
  BY <1>2, <1>4, <1>5, <1>6, <1>7, FS_EmptySet
<1> QED
  BY <1>8 DEF Telling

AllUntouched ==
  \A T \in Tables, w \in Kinds :
    (/\ CounterOf(T, w) = Zero /\ Filled(T, w) = {}
     /\ \A u \in Threads : ~ In(u, T, w, "inc") /\ ~ In(u, T, w, "clear"))
      => Telling(T, w)

LEMMA UntouchedLater == TypeOK' => AllUntouched'
<1>1. TypeOK => AllUntouched
  BY UntouchedTells DEF AllUntouched
<1> QED
  BY <1>1, PTL

LEMMA InitTells == Init => Tell
<1> SUFFICES ASSUME Init, NEW T \in Tables, NEW w \in Kinds PROVE Telling(T, w)
  BY DEF Tell
<1>1. TypeOK /\ T = 1 /\ \A b \in Buckets(1) : tables[1].bucket[b] = Vacant
  BY InitTypes, InitTables
<1>2. Filled(T, w) = {}
  BY <1>1, KeyFacts DEF Filled, Filling, Buckets, Vacant, Word32
<1>3. CounterOf(T, w) = Zero
  <2>1. tables[1].inserts = Zero /\ tables[1].deletes = Zero
    BY DEF Init, NewTable
  <2> QED
    BY <1>1, <2>1, Zenon DEF CounterOf, CounterAt, Kinds
<1>4. \A u \in Threads : local[u].pc = "idle"
  BY InitLocals
<1> QED
  BY <1>1, <1>2, <1>3, <1>4, UntouchedTells DEF In

(* The new table is untouched, and the old ones stay as they are.          *)
LEMMA PublishTells ==
  ASSUME IInv, IInv', Tell, NEW t \in Threads, Publish(t)
  PROVE  Tell'
<1>1. /\ TypeOK /\ TypeOK' /\ Chain /\ local[t].pc = "swap" /\ ~ Counts(local[t].pc)
      /\ local' = [local EXCEPT ![t] = CapMore(local[t], "again", 0)]
  <2>1. local' = [local EXCEPT ![t] = CapMore(local[t], "again", 0)]
    BY Zenon DEF Publish, CapMore
  <2> QED
    BY <2>1 DEF Publish, IInv, Globals, Counts
<1>2. Stay(t) /\ local'[t].pc = "again" /\ ~ Counts(local'[t].pc)
  BY <1>1, CapSame DEF Labels, Counts
<1>3. CASE tables' = tables
  BY <1>1, <1>2, <1>3, SameTablesSteady, SteadyKeeps
<1>4. CASE tables' = Append(tables, NewTable(local[t].cap, local[t].tab))
  <2> SUFFICES ASSUME NEW N, N = Len(tables) + 1, NEW cap, cap = local[t].cap,
                      NEW old, old = local[t].tab
               PROVE  Tell'
    OBVIOUS
  <2>1. cap \in Nat \ {0} /\ old \in Nat /\ tables \in Seq(TableSet)
    BY <1>1, LocalFacts DEF IInv, InPlace, Locals, TypeOK
  <2> DEFINE tab == NewTable(cap, old)
  <2>2. /\ tab \in TableSet /\ tab.cap = cap
        /\ \A b \in 0 .. cap - 1 : tab.bucket[b] = Vacant
    BY <2>1, NewTableIs
  <2>3. tab.inserts = Zero /\ tab.deletes = Zero
    BY DEF NewTable
  <2>4. tables' = Append(tables, tab)
    BY <1>4
  <2> HIDE DEF tab
  <2>5. /\ Tables' = Tables \cup {N} /\ tables'[N] = tab /\ N \notin Tables
        /\ \A T \in Tables : tables'[T] = tables[T]
    BY <2>1, <2>2, <2>4, SeqMore DEF Tables
  <2>6. Steady(t)
    <3>1. ASSUME NEW T \in Tables, NEW w \in Kinds
          PROVE  CounterOf(T, w)' = CounterOf(T, w) /\ Filled(T, w)' = Filled(T, w)
      <4>1. tables'[T] = tables[T]
        BY <2>5
      <4>2. CounterOf(T, w)' = CounterOf(T, w)
        BY <4>1, Zenon DEF CounterOf, CounterAt
      <4>3. Filled(T, w)' = Filled(T, w)
        BY <4>1 DEF Filled
      <4> QED
        BY <4>2, <4>3
    <3> QED
      BY <1>1, <1>2, <2>5, <3>1 DEF Steady
  <2>7. \A T \in Tables, w \in Kinds : Telling(T, w)'
    BY <1>1, <2>6, SteadyTells
  <2>8. ASSUME NEW w \in Kinds PROVE Telling(N, w)'
    <3>1. CounterOf(N, w)' = Zero
      <4>1. tables'[N].inserts = Zero /\ tables'[N].deletes = Zero
        BY <2>3, <2>5
      <4> QED
        BY <4>1, Zenon DEF CounterOf, CounterAt, Kinds
    <3>2. Filled(N, w)' = {}
      BY <2>2, <2>5, KeyFacts DEF Filled, Filling, Vacant, Word32
    <3>3. ASSUME NEW u \in Threads PROVE ~ In(u, N, w, "inc")' /\ ~ In(u, N, w, "clear")'
      <4>1. CASE u = t
        BY <1>2, <4>1 DEF In
      <4>2. CASE u # t
        <5>1. local'[u] = local[u]
          BY <1>2, <4>2 DEF Stay
        <5>2. InCall(u) /\ Locals(u)
          BY DEF IInv, InPlace
        <5>3. local[u].pc \in {"inc", "clear"} => Into(u) \in Tables
          BY <1>1, <5>2, CounterPlace DEF CounterLabels
        <5> QED
          BY <2>5, <5>1, <5>3 DEF In, Into
      <4> QED
        BY <4>1, <4>2
    <3>4. N \in Tables'
      BY <2>5
    <3> QED
      BY <1>1, <3>1, <3>2, <3>3, <3>4, UntouchedLater DEF AllUntouched
  <2> QED
    BY <2>5, <2>7, <2>8 DEF Tell
<1> QED
  BY <1>3, <1>4 DEF Publish

LEMMA StepTells ==
  ASSUME IInv, IInv', Tell, NEW t \in Threads, Step(t)
  PROVE  Tell'
<1>1. TypeOK /\ TypeOK'
  BY DEF IInv
<1>2. CASE \/ HelpTest(t) \/ HelpClaim(t) \/ ReadOld(t) \/ MarkOld(t) \/ CopyCall(t)
           \/ CopyRead(t) \/ CopyRecheck(t) \/ ChunkDone(t)
           \/ CheckUse(t) \/ CountUse(t) \/ StartExpansion(t) \/ CountKeys(t)
           \/ HelpCurrent(t) \/ AfterExpansion(t)
           \/ InsertRead(t) \/ InsertRecheck(t) \/ EraseRead(t) \/ EraseRecheck(t)
  <2>1. AtRest(t)
    BY <1>2, HelpTestSteady, HelpClaimSteady, ReadOldSteady, MarkOldSteady, CopyCallSteady,
       CopyReadSteady, CopyRecheckSteady, ChunkDoneSteady, CheckUseSteady, CountUseSteady,
       StartExpansionSteady, CountKeysSteady, HelpCurrentSteady, AfterExpansionSteady,
       ProbeSteady, Zenon
  <2> QED
    BY <1>1, <2>1, SteadyKeeps
<1>3. CASE \/ CopyCAS(t) \/ Publish(t) \/ InsertCAS(t) \/ EraseCAS(t)
           \/ Inc(t) \/ FlushBatch(t) \/ ClearBatch(t)
  BY <1>3, CopyCASTells, PublishTells, InsertCASTells, EraseCASTells, IncTells,
     FlushBatchTells, ClearBatchTells, Zenon
<1> QED
  BY <1>2, <1>3, Zenon DEF Step

PartsAdd(T, w) ==
  Parts(T, w) = PartsOf(CounterOf(T, w), FlushedTwice(T, w), Counting(T, w))

AllPartsAdd == \A T, w : PartsAdd(T, w)

LEMMA PartsAddNow == AllPartsAdd
BY Zenon DEF AllPartsAdd, PartsAdd, Parts, PartsOf, CounterOf, CounterAt

LEMMA PartsAddLater == AllPartsAdd'
BY PartsAddNow, PTL

LEMMA SameTells == UNCHANGED vars => (Tell' <=> Tell)
<1> SUFFICES ASSUME tables' = tables, local' = local PROVE Tell' <=> Tell
  BY DEF vars
<1>1. Tables' = Tables
  BY DEF Tables
<1>2. ASSUME NEW T, NEW w PROVE Telling(T, w)' <=> Telling(T, w)
  <2>1. Filled(T, w)' = Filled(T, w)
    BY Zenon DEF Filled
  <2>2. FlushedTwice(T, w)' = FlushedTwice(T, w) /\ Counting(T, w)' = Counting(T, w)
    BY Zenon DEF FlushedTwice, Counting, Into, Which
  <2>3. CounterOf(T, w)' = CounterOf(T, w)
    BY Zenon DEF CounterOf, CounterAt
  <2>4. PartsAdd(T, w) /\ PartsAdd(T, w)'
    BY PartsAddNow, PartsAddLater DEF AllPartsAdd
  <2>5. Parts(T, w)' = Parts(T, w)
    BY <2>2, <2>3, <2>4, Zenon DEF PartsAdd
  <2> QED
    BY <2>1, <2>5, Zenon DEF Telling
<1> QED
  BY <1>1, <1>2, Zenon DEF Tell

LEMMA NextTells == IInv /\ IInv' /\ Tell /\ [Next]_vars => Tell'
<1> SUFFICES ASSUME IInv, IInv', Tell, [Next]_vars PROVE Tell'
  OBVIOUS
<1>1. CASE UNCHANGED vars
  BY <1>1, SameTells
<1>2. ASSUME NEW t \in Threads, Step(t) PROVE Tell'
  BY <1>2, StepTells
<1>3. ASSUME NEW t \in Threads, CallStep(t) PROVE Tell'
  <2>1. PICK o \in {"insert", "erase"}, k \in Keys : Call(t, o, k)
    BY <1>3 DEF CallStep
  <2>2. AtRest(t)
    BY <2>1, CallSteady
  <2> QED
    BY <2>2, SteadyKeeps DEF IInv
<1>4. CASE Ended
  BY <1>1, <1>4 DEF Ended
<1> QED
  BY <1>1, <1>2, <1>3, <1>4, Zenon DEF Next

(* The parts of the counters are what the buckets hold, in every state:    *)
(* the numbers from which expandAsNeeded and startExpansion decide lag     *)
(* behind by what the threads have still to count, and by nothing else.    *)
THEOREM CountersTell == Spec => []CountersTellBuckets
<1>1. Spec => []Tell
  BY Invariant, InitTells, NextTells, PTL DEF Spec
<1>2. CountersTellBuckets <=> Tell
  BY TellIs
<1> QED
  BY <1>1, <1>2, PTL
=============================================================================
